----------------------------- MODULE ChunksArray -----------------------------
(***************************************************************************)
(* The pool in which RtpSequenceAssembler keeps the payloads of the RTP    *)
(* packets it holds back (RtspClientSharp/Utils/ChunksArray.cs).  One byte *)
(* array is cut into fixed-size chunks.  A chunk is handed out by index,   *)
(* an index returned by RemoveAt goes on a stack and is reused first, and  *)
(* the array only ever grows.                                              *)
(*                                                                         *)
(* A payload is an opaque value.  Chunk numbers start at 1 here and at 0   *)
(* in the code.  The size list holds 1 for a chunk that was written and 0  *)
(* for one that RemoveAt cleared, which is all a reader of it can tell.    *)
(***************************************************************************)
EXTENDS Naturals, Sequences

CONSTANTS Payloads,              \* what a chunk can hold
          NoPayload,             \* what an empty segment reads as
          MaxCorrectionLength    \* _maxNumberOfChunks of the only pool

ASSUME ChunksAssumption ==
  /\ MaxCorrectionLength \in Nat \ {0}
  /\ NoPayload \notin Payloads

VARIABLES chunksBytes,           \* _chunksBytes, by chunk
          sizesList,             \* _sizesList
          freeChunks,            \* _freeChunks, its top last
          chunksCount            \* _chunksCount

chunkVars == <<chunksBytes, sizesList, freeChunks, chunksCount>>

Chunks == 1 .. MaxCorrectionLength

ChunksTypeOK ==
  /\ chunksBytes \in [Chunks -> Payloads \cup {NoPayload}]
  /\ sizesList \in Seq({0, 1})
  /\ freeChunks \in Seq(Chunks)
  /\ chunksCount \in Nat

ChunksInit ==
  /\ chunksBytes = [c \in Chunks |-> NoPayload]
  /\ sizesList = <<>>
  /\ freeChunks = <<>>
  /\ chunksCount = 0

\* The indexer: the segment of a chunk, empty once its size was cleared.
ChunkAt(c) == IF sizesList[c] = 0 THEN NoPayload ELSE chunksBytes[c]

\* Insert refuses a payload when every chunk is in use (it throws).
PoolIsFull == chunksCount = MaxCorrectionLength

\* The chunk the next Insert writes.
ChunkToInsert == IF freeChunks # <<>> THEN freeChunks[Len(freeChunks)]
                                      ELSE chunksCount + 1

Insert(payload) ==
  /\ chunksBytes' = [chunksBytes EXCEPT ![ChunkToInsert] = payload]
  /\ chunksCount' = chunksCount + 1
  /\ \/ /\ freeChunks # <<>>
        /\ sizesList' = [sizesList EXCEPT ![ChunkToInsert] = 1]
        /\ freeChunks' = SubSeq(freeChunks, 1, Len(freeChunks) - 1)
     \/ /\ freeChunks = <<>>
        /\ sizesList' = Append(sizesList, 1)
        /\ UNCHANGED freeChunks

RemoveChunk(c) ==
  /\ chunksCount' = chunksCount - 1
  /\ freeChunks' = Append(freeChunks, c)
  /\ sizesList' = [sizesList EXCEPT ![c] = 0]
  /\ UNCHANGED chunksBytes

\* A mutant of ClearChunks: the stack survives.
ClearChunksKeepsStack ==
  /\ sizesList' = <<>>
  /\ chunksCount' = 0
  /\ UNCHANGED <<chunksBytes, freeChunks>>

ClearChunks ==
  /\ freeChunks' = <<>>
  /\ sizesList' = <<>>
  /\ chunksCount' = 0
  /\ UNCHANGED chunksBytes
=============================================================================
