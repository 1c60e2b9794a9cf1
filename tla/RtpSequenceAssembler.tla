------------------------ MODULE RtpSequenceAssembler ------------------------
(***************************************************************************)
(* The receive path of one UDP media stream.  A datagram goes through      *)
(* RtpSequenceAssembler.ProcessPacket, which hands packets to its only     *)
(* subscriber, RtpStream.ProcessImmediately, in sequence order as far as   *)
(* it can restore it, and keeps the payloads of those it holds back in a   *)
(* ChunksArray.  Between two datagrams the receive loop may draw a         *)
(* receiver report.                                                        *)
(*                                                                         *)
(* One thread runs ProcessPacket.  A step ends where the subscriber is     *)
(* called, because the payload parser it runs may throw there: the         *)
(* exception leaves ProcessPacket at that point, and with the one-datagram *)
(* RtpClient.ReceiveAsync the caller may go on with the same object.       *)
(***************************************************************************)
EXTENDS ChunksArray, RtpStream, SequencesExt

CONSTANTS ParserThrows,       \* whether a payload parser may throw
          Copies,             \* network bound: deliveries of each packet
          MaxDisplacement,    \* network bound: how late a packet may be
          MaxGap,             \* network bound: packets lost or late in a row
          MaxStart,           \* network bound: the first packet received
          Lossless,           \* whether the network only delays
          MaxReports,         \* bound on the receiver reports drawn
          SenderClock         \* packet -> the clock its timestamp is the low part of

ASSUME AssemblerAssumption ==
  /\ Payloads = Packets
  /\ MaxCorrectionLength < SeqModulus
  /\ ParserThrows \in BOOLEAN
  /\ Copies \in [Packets -> Nat] /\ MaxDisplacement \in Nat /\ MaxGap \in Nat
  /\ Lossless \in BOOLEAN /\ MaxStart \in Nat /\ MaxReports \in Nat
  /\ SenderClock \in [Packets -> Nat]

VARIABLES isFirstPacket,              \* _isFirstPacket
          previousCorrectSeqNumber,   \* _previousCorrectSeqNumber
          previousCorrectTimestamp,   \* _previousTimestamp
          buffered,                   \* _bufferedRtpPackets
          chunkMap,                   \* _rtpPacketIndexToChunkIndexMap
          removeList,                 \* _removeList
          pc,                         \* where ProcessPacket is
          current,                    \* its argument, while a flush defers it
          nextSeqNumber,              \* of ProcessBufferedPackets
          scanFrom,                   \* the loop index i there
          anythingFound,              \* there
          pending,                    \* the indices its last loop still has to remove
          arrivals,                   \* history: deliveries of each packet
          handed,                     \* history: packets given to RtpStream
          reports                     \* history: reports drawn

bufferVars == <<buffered, chunkMap, chunkVars>>
scanVars == <<nextSeqNumber, scanFrom, anythingFound>>
correctVars == <<previousCorrectSeqNumber, previousCorrectTimestamp>>
networkVars == <<arrivals, reports>>
vars == <<chunkVars, streamVars, isFirstPacket, correctVars, buffered, chunkMap,
          removeList, pc, current, scanVars, pending, networkVars, handed>>

Init ==
  /\ ChunksInit
  /\ StreamInit
  /\ isFirstPacket = TRUE
  /\ previousCorrectSeqNumber = 0 /\ previousCorrectTimestamp = 0
  /\ buffered = <<>> /\ chunkMap = <<>> /\ removeList = <<>> /\ pending = <<>>
  /\ pc = "idle" /\ current = NoPacket
  /\ nextSeqNumber = 0 /\ scanFrom = 1 /\ anythingFound = FALSE
  /\ arrivals = [n \in Packets |-> 0] /\ handed = {} /\ reports = 0
-----------------------------------------------------------------------------
\* PacketPassed.Invoke(packet): RtpStream.ProcessImmediately runs to its end,
\* or to the exception its parser throws.
PassPacket(n, payload) ==
  /\ previousCorrectSeqNumber' = SeqNumber[n]
  /\ previousCorrectTimestamp' = Timestamp[n]
  /\ ProcessImmediately(n, payload)
  /\ handed' = handed \cup {n}

CallbackThrows(n, payload) == ParserThrows /\ CallsParser(n, payload)

\* The exception unwinds ProcessPacket: its locals are gone, its fields stay.
Unwind ==
  /\ pc' = "idle" /\ current' = NoPacket /\ pending' = <<>>
  /\ nextSeqNumber' = 0 /\ scanFrom' = 1 /\ anythingFound' = FALSE

\* ProcessPacket returns.
Return == Unwind

\* A mutant of BeginProcessBufferedPackets: it looks for the packet just passed.
BeginProcessBufferedPacketsOffByOne(seq) ==
  /\ pc' = "scan"
  /\ nextSeqNumber' = seq
  /\ scanFrom' = 1 /\ anythingFound' = FALSE
  /\ UNCHANGED <<current, pending>>

BeginProcessBufferedPackets(seq) ==
  /\ pc' = "scan"
  /\ nextSeqNumber' = (seq + 1) % SeqModulus
  /\ scanFrom' = 1 /\ anythingFound' = FALSE
  /\ UNCHANGED <<current, pending>>

Delta(n) == SeqDelta(SeqNumber[n], previousCorrectSeqNumber)

\* A datagram of the network's choosing.
Deliver(n) ==
  /\ pc = "idle"
  /\ arrivals[n] < Copies[n]
  /\ \A m \in Packets : arrivals[m] > 0 => m <= n + MaxDisplacement
  /\ \/ n <= MaxStart
     \/ \E m \in Packets : arrivals[m] > 0 /\ n <= m + 1 + MaxGap
  /\ Lossless => \A m \in Packets : m + MaxDisplacement < n => arrivals[m] > 0
  /\ arrivals' = [arrivals EXCEPT ![n] = @ + 1]
  /\ UNCHANGED reports

ProcessFirstPacket(n) ==
  /\ Deliver(n) /\ isFirstPacket
  /\ PassPacket(n, n)
  /\ \/ isFirstPacket' = FALSE
     \/ CallbackThrows(n, n) /\ UNCHANGED isFirstPacket
  /\ Return
  /\ UNCHANGED <<bufferVars, removeList>>

ProcessNextPacket(n) ==
  /\ Deliver(n) /\ ~isFirstPacket /\ Delta(n) = 1
  /\ PassPacket(n, n)
  /\ \/ buffered # <<>> /\ BeginProcessBufferedPackets(SeqNumber[n])
     \/ buffered = <<>> /\ Return
     \/ CallbackThrows(n, n) /\ Unwind
  /\ UNCHANGED <<bufferVars, removeList, isFirstPacket>>

IsDiscontinuity(n) ==
  Timestamp[n] # previousCorrectTimestamp \/ Delta(n) > MaxCorrectionLength

\* Another frame, or too far from the last packet passed: flush first.
ProcessDiscontinuity(n) ==
  /\ Deliver(n) /\ ~isFirstPacket /\ Delta(n) # 1 /\ IsDiscontinuity(n)
  /\ pc' = "flush" /\ current' = n
  /\ UNCHANGED <<streamVars, bufferVars, removeList, isFirstPacket, correctVars,
                 scanVars, pending, handed>>

ProcessRepeatedPacket(n) ==
  /\ Deliver(n) /\ ~isFirstPacket /\ ~IsDiscontinuity(n) /\ Delta(n) = 0
  /\ UNCHANGED <<streamVars, bufferVars, removeList, isFirstPacket, correctVars,
                 scanVars, pending, pc, current, handed>>

BufferIsFull(count) == count = MaxCorrectionLength

\* Ahead of a gap in the same frame: hold it back.  Insert throws when every
\* chunk is in use, after the packet itself was already added.
BufferPacket(n) ==
  /\ Deliver(n) /\ ~isFirstPacket /\ ~IsDiscontinuity(n) /\ Delta(n) \notin {0, 1}
  /\ buffered' = Append(buffered, n)
  /\ \/ /\ ~PoolIsFull
        /\ chunkMap' = Append(chunkMap, ChunkToInsert)
        /\ Insert(n)
        /\ pc' = IF BufferIsFull(Len(buffered) + 1) THEN "full" ELSE "idle"
     \/ PoolIsFull /\ UNCHANGED <<chunkMap, chunkVars, pc>>
  /\ UNCHANGED <<streamVars, removeList, isFirstPacket, correctVars, scanVars,
                 pending, current, handed>>
-----------------------------------------------------------------------------
\* PassNearestBufferedPacket: the buffered packet closest after the last one.
IsNearest(i) ==
  /\ \A j \in DOMAIN buffered : Delta(buffered[i]) <= Delta(buffered[j])
  /\ \A j \in 1 .. i - 1 : Delta(buffered[i]) < Delta(buffered[j])

RemoveBuffered(i) ==
  /\ buffered' = RemoveAt(buffered, i)
  /\ chunkMap' = RemoveAt(chunkMap, i)
  /\ RemoveChunk(chunkMap[i])

\* A flush passes buffered packets until none is left, then the packet it was
\* for.  A full buffer gives up on the packet it waits for and passes one.  An
\* index past the end of _rtpPacketIndexToChunkIndexMap throws.
PassNearestBufferedPacket ==
  /\ pc \in {"flush", "full"}
  /\ \E i \in DOMAIN buffered :
       /\ IsNearest(i)
       /\ \/ /\ i <= Len(chunkMap)
             /\ PassPacket(buffered[i], ChunkAt(chunkMap[i]))
             /\ \/ /\ RemoveBuffered(i)
                   /\ \/ pc = "flush" /\ UNCHANGED <<pc, current, scanVars, pending>>
                      \/ pc = "full" /\ BeginProcessBufferedPackets(SeqNumber[buffered[i]])
                \/ /\ CallbackThrows(buffered[i], ChunkAt(chunkMap[i]))
                   /\ Unwind
                   /\ UNCHANGED bufferVars
          \/ /\ i > Len(chunkMap)
             /\ Unwind
             /\ UNCHANGED <<bufferVars, streamVars, correctVars, handed>>
  /\ UNCHANGED <<removeList, isFirstPacket, networkVars>>

FlushEnds ==
  /\ pc = "flush" /\ buffered = <<>>
  /\ PassPacket(current, current)
  /\ Return
  /\ UNCHANGED <<bufferVars, removeList, isFirstPacket, networkVars>>
-----------------------------------------------------------------------------
\* ProcessBufferedPackets, first loop: pass whatever continues the sequence.
IsHit(i) ==
  /\ i >= scanFrom /\ SeqNumber[buffered[i]] = nextSeqNumber
  /\ \A j \in scanFrom .. i - 1 : SeqNumber[buffered[j]] # nextSeqNumber

ScanHit ==
  /\ pc = "scan"
  /\ \E i \in DOMAIN buffered :
       /\ IsHit(i)
       /\ \/ /\ i <= Len(chunkMap)
             /\ PassPacket(buffered[i], ChunkAt(chunkMap[i]))
             /\ \/ /\ nextSeqNumber' = (nextSeqNumber + 1) % SeqModulus
                   /\ anythingFound' = TRUE
                   /\ removeList' = Append(removeList, i)
                   /\ scanFrom' = i + 1
                   /\ UNCHANGED <<pc, current, pending>>
                \/ /\ CallbackThrows(buffered[i], ChunkAt(chunkMap[i]))
                   /\ Unwind
                   /\ UNCHANGED removeList
          \/ /\ i > Len(chunkMap)
             /\ Unwind
             /\ UNCHANGED <<streamVars, correctVars, handed, removeList>>
  /\ UNCHANGED <<bufferVars, isFirstPacket, networkVars>>

NoHit == \A i \in DOMAIN buffered : ~IsHit(i)

ScanAgain ==
  /\ pc = "scan" /\ NoHit /\ anythingFound
  /\ scanFrom' = 1 /\ anythingFound' = FALSE
  /\ UNCHANGED <<streamVars, bufferVars, removeList, isFirstPacket, correctVars,
                 pc, current, nextSeqNumber, pending, networkVars, handed>>

\* Then the packets passed leave the buffer: all at once when nothing else is in
\* it, otherwise one by one from the highest index down (_removeList.Sort()).
ScanEnds ==
  /\ pc = "scan" /\ NoHit /\ ~anythingFound
  /\ \/ /\ removeList = <<>>
        /\ Return
        /\ UNCHANGED <<bufferVars, removeList>>
     \/ /\ removeList # <<>> /\ Len(removeList) = Len(buffered)
        /\ buffered' = <<>> /\ chunkMap' = <<>> /\ removeList' = <<>>
        /\ ClearChunks
        /\ Return
     \/ /\ removeList # <<>> /\ Len(removeList) # Len(buffered)
        /\ pc' = "remove" /\ pending' = removeList
        /\ UNCHANGED <<bufferVars, removeList, current, scanVars>>
  /\ UNCHANGED <<streamVars, isFirstPacket, correctVars, networkVars, handed>>

IsHighest(k) == \A j \in DOMAIN pending : pending[j] <= pending[k]

\* RemoveAt throws on an index past the end, first for the packet list.
RemovePassed ==
  /\ pc = "remove"
  /\ \E k \in DOMAIN pending :
       LET i == pending[k]
       IN  /\ IsHighest(k)
           /\ \/ /\ i <= Len(chunkMap)
                 /\ RemoveBuffered(i)
                 /\ pending' = RemoveAt(pending, k)
                 /\ UNCHANGED <<pc, current, scanVars>>
              \/ /\ i > Len(chunkMap)
                 /\ buffered' = IF i <= Len(buffered) THEN RemoveAt(buffered, i) ELSE buffered
                 /\ UNCHANGED <<chunkMap, chunkVars>>
                 /\ Unwind
  /\ UNCHANGED <<streamVars, removeList, isFirstPacket, correctVars, networkVars, handed>>

RemoveEnds ==
  /\ pc = "remove" /\ pending = <<>>
  /\ removeList' = <<>>
  /\ Return
  /\ UNCHANGED <<streamVars, bufferVars, isFirstPacket, correctVars, networkVars, handed>>
-----------------------------------------------------------------------------
\* The receive loop draws a report between two datagrams.
SendReport ==
  /\ pc = "idle" /\ reports < MaxReports
  /\ reports' = reports + 1
  /\ CreateReceiverReport
  /\ UNCHANGED <<bufferVars, removeList, isFirstPacket, correctVars, scanVars, pending,
                 pc, current, arrivals, handed>>

ProcessPacket(n) ==
  \/ ProcessFirstPacket(n)
  \/ ProcessNextPacket(n)
  \/ ProcessDiscontinuity(n)
  \/ ProcessRepeatedPacket(n)
  \/ BufferPacket(n)

\* What the thread still has to do for the packet it was given.
Continue ==
  \/ PassNearestBufferedPacket \/ FlushEnds
  \/ ScanHit \/ ScanAgain \/ ScanEnds
  \/ RemovePassed \/ RemoveEnds

Next == (\E n \in Packets : ProcessPacket(n)) \/ Continue \/ SendReport

Spec == Init /\ [][Next]_vars
-----------------------------------------------------------------------------
Indices == Nat \ {0}

AssemblerTypeOK ==
  /\ isFirstPacket \in BOOLEAN
  /\ previousCorrectSeqNumber \in SeqNumbers
  /\ previousCorrectTimestamp \in 0 .. TimestampModulus - 1
  /\ buffered \in Seq(Packets)
  /\ removeList \in Seq(Indices) /\ pending \in Seq(Indices)
  /\ pc \in {"idle", "flush", "full", "scan", "remove"}
  /\ current \in Packets \cup {NoPacket}
  /\ pc = "flush" => current # NoPacket
  /\ nextSeqNumber \in SeqNumbers /\ scanFrom \in Indices /\ anythingFound \in BOOLEAN

TypeOK ==
  /\ ChunksTypeOK /\ chunkMap \in Seq(Chunks)
  /\ StreamTypeOK
  /\ AssemblerTypeOK

\* Every chunk of the pool has one owner: it is either on the free stack, once,
\* or the chunk of one buffered packet, so that no packet's payload is written
\* over while the packet waits (ChunksArray.cs:49-102 with the index lists of
\* RtpSequenceAssembler.cs:78-80,117-119,154-183).
ChunksHaveOneOwner ==
  /\ Len(sizesList) = chunksCount + Len(freeChunks)
  /\ chunksCount = Len(chunkMap)
  /\ Len(sizesList) <= MaxCorrectionLength
  /\ \A i \in 1 .. Len(chunkMap) :
       chunkMap[i] \in 1 .. Len(sizesList) /\ sizesList[chunkMap[i]] = 1
  /\ \A i \in 1 .. Len(freeChunks) : freeChunks[i] \in 1 .. Len(sizesList)
  /\ \A i, j \in 1 .. Len(chunkMap) : i # j => chunkMap[i] # chunkMap[j]
  /\ \A i, j \in 1 .. Len(freeChunks) : i # j => freeChunks[i] # freeChunks[j]
  /\ \A i \in 1 .. Len(chunkMap), j \in 1 .. Len(freeChunks) : chunkMap[i] # freeChunks[j]

\* A buffered packet finds its own payload in the pool, whatever was inserted
\* and removed around it (RtpSequenceAssembler.cs:110-111,135-136).
PayloadsIntact ==
  /\ Len(buffered) = Len(chunkMap)
  /\ \A i \in DOMAIN buffered : ChunkAt(chunkMap[i]) = buffered[i]

\* ProcessPacket never asks for a chunk when all are in use: the buffer is
\* emptied by one as soon as it is full (RtpSequenceAssembler.cs:82-88), so the
\* check of ChunksArray.cs:55-56 never fails.
InsertHasRoom == pc = "idle" => Len(buffered) < MaxCorrectionLength

\* The pool keeps what ChunksArray.cs:49-102 is there for: chunks have one
\* owner and keep their bytes, and there is one for every packet.
PoolIsSound == ChunksHaveOneOwner /\ PayloadsIntact /\ InsertHasRoom

\* The assembler only reorders: what was received is with RtpStream, or in the
\* buffer, or the packet a flush is about to pass (ProcessPacket as a whole,
\* and the removal by sorted index of RtpSequenceAssembler.cs:154-183).
NothingForgotten ==
  \A n \in Packets :
    arrivals[n] > 0 => n \in handed \cup {current} \/ \E i \in DOMAIN buffered : buffered[i] = n

\* Packets of one frame arrived so far, each once, the earliest first, and the
\* network only delayed them.
WithinAFrame ==
  LET arrived == {n \in Packets : arrivals[n] > 0}
  IN  /\ \A m, n \in arrived : Timestamp[m] = Timestamp[n] /\ arrivals[n] = 1
      /\ totals.first \in arrived
      /\ \A n \in arrived :
           totals.first <= n /\ (totals.first .. n - MaxDisplacement - 1) \subseteq arrived

\* Between two datagrams nothing is held back that the stream is ready for: a
\* buffered packet waits for an earlier one that was not received
\* (RtpSequenceAssembler.cs:50-61,85-88).
HeldOnlyBehindAGap ==
  pc = "idle" /\ WithinAFrame =>
    \A i \in DOMAIN buffered : buffered[i] - 1 \notin handed

\* The assembler restores the order: RtpStream discards no packet as too old
\* (RtpSequenceAssembler.cs:64-89 with RtpStream.cs:71-74).
SequenceIsRestored == handed \subseteq Range(parsed) \cup EmptyPackets

\* So it is within one frame, for a network that delays a packet by less than
\* the buffer holds.
RestoredWithinAFrame == WithinAFrame => SequenceIsRestored

\* What the parser is given comes in the order the sender sent it, whatever the
\* network did (RtpStream.cs:71-74 behind ProcessPacket).
ParsedInOrder ==
  \A i, j \in DOMAIN parsed : i < j => parsed[i] < parsed[j]

\* The reordering buffer: nothing is forgotten or held back for nothing, what
\* reaches the stream is in order where it can be restored, and what reaches
\* the parser always is (RtpSequenceAssembler.cs:37-186).
OrderIsRestored ==
  /\ NothingForgotten
  /\ HeldOnlyBehindAGap
  /\ RestoredWithinAFrame
  /\ ParsedInOrder

\* Payloads the parser joins without a ResetState between them were adjacent
\* in the sender's stream (RtpStream.cs:76-88).
ParserNeverJoinsAcrossAGap ==
  \A pair \in joined :
    /\ pair[1] < pair[2]
    /\ \A n \in Packets : pair[1] < n /\ n < pair[2] => n \in EmptyPackets

\* The presentation clock follows the sender's: the accumulated difference is
\* that of the first and the last packet accepted (RtpStream.cs:93-99), in
\* spite of the timestamp's wrap-around and of packets that come late.
ClockFollowsSender ==
  ~streamIsFirstPacket =>
    \E n \in handed :
      /\ SeqNumber[n] = previousSeqNumber
      /\ samplesSum = SenderClock[n] - SenderClock[totals.first]

\* The receiver report agrees with itself: packets received and packets lost
\* since the stream began make up the extended sequence number range it names,
\* wrap-arounds included (RtpStream.cs:78-91,102-106 and
\* RtcpReceiverReportsProvider.cs:75-80).
LossAccounting ==
  ~streamIsFirstPacket =>
    (ExtendedHighest - SeqNumber[totals.first] + 1 - totals.received - totals.lost)
      % (SeqModulus * CyclesModulus) = 0

\* No loss is reported twice or never: the interval counters of the reports add
\* up to the totals, and the cumulative one is the capped total
\* (RtpStream.cs:80-85,123-127, RtcpReceiverReportsProvider.cs:50-56,84).
ReportsAddUp ==
  /\ totals.received = totals.reportedReceived + packetsReceived
  /\ totals.lost = totals.reportedLost + packetsLost
  /\ cumulativePacketLost = CapLost(totals.lost)

\* What is reported of the stream agrees with itself and with what came,
\* whenever a report was drawn between two packets.
CountersAddUp == LossAccounting /\ ReportsAddUp
=============================================================================
