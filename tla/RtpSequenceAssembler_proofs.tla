--------------------- MODULE RtpSequenceAssembler_proofs ---------------------
(***************************************************************************)
(* Theorems of RtpSequenceAssembler, for every stream, every capacity of   *)
(* the buffer and every modulus of the counters.                           *)
(***************************************************************************)
EXTENDS RtpSequenceAssembler, FiniteSetTheorems, SequenceTheorems, TLAPS

-----------------------------------------------------------------------------
(* Sequences *)

\* List<T>.RemoveAt: the elements after the removed one move down by one.
LEMMA RemoveAtShifts ==
  ASSUME NEW S, NEW s \in Seq(S), NEW i \in 1 .. Len(s)
  PROVE  /\ RemoveAt(s, i) \in Seq(S)
         /\ Len(RemoveAt(s, i)) = Len(s) - 1
         /\ \A j \in 1 .. Len(s) - 1 :
              RemoveAt(s, i)[j] = IF j < i THEN s[j] ELSE s[j + 1]
<1> DEFINE before == SubSeq(s, 1, i - 1)
           after == SubSeq(s, i + 1, Len(s))
<1>1. i \in 1 .. Len(s) /\ Len(s) \in Nat
  OBVIOUS
<1>2. before \in Seq(S) /\ Len(before) = i - 1 /\ \A j \in 1 .. i - 1 : before[j] = s[j]
  BY <1>1
<1>3. /\ after \in Seq(S) /\ Len(after) = Len(s) - i
      /\ \A j \in 1 .. Len(s) - i : after[j] = s[i + j]
  BY <1>1
<1>4. RemoveAt(s, i) = before \o after
  BY DEF RemoveAt
<1> HIDE DEF before, after
<1>5. /\ before \o after \in Seq(S)
      /\ Len(before \o after) = Len(s) - 1
  <2>1. /\ before \o after \in Seq(S)
        /\ Len(before \o after) = Len(before) + Len(after)
    BY <1>2, <1>3, ConcatProperties
  <2> QED BY <2>1, <1>1, <1>2, <1>3
<1>6. ASSUME NEW j \in 1 .. Len(s) - 1
      PROVE  (before \o after)[j] = IF j < i THEN s[j] ELSE s[j + 1]
  <2>1. CASE j < i
    BY <2>1, <1>1, <1>2, <1>3
  <2>2. CASE ~(j < i)
    <3>1. /\ j \in 1 .. Len(before) + Len(after) /\ ~(j <= Len(before))
          /\ j - (i - 1) = j - Len(before)
      BY <2>2, <1>1, <1>2, <1>3
    <3>2. (before \o after)[j] = after[j - (i - 1)]
      BY <3>1, <1>2, <1>3, ConcatProperties
    <3>3. j - (i - 1) \in 1 .. Len(s) - i
      BY <2>2, <1>1
    <3>4. after[j - (i - 1)] = s[j + 1]
      BY <3>3, <1>1, <1>3
    <3> QED BY <2>2, <3>2, <3>4
  <2> QED BY <2>1, <2>2
<1> QED BY <1>4, <1>5, <1>6

\* Stack<T>.Pop, with the top last.
LEMMA PopShortens ==
  ASSUME NEW S, NEW s \in Seq(S), NEW n \in Nat, n + 1 = Len(s)
  PROVE  /\ SubSeq(s, 1, n) \in Seq(S)
         /\ Len(SubSeq(s, 1, n)) = n
         /\ \A j \in 1 .. n : SubSeq(s, 1, n)[j] = s[j]
OBVIOUS

-----------------------------------------------------------------------------
(* RtpStream *)

\* A difference of sequence numbers, cast to ushort, is a sequence number.
LEMMA SeqDeltaType ==
  ASSUME NEW a \in SeqNumbers, NEW b \in SeqNumbers
  PROVE  /\ SeqDelta(a, b) \in SeqNumbers
         /\ SeqDelta(a, b) = IF a >= b THEN a - b ELSE a - b + SeqModulus
BY StreamAssumption DEF SeqDelta, SeqNumbers

\* A packet RtpStream accepts has lost a natural number of packets before it.
LEMMA LostCountType ==
  ASSUME StreamTypeOK, NEW n \in Packets, ~IsStale(n)
  PROVE  LostCount(n) \in Nat
<1>1. SeqNumber[n] \in SeqNumbers /\ SeqModulus \in Nat
  BY StreamAssumption DEF SeqNumbers
<1>2. previousSeqNumber \in SeqNumbers /\ streamIsFirstPacket \in BOOLEAN
  BY DEF StreamTypeOK
<1>3. SeqDelta(SeqNumber[n], previousSeqNumber) \in SeqNumbers
  BY <1>1, <1>2, SeqDeltaType
<1>4. ~streamIsFirstPacket => SeqDelta(SeqNumber[n], previousSeqNumber) # 0
  BY DEF IsStale
<1> QED BY <1>1, <1>3, <1>4 DEF LostCount, SeqNumbers

LEMMA CapLostType ==
  ASSUME NEW count \in Nat
  PROVE  CapLost(count) \in 0 .. MaxCumulativeLost
BY StreamAssumption DEF CapLost

LEMMA CountPacketType ==
  ASSUME StreamTypeOK, NEW n \in Packets, ~IsStale(n), CountPacket(n)
  PROVE  /\ samplesSum' \in Nat /\ packetsReceived' \in Nat /\ packetsLost' \in Nat
         /\ cumulativePacketLost' \in 0 .. MaxCumulativeLost
         /\ sequenceCycles' \in 0 .. CyclesModulus - 1
         /\ totals' \in [first : Packets \cup {NoPacket}, received : Nat, lost : Nat,
                         reportedReceived : Nat, reportedLost : Nat]
<1>1. LostCount(n) \in Nat
  BY LostCountType
<1>2. packetsReceived' \in Nat /\ packetsLost' \in Nat
  BY <1>1 DEF CountPacket, StreamTypeOK
<1>3. cumulativePacketLost' \in 0 .. MaxCumulativeLost
  <2>1. cumulativePacketLost + LostCount(n) \in Nat
    BY <1>1, StreamAssumption DEF StreamTypeOK
  <2>2. CapLost(cumulativePacketLost + LostCount(n)) \in 0 .. MaxCumulativeLost
    BY <2>1, CapLostType
  <2> QED BY <2>2 DEF CountPacket, StreamTypeOK
<1>4. samplesSum' \in Nat
  <2>1. Timestamp[n] - previousTimestamp \in Int /\ TimestampModulus \in Nat \ {0}
    BY StreamAssumption DEF StreamTypeOK
  <2>2. TimestampDelta(n) \in Nat
    BY <2>1 DEF TimestampDelta
  <2> QED BY <2>2 DEF CountPacket, StreamTypeOK
<1>5. sequenceCycles' \in 0 .. CyclesModulus - 1
  BY StreamAssumption DEF CountPacket, NextCycles, StreamTypeOK
<1>6. SeqNumber[n] \in SeqNumbers
  BY StreamAssumption DEF SeqNumbers
<1>7. totals' \in [first : Packets \cup {NoPacket}, received : Nat, lost : Nat,
                   reportedReceived : Nat, reportedLost : Nat]
  <2>1. totals \in [first : Packets \cup {NoPacket}, received : Nat, lost : Nat,
                    reportedReceived : Nat, reportedLost : Nat]
    BY DEF StreamTypeOK
  <2>2. totals' = [totals EXCEPT
                     !.first = IF streamIsFirstPacket THEN n ELSE @,
                     !.received = @ + 1,
                     !.lost = @ + LostCount(n)]
    BY DEF CountPacket
  <2>3. totals' = [first |-> IF streamIsFirstPacket THEN n ELSE totals.first,
                   received |-> totals.received + 1,
                   lost |-> totals.lost + LostCount(n),
                   reportedReceived |-> totals.reportedReceived,
                   reportedLost |-> totals.reportedLost]
    BY <2>1, <2>2
  <2> QED BY <1>1, <1>6, <2>1, <2>3
<1> QED BY <1>2, <1>3, <1>4, <1>5, <1>7

LEMMA ProcessImmediatelyType ==
  ASSUME StreamTypeOK, NEW n \in Packets, NEW payload, ProcessImmediately(n, payload)
  PROVE  StreamTypeOK'
<1>1. CASE IsStale(n) /\ UNCHANGED streamVars
  BY <1>1 DEF streamVars, StreamTypeOK, SeqNumbers
<1>2. CASE /\ ~IsStale(n) /\ CountPacket(n)
           /\ previousSeqNumber' = SeqNumber[n] /\ previousTimestamp' = Timestamp[n]
           /\ streamIsFirstPacket' = FALSE
  <2>1. SeqNumber[n] \in SeqNumbers /\ Timestamp[n] \in 0 .. TimestampModulus - 1
    BY StreamAssumption DEF SeqNumbers
  <2>2. totals'.first \in Packets
    BY <1>2 DEF CountPacket, StreamTypeOK
  <2> QED BY <1>2, <2>1, <2>2, CountPacketType DEF StreamTypeOK, SeqNumbers
<1> QED BY <1>1, <1>2 DEF ProcessImmediately

LEMMA CreateReceiverReportType ==
  ASSUME StreamTypeOK, CreateReceiverReport
  PROVE  StreamTypeOK'
<1>1. /\ packetsReceived' \in Nat /\ packetsLost' \in Nat
      /\ totals' \in [first : Packets \cup {NoPacket}, received : Nat, lost : Nat,
                     reportedReceived : Nat, reportedLost : Nat]
  <2>1. /\ packetsReceived \in Nat /\ packetsLost \in Nat
        /\ totals \in [first : Packets \cup {NoPacket}, received : Nat, lost : Nat,
                       reportedReceived : Nat, reportedLost : Nat]
    BY DEF StreamTypeOK
  <2>2. /\ totals' = [totals EXCEPT !.reportedReceived = @ + packetsReceived,
                                    !.reportedLost = @ + packetsLost]
        /\ packetsReceived' = 0 /\ packetsLost' = 0
    BY DEF CreateReceiverReport
  <2>3. totals' = [first |-> totals.first, received |-> totals.received, lost |-> totals.lost,
                   reportedReceived |-> totals.reportedReceived + packetsReceived,
                   reportedLost |-> totals.reportedLost + packetsLost]
    BY <2>1, <2>2
  <2> QED BY <2>1, <2>2, <2>3
<1> QED BY <1>1 DEF StreamTypeOK, CreateReceiverReport, SeqNumbers

\* Capping the sum of a capped count is capping the sum.
LEMMA CapLostTwice ==
  ASSUME NEW count \in Nat, NEW more \in Nat
  PROVE  CapLost(CapLost(count) + more) = CapLost(count + more)
BY StreamAssumption DEF CapLost

LEMMA ProcessImmediatelyReports ==
  ASSUME StreamTypeOK, ReportsAddUp, NEW n \in Packets, NEW payload,
         ProcessImmediately(n, payload)
  PROVE  ReportsAddUp'
<1>1. CASE UNCHANGED streamVars
  BY <1>1 DEF streamVars, ReportsAddUp, CapLost
<1>2. CASE ~IsStale(n) /\ CountPacket(n)
  <2>1. LostCount(n) \in Nat
    BY <1>2, LostCountType
  <2>2. CapLost(cumulativePacketLost + LostCount(n)) = CapLost(totals.lost + LostCount(n))
    BY <2>1, CapLostTwice DEF ReportsAddUp, StreamTypeOK
  <2>3. /\ totals'.received = totals.received + 1
        /\ totals'.lost = totals.lost + LostCount(n)
        /\ totals'.reportedReceived = totals.reportedReceived
        /\ totals'.reportedLost = totals.reportedLost
    BY <1>2 DEF CountPacket, StreamTypeOK
  <2>4. cumulativePacketLost' = CapLost(totals'.lost)
    <3>1. CASE LostCount(n) = 0
      BY <1>2, <2>3, <3>1 DEF CountPacket, ReportsAddUp, StreamTypeOK
    <3>2. CASE LostCount(n) # 0
      BY <1>2, <2>2, <2>3, <3>2 DEF CountPacket
    <3> QED BY <3>1, <3>2
  <2>5. /\ packetsReceived' = packetsReceived + 1
        /\ packetsLost' = packetsLost + LostCount(n)
    BY <1>2 DEF CountPacket
  <2> QED BY <2>1, <2>3, <2>4, <2>5 DEF ReportsAddUp, StreamTypeOK, CapLost
<1> QED BY <1>1, <1>2 DEF ProcessImmediately

LEMMA CreateReceiverReportReports ==
  ASSUME StreamTypeOK, ReportsAddUp, CreateReceiverReport
  PROVE  ReportsAddUp'
BY DEF StreamTypeOK, CreateReceiverReport, ReportsAddUp, CapLost
-----------------------------------------------------------------------------
(* ChunksArray and the map from buffered packets to chunks *)

PoolInv == ChunksTypeOK /\ chunkMap \in Seq(Chunks) /\ ChunksHaveOneOwner

LEMMA PoolSizes ==
  ASSUME PoolInv
  PROVE  /\ MaxCorrectionLength \in Nat \ {0}
         /\ Len(sizesList) \in Nat /\ Len(freeChunks) \in Nat /\ Len(chunkMap) \in Nat
         /\ sizesList \in Seq({0, 1}) /\ freeChunks \in Seq(Chunks) /\ chunkMap \in Seq(Chunks)
         /\ chunksCount \in Nat /\ chunksCount = Len(chunkMap)
         /\ Len(sizesList) = chunksCount + Len(freeChunks)
         /\ Len(sizesList) <= MaxCorrectionLength
BY ChunksAssumption DEF PoolInv, ChunksTypeOK, ChunksHaveOneOwner

\* A chunk popped off the stack has no owner left, and is written again.
LEMMA InsertReusesChunk ==
  ASSUME PoolInv, freeChunks # <<>>, NEW p \in Payloads, Insert(p),
         chunkMap' = Append(chunkMap, ChunkToInsert)
  PROVE  PoolInv'
<1> DEFINE last == Len(freeChunks)
           c == freeChunks[last]
<1>1. last \in 1 .. Len(freeChunks) /\ last \in Nat \ {0} /\ ChunkToInsert = c
  BY PoolSizes DEF ChunkToInsert
<1>2. c \in Chunks /\ c \in 1 .. Len(sizesList)
  BY <1>1, PoolSizes DEF PoolInv, ChunksHaveOneOwner, Chunks
<1>3. /\ chunksBytes' = [chunksBytes EXCEPT ![c] = p]
      /\ chunksCount' = chunksCount + 1
      /\ sizesList' = [sizesList EXCEPT ![c] = 1]
      /\ freeChunks' = SubSeq(freeChunks, 1, last - 1)
  BY <1>1 DEF Insert
<1> HIDE DEF c
<1>4. /\ freeChunks' \in Seq(Chunks) /\ Len(freeChunks') = last - 1
      /\ \A j \in 1 .. last - 1 : freeChunks'[j] = freeChunks[j]
  <2>1. last - 1 \in Nat /\ (last - 1) + 1 = Len(freeChunks)
    BY <1>1
  <2> QED BY <2>1, <1>3, PoolSizes, PopShortens
<1>5. /\ sizesList' \in Seq({0, 1}) /\ Len(sizesList') = Len(sizesList)
      /\ \A j \in 1 .. Len(sizesList) : sizesList'[j] = IF j = c THEN 1 ELSE sizesList[j]
  BY <1>2, <1>3, PoolSizes, ExceptSeq
<1>6. /\ chunkMap' \in Seq(Chunks) /\ Len(chunkMap') = Len(chunkMap) + 1
      /\ \A j \in 1 .. Len(chunkMap) : chunkMap'[j] = chunkMap[j]
      /\ chunkMap'[Len(chunkMap) + 1] = c
  BY <1>1, <1>2, PoolSizes, AppendProperties
<1>7. \A j \in 1 .. Len(chunkMap) : chunkMap[j] # c
  BY <1>1 DEF PoolInv, ChunksHaveOneOwner, c
<1>8. \A j \in 1 .. last - 1 : freeChunks[j] # c
  BY <1>1 DEF PoolInv, ChunksHaveOneOwner, c
<1>9. \A j \in 1 .. Len(chunkMap') :
        chunkMap'[j] \in 1 .. Len(sizesList') /\ sizesList'[chunkMap'[j]] = 1
  BY <1>2, <1>5, <1>6, PoolSizes DEF PoolInv, ChunksHaveOneOwner
<1>10. \A j \in 1 .. Len(freeChunks') : freeChunks'[j] \in 1 .. Len(sizesList')
  <2>1. \A j \in 1 .. last - 1 : j \in 1 .. Len(freeChunks)
    BY <1>1
  <2>2. \A j \in 1 .. Len(freeChunks) : freeChunks[j] \in 1 .. Len(sizesList)
    BY DEF PoolInv, ChunksHaveOneOwner
  <2> QED BY <1>4, <1>5, <2>1, <2>2
<1>11. \A j, k \in 1 .. Len(chunkMap') : j # k => chunkMap'[j] # chunkMap'[k]
  BY <1>6, <1>7, PoolSizes DEF PoolInv, ChunksHaveOneOwner
<1>12. \A j, k \in 1 .. Len(freeChunks') : j # k => freeChunks'[j] # freeChunks'[k]
  BY <1>1, <1>4, SMTT(30) DEF PoolInv, ChunksHaveOneOwner
<1>13. \A j \in 1 .. Len(chunkMap'), k \in 1 .. Len(freeChunks') : chunkMap'[j] # freeChunks'[k]
  <2> SUFFICES ASSUME NEW j \in 1 .. Len(chunkMap'), NEW k \in 1 .. last - 1
               PROVE  chunkMap'[j] # freeChunks[k]
    BY <1>4
  <2>1. CASE j = Len(chunkMap) + 1
    BY <2>1, <1>6, <1>8
  <2>2. CASE j \in 1 .. Len(chunkMap)
    BY <2>2, <1>1, <1>6 DEF PoolInv, ChunksHaveOneOwner
  <2> QED BY <2>1, <2>2, <1>6, PoolSizes
<1>14. /\ Len(sizesList') = chunksCount' + Len(freeChunks')
       /\ chunksCount' = Len(chunkMap') /\ Len(sizesList') <= MaxCorrectionLength
  BY <1>1, <1>3, <1>4, <1>5, <1>6, PoolSizes
<1>15. ChunksTypeOK'
  <2>1. chunksBytes \in [Chunks -> Payloads \cup {NoPayload}]
    BY DEF PoolInv, ChunksTypeOK
  <2>2. chunksBytes' \in [Chunks -> Payloads \cup {NoPayload}]
    BY <2>1, <1>3
  <2>3. chunksCount' \in Nat
    BY <1>3, PoolSizes
  <2> QED BY <2>2, <2>3, <1>4, <1>5 DEF ChunksTypeOK, Chunks
<1>16. ChunksHaveOneOwner'
  BY <1>9, <1>10, <1>11, <1>12, <1>13, <1>14 DEF ChunksHaveOneOwner
<1> QED BY <1>6, <1>15, <1>16 DEF PoolInv, Chunks

\* With nothing on the stack, the chunks in use are the first ones.
LEMMA InsertGrows ==
  ASSUME PoolInv, ~PoolIsFull, freeChunks = <<>>, NEW p \in Payloads, Insert(p),
         chunkMap' = Append(chunkMap, ChunkToInsert)
  PROVE  PoolInv'
<1> DEFINE c == chunksCount + 1
<1>1. ChunkToInsert = c /\ Len(sizesList) = chunksCount /\ Len(freeChunks) = 0
  BY PoolSizes DEF ChunkToInsert
<1>2. c \in Chunks /\ chunksCount < MaxCorrectionLength
  BY <1>1, PoolSizes DEF Chunks, PoolIsFull
<1>3. /\ chunksBytes' = [chunksBytes EXCEPT ![c] = p]
      /\ chunksCount' = c /\ sizesList' = Append(sizesList, 1) /\ freeChunks' = <<>>
  BY <1>1 DEF Insert
<1>4. /\ sizesList' \in Seq({0, 1}) /\ Len(sizesList') = c
      /\ \A j \in 1 .. Len(sizesList) : sizesList'[j] = sizesList[j]
      /\ sizesList'[c] = 1
  BY <1>1, <1>3, PoolSizes, AppendProperties
<1>5. /\ chunkMap' \in Seq(Chunks) /\ Len(chunkMap') = Len(chunkMap) + 1
      /\ \A j \in 1 .. Len(chunkMap) : chunkMap'[j] = chunkMap[j]
      /\ chunkMap'[Len(chunkMap) + 1] = c
  BY <1>1, <1>2, PoolSizes, AppendProperties
<1>6. \A j \in 1 .. Len(chunkMap') :
        chunkMap'[j] \in 1 .. Len(sizesList') /\ sizesList'[chunkMap'[j]] = 1
  BY <1>1, <1>4, <1>5, PoolSizes DEF PoolInv, ChunksHaveOneOwner
<1>7. \A j, k \in 1 .. Len(chunkMap') : j # k => chunkMap'[j] # chunkMap'[k]
  BY <1>1, <1>5, PoolSizes DEF PoolInv, ChunksHaveOneOwner
<1>8. ChunksTypeOK'
  BY <1>2, <1>3, <1>4, PoolSizes DEF PoolInv, ChunksTypeOK, Chunks
<1>9. ChunksHaveOneOwner'
  <2>1. Len(freeChunks') = 0
    BY <1>3
  <2> QED BY <1>2, <1>3, <1>4, <1>5, <1>6, <1>7, <2>1, PoolSizes DEF ChunksHaveOneOwner
<1> QED BY <1>5, <1>8, <1>9 DEF PoolInv, Chunks

LEMMA RemoveKeepsPool ==
  ASSUME PoolInv, NEW i \in 1 .. Len(chunkMap), RemoveChunk(chunkMap[i]),
         chunkMap' = RemoveAt(chunkMap, i)
  PROVE  PoolInv'
<1> DEFINE c == chunkMap[i]
           Old(j) == IF j < i THEN j ELSE j + 1
<1>1. /\ chunkMap' \in Seq(Chunks) /\ Len(chunkMap') = Len(chunkMap) - 1
      /\ Len(chunkMap) \in Nat \ {0}
      /\ \A j \in 1 .. Len(chunkMap) - 1 : chunkMap'[j] = chunkMap[Old(j)]
  <2>1. Len(chunkMap) \in Nat \ {0}
    BY PoolSizes
  <2> QED BY <2>1, PoolSizes, RemoveAtShifts
<1>2. \A j \in 1 .. Len(chunkMap) - 1 : Old(j) \in 1 .. Len(chunkMap) /\ Old(j) # i
  BY PoolSizes
<1>3. \A j, k \in 1 .. Len(chunkMap) - 1 : j # k => Old(j) # Old(k)
  BY PoolSizes
<1>4. c \in Chunks /\ c \in 1 .. Len(sizesList)
  <2>1. c \in Chunks
    <3>1. chunkMap \in Seq(Chunks)
      BY PoolSizes
    <3> QED BY <3>1, ElementOfSeq
  <2> QED BY <2>1 DEF PoolInv, ChunksHaveOneOwner
<1>5. /\ chunksCount' = chunksCount - 1
      /\ freeChunks' = Append(freeChunks, c)
      /\ sizesList' = [sizesList EXCEPT ![c] = 0]
      /\ chunksBytes' = chunksBytes
  BY DEF RemoveChunk
<1>6. /\ \A j \in 1 .. Len(chunkMap) : j # i => chunkMap[j] # c
      /\ \A j \in 1 .. Len(freeChunks) : freeChunks[j] # c
  BY DEF PoolInv, ChunksHaveOneOwner
<1> HIDE DEF c, Old
<1>7. /\ sizesList' \in Seq({0, 1}) /\ Len(sizesList') = Len(sizesList)
      /\ \A j \in 1 .. Len(sizesList) : sizesList'[j] = IF j = c THEN 0 ELSE sizesList[j]
  BY <1>4, <1>5, PoolSizes, ExceptSeq
<1>8. /\ freeChunks' \in Seq(Chunks) /\ Len(freeChunks') = Len(freeChunks) + 1
      /\ \A j \in 1 .. Len(freeChunks) : freeChunks'[j] = freeChunks[j]
      /\ freeChunks'[Len(freeChunks) + 1] = c
  BY <1>4, <1>5, PoolSizes, AppendProperties
<1>9. \A j \in 1 .. Len(chunkMap') :
        /\ chunkMap'[j] \in 1 .. Len(sizesList') /\ sizesList'[chunkMap'[j]] = 1
        /\ chunkMap'[j] # c
  BY <1>1, <1>2, <1>6, <1>7 DEF PoolInv, ChunksHaveOneOwner
<1>10. \A j \in 1 .. Len(freeChunks') : freeChunks'[j] \in 1 .. Len(sizesList')
  <2> SUFFICES ASSUME NEW j \in 1 .. Len(freeChunks')
               PROVE  freeChunks'[j] \in 1 .. Len(sizesList)
    BY <1>7
  <2>1. CASE j = Len(freeChunks) + 1
    BY <2>1, <1>4, <1>8
  <2>2. CASE j \in 1 .. Len(freeChunks)
    BY <2>2, <1>8 DEF PoolInv, ChunksHaveOneOwner
  <2> QED BY <2>1, <2>2, <1>8, PoolSizes
<1>11. \A j, k \in 1 .. Len(chunkMap') : j # k => chunkMap'[j] # chunkMap'[k]
  BY <1>1, <1>2, <1>3 DEF PoolInv, ChunksHaveOneOwner
<1>12. \A j, k \in 1 .. Len(freeChunks') : j # k => freeChunks'[j] # freeChunks'[k]
  <2> SUFFICES ASSUME NEW j \in 1 .. Len(freeChunks'), NEW k \in 1 .. Len(freeChunks'), j # k
               PROVE  freeChunks'[j] # freeChunks'[k]
    OBVIOUS
  <2>1. CASE j \in 1 .. Len(freeChunks) /\ k \in 1 .. Len(freeChunks)
    BY <2>1, <1>8 DEF PoolInv, ChunksHaveOneOwner
  <2>2. CASE j = Len(freeChunks) + 1 /\ k \in 1 .. Len(freeChunks)
    BY <2>2, <1>6, <1>8
  <2>3. CASE j \in 1 .. Len(freeChunks) /\ k = Len(freeChunks) + 1
    BY <2>3, <1>6, <1>8
  <2> QED BY <2>1, <2>2, <2>3, <1>8, PoolSizes
<1>13. \A j \in 1 .. Len(chunkMap'), k \in 1 .. Len(freeChunks') : chunkMap'[j] # freeChunks'[k]
  <2>1. \A j \in 1 .. Len(chunkMap'), k \in 1 .. Len(freeChunks) : chunkMap'[j] # freeChunks[k]
    BY <1>1, <1>2 DEF PoolInv, ChunksHaveOneOwner
  <2> SUFFICES ASSUME NEW j \in 1 .. Len(chunkMap'), NEW k \in 1 .. Len(freeChunks')
               PROVE  chunkMap'[j] # freeChunks'[k]
    OBVIOUS
  <2>2. CASE k = Len(freeChunks) + 1
    BY <2>2, <1>8, <1>9
  <2>3. CASE k \in 1 .. Len(freeChunks)
    BY <2>3, <1>8, <2>1
  <2> QED BY <2>2, <2>3, <1>8, PoolSizes
<1>14. /\ Len(sizesList') = chunksCount' + Len(freeChunks')
       /\ chunksCount' = Len(chunkMap') /\ Len(sizesList') <= MaxCorrectionLength
       /\ chunksCount' \in Nat
  BY <1>1, <1>5, <1>7, <1>8, PoolSizes
<1>15. ChunksTypeOK'
  BY <1>5, <1>7, <1>8, <1>14 DEF PoolInv, ChunksTypeOK, Chunks
<1>16. ChunksHaveOneOwner'
  BY <1>9, <1>10, <1>11, <1>12, <1>13, <1>14 DEF ChunksHaveOneOwner
<1> QED BY <1>1, <1>15, <1>16 DEF PoolInv, Chunks

LEMMA ClearKeepsPool ==
  ASSUME PoolInv, ClearChunks, chunkMap' = <<>>
  PROVE  PoolInv'
<1>1. ChunksTypeOK' /\ chunkMap' \in Seq(Chunks')
  BY DEF PoolInv, ClearChunks, ChunksTypeOK, Chunks
<1>2. ChunksHaveOneOwner'
  <2>1. Len(sizesList') = 0 /\ Len(freeChunks') = 0 /\ Len(chunkMap') = 0 /\ chunksCount' = 0
    BY DEF ClearChunks
  <2> QED BY <2>1, ChunksAssumption DEF ChunksHaveOneOwner
<1> QED BY <1>1, <1>2 DEF PoolInv

LEMMA UnchangedKeepsPool ==
  ASSUME PoolInv, UNCHANGED <<chunkMap, chunkVars>>
  PROVE  PoolInv'
BY DEF PoolInv, chunkVars, ChunksTypeOK, ChunksHaveOneOwner, Chunks
-----------------------------------------------------------------------------
(* The steps of the assembler *)

\* Every step leaves RtpStream alone, has it process a packet or draws a report.
LEMMA StepOfStream ==
  ASSUME TypeOK, Next
  PROVE  \/ UNCHANGED streamVars
         \/ CreateReceiverReport
         \/ \E n \in Packets : \E payload : ProcessImmediately(n, payload)
<1>1. ASSUME NEW n \in Packets, ProcessPacket(n)
      PROVE  UNCHANGED streamVars \/ ProcessImmediately(n, n)
  BY <1>1 DEF ProcessPacket, ProcessFirstPacket, ProcessNextPacket, ProcessDiscontinuity,
              ProcessRepeatedPacket, BufferPacket, PassPacket
<1>2. ASSUME PassNearestBufferedPacket \/ ScanHit
      PROVE  \/ UNCHANGED streamVars
             \/ \E i \in DOMAIN buffered : \E payload : ProcessImmediately(buffered[i], payload)
  BY <1>2 DEF PassNearestBufferedPacket, ScanHit, PassPacket
<1>3. ASSUME FlushEnds
      PROVE  current \in Packets /\ ProcessImmediately(current, current)
  BY <1>3 DEF FlushEnds, PassPacket, TypeOK, AssemblerTypeOK
<1>4. ASSUME ScanAgain \/ ScanEnds \/ RemovePassed \/ RemoveEnds
      PROVE  UNCHANGED streamVars
  BY <1>4 DEF ScanAgain, ScanEnds, RemovePassed, RemoveEnds
<1>5. \A i \in DOMAIN buffered : buffered[i] \in Packets
  BY DEF TypeOK, AssemblerTypeOK
<1> QED BY <1>1, <1>2, <1>3, <1>4, <1>5 DEF Next, Continue, SendReport

\* Every step leaves the pool alone, inserts one payload with room for it,
\* removes one, or clears it.
LEMMA StepOfPool ==
  ASSUME TypeOK, ChunksHaveOneOwner, Next
  PROVE  \/ UNCHANGED <<chunkMap, chunkVars>>
         \/ /\ ~PoolIsFull /\ chunkMap' = Append(chunkMap, ChunkToInsert)
            /\ \E n \in Packets : Insert(n)
         \/ \E i \in 1 .. Len(chunkMap) :
              RemoveChunk(chunkMap[i]) /\ chunkMap' = RemoveAt(chunkMap, i)
         \/ ClearChunks /\ chunkMap' = <<>>
<1>1. ASSUME NEW n \in Packets, ProcessPacket(n)
      PROVE  \/ UNCHANGED <<chunkMap, chunkVars>>
             \/ ~PoolIsFull /\ chunkMap' = Append(chunkMap, ChunkToInsert) /\ Insert(n)
  BY <1>1 DEF ProcessPacket, ProcessFirstPacket, ProcessNextPacket, ProcessDiscontinuity,
              ProcessRepeatedPacket, BufferPacket, bufferVars
<1>2. ASSUME NEW i \in Nat \ {0}, i <= Len(chunkMap)
      PROVE  i \in 1 .. Len(chunkMap)
  BY <1>2 DEF TypeOK
<1>3. \A i \in DOMAIN buffered : i \in Nat \ {0}
  BY DEF TypeOK, AssemblerTypeOK, Indices
<1>4. \A k \in DOMAIN pending : pending[k] \in Nat \ {0}
  BY DEF TypeOK, AssemblerTypeOK, Indices
<1>5. ASSUME PassNearestBufferedPacket
      PROVE  \/ UNCHANGED <<chunkMap, chunkVars>>
             \/ \E i \in 1 .. Len(chunkMap) :
                  RemoveChunk(chunkMap[i]) /\ chunkMap' = RemoveAt(chunkMap, i)
  BY <1>2, <1>3, <1>5 DEF PassNearestBufferedPacket, RemoveBuffered, bufferVars
<1>6. ASSUME RemovePassed
      PROVE  \/ UNCHANGED <<chunkMap, chunkVars>>
             \/ \E i \in 1 .. Len(chunkMap) :
                  RemoveChunk(chunkMap[i]) /\ chunkMap' = RemoveAt(chunkMap, i)
  BY <1>2, <1>4, <1>6 DEF RemovePassed, RemoveBuffered
<1>7. ASSUME ScanEnds
      PROVE  UNCHANGED <<chunkMap, chunkVars>> \/ (ClearChunks /\ chunkMap' = <<>>)
  BY <1>7 DEF ScanEnds, bufferVars
<1>8. ASSUME FlushEnds \/ ScanHit \/ ScanAgain \/ RemoveEnds \/ SendReport
      PROVE  UNCHANGED <<chunkMap, chunkVars>>
  BY <1>8 DEF FlushEnds, ScanHit, ScanAgain, RemoveEnds, SendReport, bufferVars
<1> QED BY <1>1, <1>5, <1>6, <1>7, <1>8 DEF Next, Continue

LEMMA StepKeepsPool ==
  ASSUME TypeOK, ChunksHaveOneOwner, Next
  PROVE  PoolInv'
<1>1. PoolInv
  BY DEF TypeOK, PoolInv
<1>2. CASE UNCHANGED <<chunkMap, chunkVars>>
  BY <1>1, <1>2, UnchangedKeepsPool
<1>3. CASE /\ ~PoolIsFull /\ chunkMap' = Append(chunkMap, ChunkToInsert)
           /\ \E n \in Packets : Insert(n)
  BY <1>1, <1>3, InsertReusesChunk, InsertGrows, AssemblerAssumption
<1>4. CASE \E i \in 1 .. Len(chunkMap) :
             RemoveChunk(chunkMap[i]) /\ chunkMap' = RemoveAt(chunkMap, i)
  BY <1>1, <1>4, RemoveKeepsPool
<1>5. CASE ClearChunks /\ chunkMap' = <<>>
  BY <1>1, <1>5, ClearKeepsPool
<1> QED BY <1>2, <1>3, <1>4, <1>5, StepOfPool

LEMMA StepKeepsStreamType ==
  ASSUME TypeOK, Next
  PROVE  StreamTypeOK'
<1>1. StreamTypeOK
  BY DEF TypeOK
<1>2. CASE UNCHANGED streamVars
  BY <1>1, <1>2 DEF streamVars, StreamTypeOK, SeqNumbers
<1>3. CASE CreateReceiverReport
  BY <1>1, <1>3, CreateReceiverReportType
<1>4. CASE \E n \in Packets : \E payload : ProcessImmediately(n, payload)
  BY <1>1, <1>4, ProcessImmediatelyType
<1> QED BY <1>2, <1>3, <1>4, StepOfStream
LEMMA IndexFacts ==
  /\ <<>> \in Seq(Indices) /\ 1 \in Indices
  /\ \A i \in Nat : i + 1 \in Indices
  /\ \A i : i \in Indices => i \in Nat /\ i > 0
  /\ \A i \in Nat : i # 0 => i \in Indices
BY DEF Indices

LEMMA UnwindType ==
  ASSUME Unwind
  PROVE  /\ pc' = "idle" /\ current' = NoPacket /\ pending' \in Seq(Indices)
         /\ nextSeqNumber' \in SeqNumbers /\ scanFrom' \in Indices /\ anythingFound' \in BOOLEAN
<1>1. <<>> \in Seq(Indices) /\ 1 \in Indices /\ 0 \in SeqNumbers
  BY StreamAssumption DEF Indices, SeqNumbers
<1> QED BY <1>1 DEF Unwind

LEMMA BeginScanType ==
  ASSUME AssemblerTypeOK, NEW seq \in SeqNumbers, BeginProcessBufferedPackets(seq)
  PROVE  /\ pc' = "scan" /\ current' = current /\ pending' = pending
         /\ nextSeqNumber' \in SeqNumbers /\ scanFrom' \in Indices /\ anythingFound' \in BOOLEAN
<1>1. seq + 1 \in Int /\ SeqModulus \in Nat \ {0}
  BY StreamAssumption DEF SeqNumbers
<1>2. (seq + 1) % SeqModulus \in 0 .. SeqModulus - 1
  BY <1>1
<1>3. (seq + 1) % SeqModulus \in SeqNumbers /\ 1 \in Indices
  BY <1>2 DEF SeqNumbers, Indices
<1> QED BY <1>3 DEF BeginProcessBufferedPackets

LEMMA PassPacketType ==
  ASSUME NEW n \in Packets, NEW payload, PassPacket(n, payload)
  PROVE  /\ previousCorrectSeqNumber' \in SeqNumbers
         /\ previousCorrectTimestamp' \in 0 .. TimestampModulus - 1
BY StreamAssumption DEF PassPacket, SeqNumbers

LEMMA HeaderType ==
  ASSUME NEW n \in Packets
  PROVE  SeqNumber[n] \in SeqNumbers
BY StreamAssumption DEF SeqNumbers

LEMMA ProcessPacketKeepsType ==
  ASSUME AssemblerTypeOK, NEW n \in Packets, ProcessPacket(n)
  PROVE  AssemblerTypeOK'
<1>1. CASE ProcessFirstPacket(n)
  BY <1>1, UnwindType, PassPacketType
  DEF ProcessFirstPacket, Return, bufferVars, AssemblerTypeOK, SeqNumbers
<1>2. CASE ProcessNextPacket(n)
  BY <1>2, UnwindType, BeginScanType, PassPacketType, HeaderType
  DEF ProcessNextPacket, Return, bufferVars, AssemblerTypeOK, SeqNumbers, Deliver
<1>3. CASE ProcessDiscontinuity(n)
  <2>1. n # NoPacket
    BY StreamAssumption DEF NoPacket
  <2> QED BY <1>3, <2>1
          DEF ProcessDiscontinuity, bufferVars, correctVars, scanVars, AssemblerTypeOK, SeqNumbers
<1>4. CASE ProcessRepeatedPacket(n)
  BY <1>4 DEF ProcessRepeatedPacket, bufferVars, correctVars, scanVars, AssemblerTypeOK, SeqNumbers
<1>5. CASE BufferPacket(n)
  <2>1. buffered' \in Seq(Packets) /\ pc' \in {"idle", "full"}
    BY <1>5 DEF BufferPacket, Deliver, AssemblerTypeOK
  <2> QED BY <1>5, <2>1 DEF BufferPacket, correctVars, scanVars, AssemblerTypeOK, SeqNumbers
<1> QED BY <1>1, <1>2, <1>3, <1>4, <1>5 DEF ProcessPacket

LEMMA PassNearestKeepsType ==
  ASSUME AssemblerTypeOK, PassNearestBufferedPacket
  PROVE  AssemblerTypeOK'
<1>1. PICK i \in DOMAIN buffered :
        \/ /\ i <= Len(chunkMap)
           /\ PassPacket(buffered[i], ChunkAt(chunkMap[i]))
           /\ \/ /\ RemoveBuffered(i)
                 /\ \/ pc = "flush" /\ UNCHANGED <<pc, current, scanVars, pending>>
                    \/ pc = "full" /\ BeginProcessBufferedPackets(SeqNumber[buffered[i]])
              \/ Unwind /\ UNCHANGED bufferVars
        \/ Unwind /\ UNCHANGED <<bufferVars, streamVars, correctVars, handed>>
  BY DEF PassNearestBufferedPacket
<1>2. UNCHANGED <<removeList, isFirstPacket>>
  BY DEF PassNearestBufferedPacket
<1>3. buffered[i] \in Packets /\ i \in 1 .. Len(buffered) /\ SeqNumber[buffered[i]] \in SeqNumbers
  BY HeaderType DEF AssemblerTypeOK
<1>4. RemoveBuffered(i) => buffered' \in Seq(Packets)
  BY <1>3, RemoveAtShifts DEF RemoveBuffered, AssemblerTypeOK
<1>5. CASE /\ PassPacket(buffered[i], ChunkAt(chunkMap[i])) /\ RemoveBuffered(i)
           /\ \/ pc = "flush" /\ UNCHANGED <<pc, current, scanVars, pending>>
              \/ pc = "full" /\ BeginProcessBufferedPackets(SeqNumber[buffered[i]])
  BY <1>2, <1>3, <1>4, <1>5, PassPacketType, BeginScanType
  DEF AssemblerTypeOK, scanVars, SeqNumbers
<1>6. CASE PassPacket(buffered[i], ChunkAt(chunkMap[i])) /\ Unwind /\ UNCHANGED bufferVars
  BY <1>2, <1>3, <1>6, PassPacketType, UnwindType DEF AssemblerTypeOK, bufferVars, SeqNumbers
<1>7. CASE Unwind /\ UNCHANGED <<bufferVars, correctVars>>
  BY <1>2, <1>7, UnwindType DEF AssemblerTypeOK, bufferVars, correctVars, SeqNumbers
<1> QED BY <1>1, <1>5, <1>6, <1>7

\* Every chunk in use has a packet in the list of buffered ones.
ChunksHavePackets == Len(chunkMap) <= Len(buffered)

LEMMA ScanHitKeepsType ==
  ASSUME AssemblerTypeOK, ScanHit
  PROVE  AssemblerTypeOK'
<1>1. PICK i \in DOMAIN buffered :
        \/ /\ PassPacket(buffered[i], ChunkAt(chunkMap[i]))
           /\ \/ /\ nextSeqNumber' = (nextSeqNumber + 1) % SeqModulus
                 /\ anythingFound' = TRUE
                 /\ removeList' = Append(removeList, i)
                 /\ scanFrom' = i + 1
                 /\ UNCHANGED <<pc, current, pending>>
              \/ Unwind /\ UNCHANGED removeList
        \/ Unwind /\ UNCHANGED <<streamVars, correctVars, handed, removeList>>
  BY DEF ScanHit
<1>2. UNCHANGED <<bufferVars, isFirstPacket>>
  BY DEF ScanHit
<1>3. buffered[i] \in Packets /\ i \in Nat \ {0}
  BY DEF AssemblerTypeOK
<1>4. (nextSeqNumber + 1) % SeqModulus \in SeqNumbers
  <2>1. nextSeqNumber + 1 \in Int /\ SeqModulus \in Nat \ {0}
    BY StreamAssumption DEF AssemblerTypeOK, SeqNumbers
  <2> QED BY <2>1 DEF SeqNumbers
<1>5. CASE /\ PassPacket(buffered[i], ChunkAt(chunkMap[i]))
           /\ nextSeqNumber' = (nextSeqNumber + 1) % SeqModulus
           /\ anythingFound' = TRUE
           /\ removeList' = Append(removeList, i)
           /\ scanFrom' = i + 1
           /\ UNCHANGED <<pc, current, pending>>
  <2>1. removeList' \in Seq(Indices) /\ scanFrom' \in Indices /\ nextSeqNumber' \in SeqNumbers
    BY <1>3, <1>4, <1>5, IndexFacts DEF AssemblerTypeOK
  <2> QED BY <1>2, <1>3, <1>5, <2>1, PassPacketType DEF AssemblerTypeOK, bufferVars, SeqNumbers
<1>6. CASE PassPacket(buffered[i], ChunkAt(chunkMap[i])) /\ Unwind /\ UNCHANGED removeList
  BY <1>2, <1>3, <1>6, PassPacketType, UnwindType DEF AssemblerTypeOK, bufferVars, SeqNumbers
<1>7. CASE Unwind /\ UNCHANGED <<correctVars, removeList>>
  BY <1>2, <1>7, UnwindType DEF AssemblerTypeOK, bufferVars, correctVars, SeqNumbers
<1> QED BY <1>1, <1>5, <1>6, <1>7

LEMMA RemovePassedKeepsType ==
  ASSUME AssemblerTypeOK, chunkMap \in Seq(Chunks), ChunksHavePackets, RemovePassed
  PROVE  AssemblerTypeOK'
<1>1. PICK k \in DOMAIN pending :
        \/ /\ RemoveBuffered(pending[k])
           /\ pending[k] <= Len(chunkMap)
           /\ pending' = RemoveAt(pending, k)
           /\ UNCHANGED <<pc, current, scanVars>>
        \/ /\ buffered' = IF pending[k] <= Len(buffered) THEN RemoveAt(buffered, pending[k])
                          ELSE buffered
           /\ Unwind
  BY DEF RemovePassed
<1>2. UNCHANGED <<removeList, isFirstPacket, correctVars>> /\ pc = "remove"
  BY DEF RemovePassed
<1>3. /\ pending[k] \in Nat \ {0} /\ k \in 1 .. Len(pending)
      /\ Len(buffered) \in Nat /\ buffered \in Seq(Packets) /\ pending \in Seq(Indices)
  BY IndexFacts DEF AssemblerTypeOK
<1>4. pending[k] <= Len(buffered) => RemoveAt(buffered, pending[k]) \in Seq(Packets)
  BY <1>3, RemoveAtShifts
<1>5. RemoveAt(pending, k) \in Seq(Indices)
  BY <1>3, RemoveAtShifts
<1>6. CASE /\ RemoveBuffered(pending[k]) /\ pending[k] <= Len(chunkMap)
           /\ pending' = RemoveAt(pending, k)
           /\ UNCHANGED <<pc, current, scanVars>>
  <2>1. buffered' = RemoveAt(buffered, pending[k])
    BY <1>6 DEF RemoveBuffered
  <2>2. pending[k] <= Len(buffered)
    BY <1>3, <1>6 DEF ChunksHavePackets
  <2> QED BY <1>2, <1>4, <1>5, <1>6, <2>1, <2>2 DEF AssemblerTypeOK, correctVars, scanVars, SeqNumbers
<1>7. CASE /\ buffered' = IF pending[k] <= Len(buffered) THEN RemoveAt(buffered, pending[k])
                          ELSE buffered
           /\ Unwind
  BY <1>2, <1>3, <1>4, <1>7, UnwindType DEF AssemblerTypeOK, correctVars, SeqNumbers
<1> QED BY <1>1, <1>6, <1>7

LEMMA StepKeepsAssemblerType ==
  ASSUME AssemblerTypeOK, chunkMap \in Seq(Chunks), ChunksHavePackets, Next
  PROVE  AssemblerTypeOK'
<1>1. CASE \E n \in Packets : ProcessPacket(n)
  BY <1>1, ProcessPacketKeepsType
<1>2. CASE FlushEnds
  <2>1. current \in Packets
    BY <1>2 DEF FlushEnds, AssemblerTypeOK
  <2> QED BY <1>2, <2>1, PassPacketType, UnwindType
          DEF FlushEnds, Return, bufferVars, AssemblerTypeOK, SeqNumbers
<1>3. CASE ScanAgain
  BY <1>3, IndexFacts DEF ScanAgain, bufferVars, correctVars, AssemblerTypeOK, SeqNumbers
<1>4. CASE ScanEnds
  <2>1. buffered' \in Seq(Packets) /\ removeList' \in Seq(Indices)
    BY <1>4, IndexFacts, EmptySeq DEF ScanEnds, bufferVars, AssemblerTypeOK
  <2>2. \/ Unwind
        \/ pc' = "remove" /\ pending' = removeList /\ UNCHANGED <<current, scanVars>>
    BY <1>4 DEF ScanEnds, Return
  <2> QED BY <1>4, <2>1, <2>2, UnwindType
          DEF ScanEnds, correctVars, scanVars, AssemblerTypeOK, SeqNumbers
<1>5. CASE RemoveEnds
  BY <1>5, UnwindType DEF RemoveEnds, Return, bufferVars, correctVars, AssemblerTypeOK, SeqNumbers
<1>6. CASE SendReport
  BY <1>6 DEF SendReport, bufferVars, correctVars, scanVars, AssemblerTypeOK, SeqNumbers
<1> QED
  BY <1>1, <1>2, <1>3, <1>4, <1>5, <1>6, PassNearestKeepsType, ScanHitKeepsType,
     RemovePassedKeepsType DEF Next, Continue

LEMMA RemoveBufferedLengths ==
  ASSUME TypeOK, NEW i \in Indices, i <= Len(chunkMap), i <= Len(buffered), RemoveBuffered(i)
  PROVE  Len(chunkMap') = Len(chunkMap) - 1 /\ Len(buffered') = Len(buffered) - 1
<1>1. i \in 1 .. Len(chunkMap) /\ i \in 1 .. Len(buffered)
  BY IndexFacts DEF TypeOK, AssemblerTypeOK
<1> QED BY <1>1, RemoveAtShifts DEF RemoveBuffered, TypeOK, AssemblerTypeOK

LEMMA StepKeepsChunksHavePackets ==
  ASSUME TypeOK, ChunksHavePackets, Next
  PROVE  ChunksHavePackets'
<1>1. Len(chunkMap) \in Nat /\ Len(buffered) \in Nat /\ Len(chunkMap) <= Len(buffered)
  BY DEF TypeOK, AssemblerTypeOK, ChunksHavePackets
<1>2. CASE UNCHANGED <<buffered, chunkMap>>
  BY <1>2 DEF ChunksHavePackets
<1>3. ASSUME NEW n \in Packets, BufferPacket(n)
      PROVE  ChunksHavePackets'
  <2>1. Len(buffered') = Len(buffered) + 1
    BY <1>3 DEF BufferPacket, TypeOK, AssemblerTypeOK
  <2>2. chunkMap' = Append(chunkMap, ChunkToInsert) \/ chunkMap' = chunkMap
    BY <1>3 DEF BufferPacket
  <2>3. Len(chunkMap') <= Len(chunkMap) + 1
    BY <1>1, <2>2 DEF TypeOK
  <2>4. Len(chunkMap') \in Nat
    BY <1>1, <2>2 DEF TypeOK
  <2> QED BY <1>1, <2>1, <2>3, <2>4 DEF ChunksHavePackets
<1>4. ASSUME NEW n \in Packets, ProcessPacket(n), ~BufferPacket(n)
      PROVE  UNCHANGED <<buffered, chunkMap>>
  BY <1>4 DEF ProcessPacket, ProcessFirstPacket, ProcessNextPacket, ProcessDiscontinuity,
              ProcessRepeatedPacket, bufferVars
<1>5. ASSUME NEW i \in Indices, i <= Len(chunkMap), RemoveBuffered(i)
      PROVE  ChunksHavePackets'
  <2>1. i <= Len(buffered)
    BY <1>1, <1>5, IndexFacts
  <2> QED BY <1>1, <1>5, <2>1, RemoveBufferedLengths DEF ChunksHavePackets
<1>6. CASE PassNearestBufferedPacket
  <2>1. \A i \in DOMAIN buffered : i \in Indices
    BY IndexFacts DEF TypeOK, AssemblerTypeOK
  <2>2. \/ UNCHANGED <<buffered, chunkMap>>
        \/ \E i \in DOMAIN buffered : i <= Len(chunkMap) /\ RemoveBuffered(i)
    BY <1>6 DEF PassNearestBufferedPacket, bufferVars
  <2> QED BY <1>2, <1>5, <2>1, <2>2
<1>7. CASE RemovePassed
  <2>1. PICK k \in DOMAIN pending :
          \/ pending[k] <= Len(chunkMap) /\ RemoveBuffered(pending[k])
          \/ /\ pending[k] > Len(chunkMap) /\ chunkMap' = chunkMap
             /\ buffered' = IF pending[k] <= Len(buffered)
                            THEN RemoveAt(buffered, pending[k]) ELSE buffered
    BY <1>7 DEF RemovePassed
  <2>2. pending[k] \in Indices
    BY DEF TypeOK, AssemblerTypeOK
  <2>3. CASE pending[k] <= Len(chunkMap) /\ RemoveBuffered(pending[k])
    BY <1>5, <2>2, <2>3
  <2>4. CASE /\ pending[k] > Len(chunkMap) /\ pending[k] <= Len(buffered)
             /\ chunkMap' = chunkMap /\ buffered' = RemoveAt(buffered, pending[k])
    <3>1. pending[k] \in 1 .. Len(buffered)
      BY <1>1, <2>2, <2>4, IndexFacts
    <3>2. Len(buffered') = Len(buffered) - 1
      BY <2>4, <3>1, RemoveAtShifts DEF TypeOK, AssemblerTypeOK
    <3> QED BY <1>1, <2>2, <2>4, <3>2, IndexFacts DEF ChunksHavePackets
  <2> QED BY <1>2, <2>1, <2>3, <2>4
<1>8. CASE ScanEnds
  <2>1. UNCHANGED <<buffered, chunkMap>> \/ (buffered' = <<>> /\ chunkMap' = <<>>)
    BY <1>8 DEF ScanEnds, bufferVars
  <2> QED BY <1>2, <2>1 DEF ChunksHavePackets
<1>9. FlushEnds \/ ScanHit \/ ScanAgain \/ RemoveEnds \/ SendReport
        => UNCHANGED <<buffered, chunkMap>>
  BY DEF FlushEnds, ScanHit, ScanAgain, RemoveEnds, SendReport, bufferVars
<1> QED BY <1>2, <1>3, <1>4, <1>6, <1>7, <1>8, <1>9 DEF Next, Continue

-----------------------------------------------------------------------------
(* Theorems *)

IInv == TypeOK /\ ChunksHaveOneOwner /\ ChunksHavePackets

LEMMA InitIInv == Init => IInv
<1> SUFFICES ASSUME Init PROVE IInv
  OBVIOUS
<1>1. ChunksTypeOK /\ chunkMap \in Seq(Chunks) /\ ChunksHaveOneOwner
  <2>1. /\ sizesList = <<>> /\ freeChunks = <<>> /\ chunkMap = <<>> /\ chunksCount = 0
        /\ chunksBytes = [c \in Chunks |-> NoPayload]
    BY DEF Init, ChunksInit
  <2>2. ChunksTypeOK /\ chunkMap \in Seq(Chunks)
    BY <2>1, EmptySeq DEF ChunksTypeOK
  <2>3. Len(sizesList) = 0 /\ Len(freeChunks) = 0 /\ Len(chunkMap) = 0
    BY <2>1
  <2>4. ChunksHaveOneOwner
    BY <2>1, <2>3, ChunksAssumption DEF ChunksHaveOneOwner
  <2> QED BY <2>2, <2>4
<1>2. StreamTypeOK
  BY StreamAssumption DEF Init, StreamInit, StreamTypeOK, SeqNumbers
<1>3. AssemblerTypeOK
  <2>1. 0 \in SeqNumbers /\ 0 \in 0 .. TimestampModulus - 1
    BY StreamAssumption DEF SeqNumbers
  <2>2. <<>> \in Seq(Packets) /\ <<>> \in Seq(Indices) /\ 1 \in Indices
    BY EmptySeq, IndexFacts
  <2> QED BY <2>1, <2>2 DEF Init, AssemblerTypeOK
<1>4. ChunksHavePackets
  BY DEF Init, ChunksHavePackets
<1> QED BY <1>1, <1>2, <1>3, <1>4 DEF IInv, TypeOK

LEMMA StepIInv == IInv /\ [Next]_vars => IInv'
<1> SUFFICES ASSUME IInv, [Next]_vars PROVE IInv'
  OBVIOUS
<1>1. CASE Next
  <2>1. PoolInv' /\ StreamTypeOK' /\ AssemblerTypeOK' /\ ChunksHavePackets'
    BY <1>1, StepKeepsPool, StepKeepsStreamType, StepKeepsAssemblerType,
       StepKeepsChunksHavePackets DEF IInv, TypeOK
  <2> QED BY <2>1 DEF IInv, TypeOK, PoolInv
<1>2. CASE UNCHANGED vars
  <2>1. PoolInv'
    BY <1>2, UnchangedKeepsPool DEF IInv, TypeOK, PoolInv, vars
  <2>2. StreamTypeOK'
    BY <1>2 DEF IInv, TypeOK, vars, streamVars, StreamTypeOK, SeqNumbers
  <2>3. AssemblerTypeOK' /\ ChunksHavePackets'
    BY <1>2 DEF IInv, TypeOK, vars, AssemblerTypeOK, correctVars, scanVars, ChunksHavePackets,
                SeqNumbers
  <2> QED BY <2>1, <2>2, <2>3 DEF IInv, TypeOK, PoolInv
<1> QED BY <1>1, <1>2

\* Every variable of the assembler, of its pool and of the stream keeps its
\* type, whatever the network delivers and wherever a parser throws.
THEOREM TypeCorrect == Spec => []TypeOK
<1>1. IInv => TypeOK
  BY DEF IInv
<1> QED BY <1>1, InitIInv, StepIInv, PTL DEF Spec

\* Every chunk of the pool has one owner (ChunksArray.cs:49-102), whatever the
\* network delivers and wherever a parser throws.
THEOREM ChunksAlwaysHaveOneOwner == Spec => []ChunksHaveOneOwner
<1>1. IInv => ChunksHaveOneOwner
  BY DEF IInv
<1> QED BY <1>1, InitIInv, StepIInv, PTL DEF Spec

\* The receiver reports add up to what was received and lost
\* (RtpStream.cs:80-85,123-127, RtcpReceiverReportsProvider.cs:50-56,84).
THEOREM ReportsAlwaysAddUp == Spec => []ReportsAddUp
<1>1. Init => ReportsAddUp
  BY StreamAssumption DEF Init, StreamInit, ReportsAddUp, CapLost
<1>2. TypeOK /\ ReportsAddUp /\ [Next]_vars => ReportsAddUp'
  <2> SUFFICES ASSUME TypeOK, ReportsAddUp, [Next]_vars PROVE ReportsAddUp'
    OBVIOUS
  <2>1. CASE UNCHANGED streamVars
    BY <2>1 DEF streamVars, ReportsAddUp, CapLost
  <2>2. CASE CreateReceiverReport
    BY <2>2, CreateReceiverReportReports DEF TypeOK
  <2>3. CASE \E n \in Packets : \E payload : ProcessImmediately(n, payload)
    BY <2>3, ProcessImmediatelyReports DEF TypeOK
  <2>4. UNCHANGED vars => UNCHANGED streamVars
    BY DEF vars, streamVars
  <2> QED BY <2>1, <2>2, <2>3, <2>4, StepOfStream
<1> QED BY <1>1, <1>2, TypeCorrect, PTL DEF Spec
-----------------------------------------------------------------------------
(* Sequence number accounting *)

\* Taking a modulus off a multiple of it leaves a multiple.
LEMMA ModulusOff ==
  ASSUME NEW K \in Nat \ {0}, NEW x \in Int, x % K = 0
  PROVE  (x - K) % K = 0
<1>1. PICK q \in Int : x = q * K
  OBVIOUS
<1>2. (q - 1) * K = q * K - K
  OBVIOUS
<1>3. ((q - 1) * K) % K = 0
  OBVIOUS
<1> QED BY <1>1, <1>2, <1>3

LEMMA NextCycle ==
  ASSUME NEW C \in Nat \ {0}, NEW c \in 0 .. C - 1
  PROVE  (c + 1) % C = IF c + 1 = C THEN 0 ELSE c + 1
OBVIOUS

\* The extended sequence number before and after a wrap-around of SeqModulus,
\* and of SeqModulus * CyclesModulus.
LEMMA CycleProducts ==
  ASSUME NEW M \in Nat \ {0}, NEW C \in Nat \ {0}, NEW c \in 0 .. C - 1
  PROVE  /\ M * C \in Nat \ {0} /\ c * M \in Nat
         /\ (c + 1) * M = c * M + M
         /\ c + 1 = C => c * M = M * C - M
<1>1. M * C \in Nat \ {0} /\ c * M \in Nat
  OBVIOUS
<1>2. (c + 1) * M = c * M + M
  OBVIOUS
<1>3. c + 1 = C => c * M = M * C - M
  <2>1. C * M = M * C
    OBVIOUS
  <2> QED BY <1>2, <2>1
<1> QED BY <1>1, <1>2, <1>3

\* One packet received and some lost, against a range that grew by d.
LEMMA Balance ==
  ASSUME NEW e1 \in Int, NEW e2 \in Int, NEW first \in Int, NEW received \in Int,
         NEW lost \in Int, NEW more \in Int, NEW k \in Int, e2 - e1 = more + 1 - k
  PROVE  e2 - first + 1 - (received + 1) - (lost + more) = (e1 - first + 1 - received - lost) - k
OBVIOUS

\* Before the first packet nothing is counted.
FreshStream ==
  streamIsFirstPacket => totals.received = 0 /\ totals.lost = 0 /\ sequenceCycles = 0

LEMMA FirstPacketAccounts ==
  ASSUME StreamTypeOK, FreshStream, NEW n \in Packets, streamIsFirstPacket, CountPacket(n),
         previousSeqNumber' = SeqNumber[n], streamIsFirstPacket' = FALSE
  PROVE  LossAccounting'
<1>1. /\ totals'.received = 1 /\ totals'.lost = 0 /\ totals'.first = n
      /\ sequenceCycles' = 0
  BY DEF CountPacket, LostCount, NextCycles, FreshStream, StreamTypeOK
<1>2. SeqNumber[n] \in Int /\ SeqModulus * CyclesModulus \in Nat \ {0}
  BY StreamAssumption, CycleProducts DEF SeqNumbers
<1>3. ExtendedHighest' = SeqNumber[n]
  BY <1>1, <1>2, StreamAssumption DEF ExtendedHighest
<1>4. ExtendedHighest' - SeqNumber[totals'.first] + 1 - totals'.received - totals'.lost = 0
  BY <1>1, <1>2, <1>3
<1>5. 0 % (SeqModulus * CyclesModulus) = 0
  BY <1>2
<1> QED BY <1>4, <1>5 DEF LossAccounting

LEMMA NextPacketAccounts ==
  ASSUME StreamTypeOK, LossAccounting, NEW n \in Packets, ~streamIsFirstPacket, ~IsStale(n),
         CountPacket(n), previousSeqNumber' = SeqNumber[n]
  PROVE  LossAccounting'
<1> DEFINE K == SeqModulus * CyclesModulus
           x == ExtendedHighest - SeqNumber[totals.first] + 1 - totals.received - totals.lost
           y == ExtendedHighest' - SeqNumber[totals'.first] + 1 - totals'.received - totals'.lost
           s == SeqNumber[n]
           p == previousSeqNumber
<1>1. /\ SeqModulus \in Nat \ {0} /\ CyclesModulus \in Nat \ {0}
      /\ s \in SeqNumbers /\ p \in SeqNumbers /\ s \in Nat /\ p \in Nat
      /\ sequenceCycles \in 0 .. CyclesModulus - 1
      /\ totals.received \in Nat /\ totals.lost \in Nat /\ SeqNumber[totals.first] \in Nat
  <2>1. totals.first \in Packets
    BY DEF StreamTypeOK
  <2>2. \A m \in Packets : SeqNumber[m] \in Nat
    BY StreamAssumption
  <2>3. /\ totals.received \in Nat /\ totals.lost \in Nat
        /\ p \in SeqNumbers /\ sequenceCycles \in 0 .. CyclesModulus - 1
    BY DEF StreamTypeOK
  <2>4. s \in SeqNumbers /\ SeqNumber[totals.first] \in Nat /\ s \in Nat
    BY <2>1, <2>2, HeaderType
  <2>5. p \in Nat
    BY <2>3, StreamAssumption DEF SeqNumbers
  <2> QED BY <2>3, <2>4, <2>5, StreamAssumption
<1>2. /\ K \in Nat \ {0} /\ sequenceCycles * SeqModulus \in Nat
      /\ (sequenceCycles + 1) * SeqModulus = sequenceCycles * SeqModulus + SeqModulus
      /\ sequenceCycles + 1 = CyclesModulus => sequenceCycles * SeqModulus = K - SeqModulus
  BY <1>1, CycleProducts
<1>3. /\ totals'.received = totals.received + 1
      /\ totals'.lost = totals.lost + LostCount(n)
      /\ totals'.first = totals.first
      /\ sequenceCycles' = NextCycles(n)
  BY DEF CountPacket, StreamTypeOK
<1>4. LostCount(n) = (IF s >= p THEN s - p ELSE s - p + SeqModulus) - 1
  BY <1>1, SeqDeltaType DEF LostCount
<1>5. ExtendedHighest = sequenceCycles * SeqModulus + p
  BY DEF ExtendedHighest
<1>6. ExtendedHighest' = sequenceCycles' * SeqModulus + s
  BY DEF ExtendedHighest
<1> HIDE DEF K
<1>7. x \in Int /\ x % K = 0
  <2>1. x \in Int
    BY <1>1, <1>2, <1>5
  <2> QED BY <2>1 DEF LossAccounting, K
<1>8. y = ExtendedHighest' - SeqNumber[totals.first] + 1 - (totals.received + 1)
            - (totals.lost + LostCount(n))
  BY <1>3
<1>9. y % K = 0
  <2>1. CASE s >= p
    <3>1. sequenceCycles' = sequenceCycles
      BY <1>1, <1>3, <2>1 DEF NextCycles
    <3>2. ExtendedHighest' - ExtendedHighest = s - p
      BY <1>1, <1>2, <1>5, <1>6, <3>1
    <3>3. LostCount(n) = s - p - 1
      BY <1>1, <1>4, <2>1
    <3>4. ExtendedHighest \in Int /\ ExtendedHighest' \in Int
      BY <1>1, <1>2, <1>5, <1>6, <3>1
    <3>5. LostCount(n) \in Int /\ ExtendedHighest' - ExtendedHighest = LostCount(n) + 1 - 0
      BY <1>1, <3>2, <3>3
    <3>6. y = x - 0
      BY <1>1, <1>8, <3>4, <3>5, Balance
    <3> QED BY <1>7, <3>6
  <2>2. CASE s < p /\ sequenceCycles + 1 # CyclesModulus
    <3>1. sequenceCycles' = sequenceCycles + 1
      BY <1>1, <1>3, <2>2, NextCycle DEF NextCycles
    <3>2. ExtendedHighest' - ExtendedHighest = s - p + SeqModulus
      BY <1>1, <1>2, <1>5, <1>6, <3>1
    <3>3. LostCount(n) = s - p + SeqModulus - 1
      BY <1>1, <1>4, <2>2
    <3>4. ExtendedHighest \in Int /\ ExtendedHighest' \in Int
      BY <1>1, <1>2, <1>5, <1>6, <3>1
    <3>5. LostCount(n) \in Int /\ ExtendedHighest' - ExtendedHighest = LostCount(n) + 1 - 0
      BY <1>1, <3>2, <3>3
    <3>6. y = x - 0
      BY <1>1, <1>8, <3>4, <3>5, Balance
    <3> QED BY <1>7, <3>6
  <2>3. CASE s < p /\ sequenceCycles + 1 = CyclesModulus
    <3>1. sequenceCycles' = 0
      BY <1>1, <1>3, <2>3, NextCycle DEF NextCycles
    <3>2. ExtendedHighest' = s
      BY <1>1, <1>6, <3>1
    <3>3. ExtendedHighest = K - SeqModulus + p
      BY <1>2, <1>5, <2>3
    <3>4. LostCount(n) = s - p + SeqModulus - 1
      BY <1>1, <1>4, <2>3
    <3>5. /\ K \in Int /\ LostCount(n) \in Int /\ ExtendedHighest \in Int /\ ExtendedHighest' \in Int
          /\ ExtendedHighest' - ExtendedHighest = LostCount(n) + 1 - K
      BY <1>1, <1>2, <3>2, <3>3, <3>4
    <3>6. ExtendedHighest' - SeqNumber[totals.first] + 1 - (totals.received + 1)
            - (totals.lost + LostCount(n)) = x - K
      BY <1>1, <3>5, Balance
    <3>7. y = x - K
      BY <1>8, <3>6
    <3> QED BY <1>2, <1>7, <3>7, ModulusOff
  <2> QED BY <1>1, <2>1, <2>2, <2>3
<1> QED BY <1>9 DEF LossAccounting, K

LEMMA StepKeepsAccounts ==
  ASSUME TypeOK, FreshStream, LossAccounting, [Next]_vars
  PROVE  FreshStream' /\ LossAccounting'
<1>1. CASE UNCHANGED streamVars
  BY <1>1 DEF streamVars, FreshStream, LossAccounting, ExtendedHighest
<1>2. CASE CreateReceiverReport
  <2>1. /\ totals'.received = totals.received /\ totals'.lost = totals.lost
        /\ totals'.first = totals.first
        /\ UNCHANGED <<streamIsFirstPacket, previousSeqNumber, sequenceCycles>>
    BY <1>2 DEF CreateReceiverReport, TypeOK, StreamTypeOK
  <2> QED BY <2>1 DEF FreshStream, LossAccounting, ExtendedHighest
<1>3. CASE \E n \in Packets : \E payload : ProcessImmediately(n, payload)
  <2>1. PICK n \in Packets : \E payload : ProcessImmediately(n, payload)
    BY <1>3
  <2>2. CASE UNCHANGED streamVars
    BY <1>1, <2>2
  <2>3. CASE /\ ~IsStale(n) /\ CountPacket(n)
             /\ previousSeqNumber' = SeqNumber[n] /\ streamIsFirstPacket' = FALSE
    BY <2>3, FirstPacketAccounts, NextPacketAccounts DEF TypeOK, FreshStream
  <2> QED BY <2>1, <2>2, <2>3 DEF ProcessImmediately
<1>4. UNCHANGED vars => UNCHANGED streamVars
  BY DEF vars, streamVars
<1> QED BY <1>1, <1>2, <1>3, <1>4, StepOfStream

\* Packets received and lost make up the extended sequence range of the report
\* (RtpStream.cs:78-91,102-106), whatever the network delivers, wherever a
\* parser throws and however often the counters wrap around.
THEOREM LossesAlwaysAccounted == Spec => []LossAccounting
<1>1. Init => FreshStream /\ LossAccounting
  BY DEF Init, StreamInit, FreshStream, LossAccounting
<1>2. TypeOK /\ FreshStream /\ LossAccounting /\ [Next]_vars => FreshStream' /\ LossAccounting'
  BY StepKeepsAccounts
<1> QED BY <1>1, <1>2, TypeCorrect, PTL DEF Spec
-----------------------------------------------------------------------------
(* The payloads of the buffered packets, when no parser throws *)

\* The bytes of every buffered packet are in its chunk.
BytesInPlace ==
  /\ Len(buffered) = Len(chunkMap)
  /\ \A i \in 1 .. Len(buffered) : chunksBytes[chunkMap[i]] = buffered[i]

\* The buffer has room whenever it is not about to be relieved.
Room == pc # "full" => Len(buffered) < MaxCorrectionLength

LEMMA BytesInPlaceIsPayloadsIntact ==
  ASSUME TypeOK, ChunksHaveOneOwner
  PROVE  BytesInPlace => PayloadsIntact
<1>1. DOMAIN buffered = 1 .. Len(buffered)
  BY DEF TypeOK, AssemblerTypeOK
<1> QED BY <1>1 DEF BytesInPlace, PayloadsIntact, ChunksHaveOneOwner, ChunkAt

LEMMA RemoveKeepsBytes ==
  ASSUME IInv, BytesInPlace, NEW i \in Indices, i <= Len(chunkMap), RemoveBuffered(i)
  PROVE  BytesInPlace' /\ Len(buffered') = Len(buffered) - 1
<1> DEFINE Old(j) == IF j < i THEN j ELSE j + 1
<1>1. /\ Len(buffered) \in Nat /\ Len(chunkMap) = Len(buffered)
      /\ i \in 1 .. Len(buffered) /\ i \in 1 .. Len(chunkMap)
      /\ buffered \in Seq(Packets) /\ chunkMap \in Seq(Chunks)
  BY IndexFacts DEF IInv, TypeOK, AssemblerTypeOK, BytesInPlace
<1>2. /\ buffered' = RemoveAt(buffered, i) /\ chunkMap' = RemoveAt(chunkMap, i)
      /\ chunksBytes' = chunksBytes
  BY DEF RemoveBuffered, RemoveChunk
<1>3. /\ Len(buffered') = Len(buffered) - 1 /\ Len(chunkMap') = Len(buffered) - 1
      /\ \A j \in 1 .. Len(buffered) - 1 :
           buffered'[j] = buffered[Old(j)] /\ chunkMap'[j] = chunkMap[Old(j)]
  BY <1>1, <1>2, RemoveAtShifts
<1>4. \A j \in 1 .. Len(buffered) - 1 : Old(j) \in 1 .. Len(buffered)
  BY <1>1
<1> HIDE DEF Old
<1> QED BY <1>2, <1>3, <1>4 DEF BytesInPlace

LEMMA InsertKeepsBytes ==
  ASSUME IInv, IInv', BytesInPlace, NEW n \in Packets, Insert(n),
         buffered' = Append(buffered, n), chunkMap' = Append(chunkMap, ChunkToInsert)
  PROVE  BytesInPlace' /\ Len(buffered') = Len(buffered) + 1
<1> DEFINE c == ChunkToInsert
           k == Len(buffered)
<1>1. /\ k \in Nat /\ Len(chunkMap) = k /\ chunkMap \in Seq(Chunks) /\ chunkMap' \in Seq(Chunks)
      /\ buffered \in Seq(Packets)
  BY DEF IInv, TypeOK, AssemblerTypeOK, BytesInPlace, Chunks
<1>2. /\ Len(buffered') = k + 1 /\ Len(chunkMap') = k + 1
      /\ \A j \in 1 .. k : buffered'[j] = buffered[j] /\ chunkMap'[j] = chunkMap[j]
      /\ buffered'[k + 1] = n /\ chunkMap'[k + 1] = c
  BY <1>1
<1>3. c \in Chunks /\ \A j \in 1 .. k : chunkMap[j] \in Chunks
  BY <1>1, <1>2
<1>4. \A j \in 1 .. k : chunkMap'[j] # c
  <2>1. \A j \in 1 .. k : chunkMap'[j] # chunkMap'[k + 1]
    BY <1>1, <1>2 DEF IInv, ChunksHaveOneOwner
  <2> QED BY <1>2, <2>1
<1>5. chunksBytes' = [chunksBytes EXCEPT ![c] = n] /\ DOMAIN chunksBytes = Chunks
  BY DEF Insert, IInv, TypeOK, ChunksTypeOK
<1> HIDE DEF c
<1>6. ASSUME NEW j \in 1 .. k + 1
      PROVE  chunksBytes'[chunkMap'[j]] = buffered'[j]
  <2>1. CASE j \in 1 .. k
    BY <1>2, <1>3, <1>4, <1>5, <2>1 DEF BytesInPlace
  <2>2. CASE j = k + 1
    BY <1>2, <1>3, <1>5, <2>2
  <2> QED BY <1>1, <2>1, <2>2
<1> QED BY <1>2, <1>6 DEF BytesInPlace

LEMMA StepKeepsBytes ==
  ASSUME ~ParserThrows, IInv, IInv', BytesInPlace, Room, Next
  PROVE  BytesInPlace' /\ Room'
<1>1. /\ Len(buffered) \in Nat /\ Len(chunkMap) = Len(buffered)
      /\ chunksCount = Len(buffered) /\ Len(buffered) <= MaxCorrectionLength
      /\ MaxCorrectionLength \in Nat \ {0}
      /\ \A i \in DOMAIN buffered : i \in Indices /\ i <= Len(chunkMap)
  <2>1. PoolInv
    BY DEF IInv, TypeOK, PoolInv
  <2>2. Len(buffered) \in Nat /\ Len(chunkMap) = Len(buffered)
    BY DEF IInv, TypeOK, AssemblerTypeOK, BytesInPlace
  <2>3. chunksCount <= MaxCorrectionLength
    BY <2>1, PoolSizes
  <2>4. \A i \in DOMAIN buffered : i \in Indices /\ i <= Len(chunkMap)
    BY <2>2, IndexFacts DEF IInv, TypeOK, AssemblerTypeOK
  <2> QED BY <2>1, <2>2, <2>3, <2>4, PoolSizes
<1>2. UNCHANGED bufferVars => BytesInPlace'
  BY DEF bufferVars, chunkVars, BytesInPlace
<1>3. UNCHANGED buffered /\ pc # "full" => Room'
  BY DEF Room
<1>4. ASSUME NEW n \in Packets, ProcessPacket(n), ~BufferPacket(n)
      PROVE  BytesInPlace' /\ Room'
  <2>1. UNCHANGED bufferVars /\ pc = "idle"
    BY <1>4 DEF ProcessPacket, ProcessFirstPacket, ProcessNextPacket, ProcessDiscontinuity,
                ProcessRepeatedPacket, Deliver, bufferVars
  <2> QED BY <1>2, <1>3, <2>1 DEF bufferVars
<1>5. ASSUME NEW n \in Packets, BufferPacket(n)
      PROVE  BytesInPlace' /\ Room'
  <2>1. pc = "idle" /\ Len(buffered) < MaxCorrectionLength /\ ~PoolIsFull
    BY <1>1, <1>5 DEF BufferPacket, Deliver, Room, PoolIsFull
  <2>2. /\ buffered' = Append(buffered, n) /\ chunkMap' = Append(chunkMap, ChunkToInsert)
        /\ Insert(n)
        /\ pc' = IF BufferIsFull(Len(buffered) + 1) THEN "full" ELSE "idle"
    BY <1>5, <2>1 DEF BufferPacket
  <2>3. BytesInPlace' /\ Len(buffered') = Len(buffered) + 1
    BY <2>2, InsertKeepsBytes
  <2> QED BY <1>1, <2>1, <2>2, <2>3 DEF Room, BufferIsFull
<1>6. ASSUME NEW i \in Indices, i <= Len(chunkMap), RemoveBuffered(i)
      PROVE  BytesInPlace' /\ Room'
  <2>1. BytesInPlace' /\ Len(buffered') = Len(buffered) - 1
    BY <1>6, RemoveKeepsBytes
  <2> QED BY <1>1, <2>1 DEF Room
<1>7. CASE PassNearestBufferedPacket
  <2>1. \E i \in DOMAIN buffered : RemoveBuffered(i)
    BY <1>1, <1>7 DEF PassNearestBufferedPacket, CallbackThrows
  <2> QED BY <1>1, <1>6, <2>1
<1>8. CASE RemovePassed
  <2>1. PICK k \in DOMAIN pending :
          \/ pending[k] <= Len(chunkMap) /\ RemoveBuffered(pending[k])
          \/ /\ pending[k] > Len(chunkMap)
             /\ buffered' = IF pending[k] <= Len(buffered)
                            THEN RemoveAt(buffered, pending[k]) ELSE buffered
             /\ UNCHANGED <<chunkMap, chunkVars>>
    BY <1>8 DEF RemovePassed
  <2>2. pending[k] \in Indices /\ pc = "remove"
    BY <1>8 DEF RemovePassed, IInv, TypeOK, AssemblerTypeOK
  <2>3. pending[k] > Len(chunkMap) => ~(pending[k] <= Len(buffered))
    BY <1>1, <2>2, IndexFacts
  <2>4. \/ pending[k] <= Len(chunkMap) /\ RemoveBuffered(pending[k])
        \/ UNCHANGED bufferVars
    BY <2>1, <2>3 DEF bufferVars
  <2> QED BY <1>2, <1>3, <1>6, <2>2, <2>4 DEF bufferVars
<1>9. CASE ScanEnds
  <2>1. UNCHANGED bufferVars \/ (buffered' = <<>> /\ chunkMap' = <<>>)
    BY <1>9 DEF ScanEnds
  <2>2. CASE buffered' = <<>> /\ chunkMap' = <<>>
    BY <1>1, <2>2 DEF BytesInPlace, Room
  <2>3. pc = "scan"
    BY <1>9 DEF ScanEnds
  <2> QED BY <1>2, <1>3, <2>1, <2>2, <2>3 DEF bufferVars
<1>10. CASE FlushEnds \/ ScanHit \/ ScanAgain \/ RemoveEnds \/ SendReport
  <2>1. UNCHANGED bufferVars /\ pc # "full"
    BY <1>10 DEF FlushEnds, ScanHit, ScanAgain, RemoveEnds, SendReport
  <2> QED BY <1>2, <1>3, <2>1 DEF bufferVars
<1> QED BY <1>4, <1>5, <1>7, <1>8, <1>9, <1>10 DEF Next, Continue

LEMMA BytesStayInPlace ==
  ASSUME ~ParserThrows
  PROVE  Spec => [](IInv /\ BytesInPlace /\ Room)
<1>1. Init => BytesInPlace /\ Room
  BY ChunksAssumption DEF Init, BytesInPlace, Room
<1>2. (IInv /\ BytesInPlace /\ Room) /\ [Next]_vars => (IInv /\ BytesInPlace /\ Room)'
  <2> SUFFICES ASSUME IInv, BytesInPlace, Room, [Next]_vars
               PROVE  (IInv /\ BytesInPlace /\ Room)'
    OBVIOUS
  <2>1. IInv'
    BY StepIInv
  <2>2. CASE Next
    BY <2>1, <2>2, StepKeepsBytes
  <2>3. CASE UNCHANGED vars
    BY <2>1, <2>3 DEF vars, chunkVars, BytesInPlace, Room
  <2> QED BY <2>2, <2>3
<1> QED BY <1>1, <1>2, InitIInv, PTL DEF Spec

\* As long as no parser throws, every buffered packet keeps its own payload
\* (RtpSequenceAssembler.cs:110-111,135-136).
THEOREM PayloadsStayIntact ==
  ASSUME ~ParserThrows
  PROVE  Spec => []PayloadsIntact
<1>1. IInv /\ BytesInPlace /\ Room => PayloadsIntact
  BY BytesInPlaceIsPayloadsIntact DEF IInv
<1> QED BY <1>1, BytesStayInPlace, PTL

\* As long as no parser throws, the pool never refuses a payload
\* (ChunksArray.cs:55-56, RtpSequenceAssembler.cs:79-88).
THEOREM InsertAlwaysHasRoom ==
  ASSUME ~ParserThrows
  PROVE  Spec => []InsertHasRoom
<1>1. IInv /\ BytesInPlace /\ Room => InsertHasRoom
  BY DEF Room, InsertHasRoom
<1> QED BY <1>1, BytesStayInPlace, PTL

\* The pool is sound (ChunksArray.cs:49-102), for every network and every pool
\* size, when no parser throws.
THEOREM PoolAlwaysSound ==
  ASSUME ~ParserThrows
  PROVE  Spec => []PoolIsSound
<1>1. ChunksHaveOneOwner /\ PayloadsIntact /\ InsertHasRoom => PoolIsSound
  BY DEF PoolIsSound
<1> QED BY <1>1, ChunksAlwaysHaveOneOwner, PayloadsStayIntact,
           InsertAlwaysHasRoom, PTL

\* The counters of the reports add up (RtpStream.cs:76-127,
\* RtcpReceiverReportsProvider.cs:48-87), for every modulus and every loss.
THEOREM CountersAlwaysAddUp == Spec => []CountersAddUp
<1>1. LossAccounting /\ ReportsAddUp => CountersAddUp
  BY DEF CountersAddUp
<1> QED BY <1>1, LossesAlwaysAccounted, ReportsAlwaysAddUp, PTL
-----------------------------------------------------------------------------
(* What reaches the parser *)

\* The sender numbers its packets one after the other.
NumbersFollowOrder ==
  \A m, n \in Packets :
    n - m \in 0 .. SeqModulus - 1 => SeqDelta(SeqNumber[n], SeqNumber[m]) = n - m

\* Half of the numbers are enough for the whole stream.  A longer one may reach
\* the number of a duplicate that still waits in the buffer, and the parser is
\* then given that old packet.
ShortStream == \A m, n \in Packets : n - m <= (SeqModulus - 1) \div 2

\* Packets no further apart than half of the numbers.
NearBy(m, n) == m - n <= (SeqModulus - 1) \div 2 /\ n - m <= (SeqModulus - 1) \div 2

\* Of packets near each other, the older half of the numbers is that of older ones.
LEMMA NumbersTellTheOrder ==
  ASSUME NumbersFollowOrder, NEW m \in Packets, NEW n \in Packets, NearBy(m, n)
  PROVE  /\ m <= n => /\ SeqDelta(SeqNumber[n], SeqNumber[m]) = n - m
                      /\ n - m <= (SeqModulus - 1) \div 2
         /\ n < m => SeqDelta(SeqNumber[n], SeqNumber[m]) > (SeqModulus - 1) \div 2
<1> DEFINE half == (SeqModulus - 1) \div 2
<1>1. /\ m \in Nat /\ n \in Nat /\ SeqModulus \in Nat /\ SeqModulus > 3
      /\ half \in Nat /\ 2 * half <= SeqModulus - 1
  BY StreamAssumption
<1>2. ASSUME NEW a \in Packets, NEW b \in Packets, a <= b, NearBy(a, b)
      PROVE  SeqDelta(SeqNumber[b], SeqNumber[a]) = b - a /\ b - a <= half
  <2>1. a \in Nat /\ b \in Nat /\ b - a <= half
    BY <1>2, StreamAssumption DEF NearBy
  <2>2. b - a \in 0 .. SeqModulus - 1
    BY <1>1, <1>2, <2>1
  <2> QED BY <2>1, <2>2 DEF NumbersFollowOrder
<1> HIDE DEF half
<1>3. CASE m <= n
  BY <1>1, <1>2, <1>3 DEF half
<1>4. CASE n < m
  <2>1. SeqDelta(SeqNumber[m], SeqNumber[n]) = m - n /\ m - n <= half
    <3>1. n <= m /\ NearBy(n, m)
      BY <1>1, <1>4 DEF NearBy
    <3> QED BY <1>2, <3>1
  <2>2. SeqNumber[m] \in SeqNumbers /\ SeqNumber[n] \in SeqNumbers
    BY HeaderType
  <2>3. SeqDelta(SeqNumber[n], SeqNumber[m]) = SeqModulus - (m - n)
    <3> DEFINE x == SeqNumber[m]
               y == SeqNumber[n]
    <3>1. x \in Nat /\ y \in Nat /\ x < SeqModulus /\ y < SeqModulus
      BY <1>1, <2>2 DEF SeqNumbers
    <3>2. SeqDelta(x, y) = IF x >= y THEN x - y ELSE x - y + SeqModulus
      BY <2>2, SeqDeltaType
    <3>3. SeqDelta(y, x) = IF y >= x THEN y - x ELSE y - x + SeqModulus
      BY <2>2, SeqDeltaType
    <3> HIDE DEF x, y
    <3>4. SeqDelta(x, y) = m - n
      BY <2>1 DEF x, y
    <3>5. SeqDelta(y, x) = SeqModulus - (m - n)
      BY <1>1, <1>4, <3>1, <3>2, <3>3, <3>4
    <3> QED BY <3>5 DEF x, y
  <2> QED BY <1>1, <1>4, <2>1, <2>3 DEF half
<1> QED BY <1>1, <1>3, <1>4

\* When the bytes are in place, RtpStream is given every packet with its own
\* payload.
LEMMA StepOfStreamIntact ==
  ASSUME IInv, BytesInPlace, Next
  PROVE  \/ UNCHANGED <<streamVars, handed>>
         \/ CreateReceiverReport /\ UNCHANGED handed
         \/ \E n \in Packets : ProcessImmediately(n, n) /\ handed' = handed \cup {n}
<1>1. ASSUME NEW n \in Packets, ProcessPacket(n)
      PROVE  \/ UNCHANGED <<streamVars, handed>>
             \/ ProcessImmediately(n, n) /\ handed' = handed \cup {n}
  BY <1>1 DEF ProcessPacket, ProcessFirstPacket, ProcessNextPacket, ProcessDiscontinuity,
              ProcessRepeatedPacket, BufferPacket, PassPacket
<1>2. \A i \in DOMAIN buffered : buffered[i] \in Packets /\ ChunkAt(chunkMap[i]) = buffered[i]
  BY BytesInPlaceIsPayloadsIntact DEF IInv, TypeOK, AssemblerTypeOK, PayloadsIntact
<1>3. ASSUME PassNearestBufferedPacket \/ ScanHit
      PROVE  \/ UNCHANGED <<streamVars, handed>>
             \/ \E i \in DOMAIN buffered :
                  /\ ProcessImmediately(buffered[i], ChunkAt(chunkMap[i]))
                  /\ handed' = handed \cup {buffered[i]}
  BY <1>3 DEF PassNearestBufferedPacket, ScanHit, PassPacket
<1>4. ASSUME FlushEnds
      PROVE  /\ current \in Packets /\ ProcessImmediately(current, current)
             /\ handed' = handed \cup {current}
  BY <1>4 DEF FlushEnds, PassPacket, IInv, TypeOK, AssemblerTypeOK
<1>5. ASSUME ScanAgain \/ ScanEnds \/ RemovePassed \/ RemoveEnds
      PROVE  UNCHANGED <<streamVars, handed>>
  BY <1>5 DEF ScanAgain, ScanEnds, RemovePassed, RemoveEnds
<1>6. CASE PassNearestBufferedPacket \/ ScanHit
  BY <1>2, <1>3, <1>6
<1> QED BY <1>1, <1>4, <1>5, <1>6 DEF Next, Continue, SendReport

\* Time stamps count the sender's clock, which advances by less than they can tell
\* apart while half of the sequence numbers are used.
ClockAdvances ==
  \A m, n \in Packets :
    n - m \in 0 .. (SeqModulus - 1) \div 2 =>
      (Timestamp[n] - Timestamp[m]) % TimestampModulus = SenderClock[n] - SenderClock[m]

ClockIsAt(q) ==
  ClockAdvances =>
    /\ previousTimestamp = Timestamp[q]
    /\ samplesSum = SenderClock[q] - SenderClock[totals.first]

\* RtpStream accepted q last, and the parser is behind it, by packets without a
\* payload at most.
StreamIsAt(q) ==
  /\ previousSeqNumber = SeqNumber[q]
  /\ ClockIsAt(q)
  /\ \A i \in 1 .. Len(parsed) : parsed[i] <= q
  /\ parserTail # NoPacket =>
       /\ parserTail \in Packets /\ parserTail <= q
       /\ \A n \in Packets : parserTail < n /\ n <= q => n \in EmptyPackets

ParsedSoFar ==
  /\ parsed \in Seq(Packets)
  /\ streamIsFirstPacket => parsed = <<>> /\ parserTail = NoPacket /\ samplesSum = 0
  /\ ParsedInOrder
  /\ ParserNeverJoinsAcrossAGap

\* The clock when RtpStream has counted n.
ClockMovesTo(n) ==
  ClockAdvances =>
    (IF streamIsFirstPacket THEN samplesSum ELSE samplesSum + TimestampDelta(n))
      = SenderClock[n] - (IF streamIsFirstPacket THEN SenderClock[n] ELSE SenderClock[totals.first])

\* What the parser may be given next: a packet beyond those it was given, which
\* continues the last one unless something in between was lost.
Continues(n) ==
  LET kept == IF LostCount(n) # 0 THEN NoPacket ELSE parserTail
  IN  /\ \A i \in 1 .. Len(parsed) : parsed[i] < n
      /\ kept # NoPacket =>
           /\ kept \in Packets /\ kept < n
           /\ \A m \in Packets : kept < m /\ m < n => m \in EmptyPackets
      /\ ClockMovesTo(n)

LEMMA FreshContinues ==
  ASSUME NumbersFollowOrder, StreamTypeOK, parsed \in Seq(Packets), ~streamIsFirstPacket,
         NEW q \in Packets, StreamIsAt(q), NEW n \in Packets, NearBy(q, n), ~IsStale(n)
  PROVE  q < n /\ Continues(n)
<1>1. /\ previousSeqNumber = SeqNumber[q]
      /\ \A i \in 1 .. Len(parsed) : parsed[i] <= q
      /\ parserTail # NoPacket =>
           /\ parserTail \in Packets /\ parserTail <= q
           /\ \A m \in Packets : parserTail < m /\ m <= q => m \in EmptyPackets
  BY DEF StreamIsAt
<1>2. /\ SeqDelta(SeqNumber[n], SeqNumber[q]) # 0
      /\ ~(SeqDelta(SeqNumber[n], SeqNumber[q]) > (SeqModulus - 1) \div 2)
  BY <1>1 DEF IsStale
<1>3. n \in Nat /\ q \in Nat /\ \A m \in Packets : m \in Nat
  BY StreamAssumption
<1>4. q < n /\ SeqDelta(SeqNumber[n], SeqNumber[q]) = n - q
  BY <1>2, <1>3, NumbersTellTheOrder
<1>5. LostCount(n) = n - q - 1
  BY <1>1, <1>4 DEF LostCount
<1>6. \A m \in Packets : m <= q => m < n
  BY <1>3, <1>4
<1>7. \A i \in 1 .. Len(parsed) : parsed[i] < n
  <2>1. \A i \in 1 .. Len(parsed) : parsed[i] \in Packets
    OBVIOUS
  <2> QED BY <1>1, <1>6, <2>1
<1>8. ClockMovesTo(n)
  <2> SUFFICES ASSUME ClockAdvances
               PROVE  samplesSum + TimestampDelta(n) = SenderClock[n] - SenderClock[totals.first]
    BY DEF ClockMovesTo
  <2>1. /\ previousTimestamp = Timestamp[q]
        /\ samplesSum = SenderClock[q] - SenderClock[totals.first]
    BY DEF StreamIsAt, ClockIsAt
  <2>2. n - q \in 0 .. (SeqModulus - 1) \div 2
    BY <1>3, <1>4, StreamAssumption DEF NearBy
  <2>3. TimestampDelta(n) = SenderClock[n] - SenderClock[q]
    BY <2>1, <2>2 DEF ClockAdvances, TimestampDelta
  <2>4. totals.first \in Packets
    BY DEF StreamTypeOK
  <2>5. \A m \in Packets : SenderClock[m] \in Nat
    BY AssemblerAssumption
  <2>6. SenderClock[n] \in Nat /\ SenderClock[q] \in Nat /\ SenderClock[totals.first] \in Nat
    BY <2>4, <2>5
  <2> QED BY <2>1, <2>3, <2>6
<1>9. CASE LostCount(n) # 0 \/ parserTail = NoPacket
  BY <1>4, <1>7, <1>8, <1>9 DEF Continues
<1>10. CASE LostCount(n) = 0 /\ parserTail # NoPacket
  <2>1. \A m \in Packets : m < n => m <= q
    BY <1>3, <1>5, <1>10
  <2>2. \A m \in Packets : parserTail < m /\ m < n => m \in EmptyPackets
    BY <1>1, <1>10, <2>1
  <2>3. parserTail \in Packets /\ parserTail < n
    BY <1>1, <1>6, <1>10
  <2> QED BY <1>4, <1>7, <1>8, <1>10, <2>2, <2>3 DEF Continues
<1> QED BY <1>9, <1>10

LEMMA FedStaysInOrder ==
  ASSUME StreamTypeOK, ParsedSoFar, NEW n \in Packets, ProcessImmediately(n, n), ~IsStale(n),
         Continues(n)
  PROVE  ParsedSoFar' /\ ~streamIsFirstPacket' /\ StreamIsAt(n)'
<1>1. CASE IsStale(n)
  BY <1>1
<1>2. CASE /\ ~IsStale(n) /\ CountPacket(n) /\ FeedParser(n, n)
           /\ previousSeqNumber' = SeqNumber[n] /\ previousTimestamp' = Timestamp[n]
           /\ streamIsFirstPacket' = FALSE
  <2> DEFINE kept == IF LostCount(n) # 0 THEN NoPacket ELSE parserTail
  <2>1. /\ \A i \in 1 .. Len(parsed) : parsed[i] < n
        /\ kept # NoPacket =>
             /\ kept \in Packets /\ kept < n
             /\ \A m \in Packets : kept < m /\ m < n => m \in EmptyPackets
    BY DEF Continues
  <2>2. \/ n \in EmptyPackets /\ parserTail' = kept /\ joined' = joined /\ parsed' = parsed
        \/ /\ parserTail' = n /\ parsed' = Append(parsed, n)
           /\ joined' = IF kept = NoPacket THEN joined ELSE joined \cup {<<kept, n>>}
    BY <1>2 DEF FeedParser
  <2> HIDE DEF kept
  <2>3. ClockIsAt(n)'
    <3> SUFFICES ASSUME ClockAdvances
                 PROVE  /\ previousTimestamp' = Timestamp[n]
                        /\ samplesSum' = SenderClock[n] - SenderClock[totals'.first]
      BY DEF ClockIsAt, ClockAdvances
    <3>1. /\ samplesSum' = IF streamIsFirstPacket THEN samplesSum ELSE samplesSum + TimestampDelta(n)
          /\ totals'.first = IF streamIsFirstPacket THEN n ELSE totals.first
          /\ previousTimestamp' = Timestamp[n]
      BY <1>2 DEF CountPacket, StreamTypeOK
    <3> QED BY <3>1 DEF Continues, ClockMovesTo
  <2>4. /\ n \in Nat /\ n # NoPacket /\ Len(parsed) \in Nat /\ parsed \in Seq(Packets)
        /\ \A m \in Packets : m \in Nat
    <3>1. \A m \in Packets : m \in Nat
      BY StreamAssumption
    <3>2. parsed \in Seq(Packets) /\ Len(parsed) \in Nat
      BY DEF ParsedSoFar
    <3>3. n \in Nat /\ n # NoPacket
      BY <3>1 DEF NoPacket
    <3> QED BY <3>1, <3>2, <3>3
  <2>5. \A m \in Packets : m < n => m <= n
    <3>1. \A a, b \in Nat : a < b => a <= b
      OBVIOUS
    <3> QED BY <3>1, StreamAssumption
  <2>6. CASE n \in EmptyPackets /\ parserTail' = kept /\ joined' = joined /\ parsed' = parsed
    <3>1. \A i \in 1 .. Len(parsed) : parsed[i] <= n
      <4> SUFFICES ASSUME NEW i \in 1 .. Len(parsed) PROVE parsed[i] <= n
        OBVIOUS
      <4>1. parsed[i] \in Packets /\ parsed[i] < n
        BY <2>1, <2>4
      <4> QED BY <2>5, <4>1
    <3>2. ASSUME kept # NoPacket, NEW m \in Packets, kept < m, m <= n
          PROVE  m \in EmptyPackets
      <4>1. m \in Nat /\ (m = n \/ m < n)
        BY <2>4, <3>2, StreamAssumption
      <4> QED BY <2>1, <2>6, <3>2, <4>1
    <3>3. kept # NoPacket => kept <= n
      BY <2>1, <2>5
    <3>4. StreamIsAt(n)'
      BY <1>2, <2>1, <2>3, <2>6, <3>1, <3>2, <3>3 DEF StreamIsAt
    <3> QED BY <1>2, <2>6, <3>4 DEF ParsedSoFar, ParsedInOrder, ParserNeverJoinsAcrossAGap
  <2>7. CASE /\ parserTail' = n /\ parsed' = Append(parsed, n)
             /\ joined' = IF kept = NoPacket THEN joined ELSE joined \cup {<<kept, n>>}
    <3>1. /\ parsed' \in Seq(Packets) /\ Len(parsed') = Len(parsed) + 1
          /\ \A i \in 1 .. Len(parsed) : parsed'[i] = parsed[i]
          /\ parsed'[Len(parsed) + 1] = n
      BY <2>4, <2>7, AppendProperties
    <3>2. \A i \in 1 .. Len(parsed') : parsed'[i] <= n
      <4> SUFFICES ASSUME NEW i \in 1 .. Len(parsed') PROVE parsed'[i] <= n
        OBVIOUS
      <4>1. CASE i = Len(parsed) + 1
        BY <2>4, <3>1, <4>1
      <4>2. CASE i \in 1 .. Len(parsed)
        <5>1. parsed[i] \in Packets /\ parsed[i] < n /\ parsed'[i] = parsed[i]
          BY <2>1, <2>4, <3>1, <4>2
        <5> QED BY <2>5, <5>1
      <4> QED BY <2>4, <3>1, <4>1, <4>2
    <3>3. StreamIsAt(n)'
      BY <1>2, <2>3, <2>4, <2>7, <3>2 DEF StreamIsAt
    <3>4. ParsedInOrder'
      <4> SUFFICES ASSUME NEW i \in 1 .. Len(parsed'), NEW j \in 1 .. Len(parsed'), i < j
                   PROVE  parsed'[i] < parsed'[j]
        BY <3>1 DEF ParsedInOrder
      <4>1. i \in 1 .. Len(parsed) /\ parsed'[i] = parsed[i]
        BY <2>4, <3>1
      <4>2. CASE j = Len(parsed) + 1
        BY <2>1, <3>1, <4>1, <4>2
      <4>3. CASE j \in 1 .. Len(parsed)
        <5>1. i \in DOMAIN parsed /\ j \in DOMAIN parsed
          BY <2>4, <4>1, <4>3
        <5> QED BY <3>1, <4>1, <4>3, <5>1 DEF ParsedSoFar, ParsedInOrder
      <4> QED BY <2>4, <3>1, <4>2, <4>3
    <3>5. ParserNeverJoinsAcrossAGap'
      <4>1. ASSUME kept # NoPacket
            PROVE  /\ <<kept, n>>[1] < <<kept, n>>[2]
                   /\ \A m \in Packets : <<kept, n>>[1] < m /\ m < <<kept, n>>[2]
                                            => m \in EmptyPackets
        BY <2>1, <4>1
      <4> QED BY <2>7, <4>1 DEF ParsedSoFar, ParserNeverJoinsAcrossAGap
    <3> QED BY <1>2, <3>1, <3>3, <3>4, <3>5 DEF ParsedSoFar
  <2> QED BY <2>2, <2>6, <2>7
<1> QED BY <1>1, <1>2 DEF ProcessImmediately

\* RtpStream given a packet near the last one it accepted.
LEMMA FedNearBy ==
  ASSUME NumbersFollowOrder, StreamTypeOK, ParsedSoFar, ~streamIsFirstPacket,
         NEW q \in Packets, StreamIsAt(q), NEW n \in Packets, NearBy(q, n),
         ProcessImmediately(n, n)
  PROVE  /\ ParsedSoFar' /\ ~streamIsFirstPacket'
         /\ (n <= q /\ StreamIsAt(q)') \/ (q < n /\ StreamIsAt(n)')
<1>1. CASE IsStale(n)
  <2>1. UNCHANGED streamVars
    BY <1>1 DEF ProcessImmediately
  <2>2. ParsedSoFar' /\ ~streamIsFirstPacket' /\ StreamIsAt(q)'
    BY <2>1 DEF streamVars, ParsedSoFar, StreamIsAt, ClockIsAt, ParsedInOrder,
                ParserNeverJoinsAcrossAGap
  <2>3. n <= q
    <3>1. n \in Nat /\ q \in Nat
      BY StreamAssumption
    <3>2. \/ SeqDelta(SeqNumber[n], SeqNumber[q]) = 0
          \/ SeqDelta(SeqNumber[n], SeqNumber[q]) > (SeqModulus - 1) \div 2
      BY <1>1 DEF IsStale, StreamIsAt
    <3>3. /\ q <= n => /\ SeqDelta(SeqNumber[n], SeqNumber[q]) = n - q
                       /\ n - q <= (SeqModulus - 1) \div 2
      BY NumbersTellTheOrder
    <3>4. (SeqModulus - 1) \div 2 \in Nat
      BY StreamAssumption
    <3> QED BY <3>1, <3>2, <3>3, <3>4
  <2> QED BY <2>2, <2>3
<1>2. CASE ~IsStale(n)
  <2>1. q < n /\ Continues(n)
    BY <1>2, FreshContinues DEF ParsedSoFar
  <2> QED BY <1>2, <2>1, FedStaysInOrder
<1> QED BY <1>1, <1>2

\* The first packet RtpStream is given.
LEMMA FedFirst ==
  ASSUME StreamTypeOK, ParsedSoFar, streamIsFirstPacket, NEW n \in Packets,
         ProcessImmediately(n, n)
  PROVE  ParsedSoFar' /\ ~streamIsFirstPacket' /\ StreamIsAt(n)'
<1>1. SenderClock[n] - SenderClock[n] = 0
  BY AssemblerAssumption
<1>2. ~IsStale(n) /\ Continues(n)
  BY <1>1 DEF IsStale, Continues, ParsedSoFar, ClockMovesTo
<1> QED BY <1>2, FedStaysInOrder

ParserInv ==
  /\ ParsedSoFar
  /\ ~streamIsFirstPacket => \E q \in Packets : q \in handed /\ StreamIsAt(q)

LEMMA ParserInductive ==
  ASSUME ~ParserThrows, NumbersFollowOrder, ShortStream
  PROVE  Spec => []ParserInv
<1>1. Init => ParserInv
  BY DEF Init, StreamInit, ParserInv, ParsedSoFar, ParsedInOrder, ParserNeverJoinsAcrossAGap
<1>2. IInv /\ BytesInPlace /\ ParserInv /\ [Next]_vars => ParserInv'
  <2> SUFFICES ASSUME IInv, BytesInPlace, ParserInv, [Next]_vars PROVE ParserInv'
    OBVIOUS
  <2>1. CASE UNCHANGED <<streamVars, handed>>
    BY <2>1 DEF streamVars, ParserInv, ParsedSoFar, StreamIsAt, ClockIsAt, ParsedInOrder,
                ParserNeverJoinsAcrossAGap
  <2>2. CASE CreateReceiverReport /\ UNCHANGED handed
    <3>1. totals'.first = totals.first
      BY <2>2 DEF CreateReceiverReport, IInv, TypeOK, StreamTypeOK
    <3> QED BY <2>2, <3>1 DEF CreateReceiverReport, ParserInv, ParsedSoFar, StreamIsAt,
                              ClockIsAt, ParsedInOrder, ParserNeverJoinsAcrossAGap
  <2>3. ASSUME NEW n \in Packets, ProcessImmediately(n, n), handed' = handed \cup {n}
        PROVE  ParserInv'
    <3>1. StreamTypeOK /\ ParsedSoFar
      BY DEF IInv, TypeOK, ParserInv
    <3>2. CASE streamIsFirstPacket
      BY <2>3, <3>1, <3>2, FedFirst DEF ParserInv
    <3>3. CASE ~streamIsFirstPacket
      <4>1. PICK q \in Packets : q \in handed /\ StreamIsAt(q)
        BY <3>3 DEF ParserInv
      <4>2. NearBy(q, n)
        BY DEF ShortStream, NearBy
      <4> QED BY <2>3, <3>1, <3>3, <4>1, <4>2, FedNearBy DEF ParserInv
    <3> QED BY <3>2, <3>3
  <2>4. UNCHANGED vars => UNCHANGED <<streamVars, handed>>
    BY DEF vars, streamVars
  <2> QED BY <2>1, <2>2, <2>3, <2>4, StepOfStreamIntact
<1> QED BY <1>1, <1>2, BytesStayInPlace, PTL DEF Spec
-----------------------------------------------------------------------------
(* What the steps do to the buffer, when no parser throws *)

\* As many indices below n as there are, each once, are all of them.
LEMMA DistinctIndices ==
  ASSUME NEW n \in Nat, NEW S, NEW s \in Seq(S),
         \A k \in 1 .. Len(s) : s[k] \in 1 .. n,
         \A j, k \in 1 .. Len(s) : j # k => s[j] # s[k]
  PROVE  /\ Len(s) <= n
         /\ Len(s) = n => \A i \in 1 .. n : \E k \in 1 .. Len(s) : s[k] = i
<1>1. s \in [1 .. Len(s) -> 1 .. n]
  <2>1. DOMAIN s = 1 .. Len(s) /\ s = [k \in 1 .. Len(s) |-> s[k]]
    OBVIOUS
  <2> QED BY <2>1
<1>2. s \in Injection(1 .. Len(s), 1 .. n)
  BY <1>1 DEF Injection, IsInjective
<1>3. /\ Len(s) \in Nat
      /\ IsFiniteSet(1 .. n) /\ Cardinality(1 .. n) = n /\ Cardinality(1 .. Len(s)) = Len(s)
  <2>1. Len(s) \in Nat
    OBVIOUS
  <2>2. ASSUME NEW m \in Nat
        PROVE  IsFiniteSet(1 .. m) /\ Cardinality(1 .. m) = m
    BY FS_Interval
  <2> QED BY <2>1, <2>2
<1>4. /\ Cardinality(1 .. Len(s)) <= Cardinality(1 .. n)
      /\ Cardinality(1 .. Len(s)) = Cardinality(1 .. n)
           <=> s \in Surjection(1 .. Len(s), 1 .. n)
  BY <1>2, <1>3, FS_Injection
<1>5. s \in Surjection(1 .. Len(s), 1 .. n)
        => \A i \in 1 .. n : \E k \in 1 .. Len(s) : s[k] = i
  BY DEF Surjection
<1> QED BY <1>3, <1>4, <1>5

\* The indices in s are of packets already passed, each named once.
NamesPassed(s) ==
  /\ \A k \in 1 .. Len(s) : s[k] \in 1 .. Len(buffered) /\ buffered[s[k]] \in handed
  /\ \A j, k \in 1 .. Len(s) : j # k => s[j] # s[k]

\* What the scan found so far are the packets just before the number it looks
\* for.
FoundInARow ==
  \A k \in 1 .. Len(removeList) :
    SeqDelta(nextSeqNumber, SeqNumber[buffered[removeList[k]]]) = Len(removeList) - k + 1

\* What the loops of ProcessBufferedPackets know wherever control is.
RemovalIsSound ==
  /\ pc # "flush" => current = NoPacket
  /\ pc \notin {"scan", "remove"} => removeList = <<>>
  /\ pc = "scan" => NamesPassed(removeList) /\ FoundInARow
  /\ pc = "scan" /\ ~anythingFound => scanFrom = 1
  /\ pc = "remove" => NamesPassed(pending)

LEMMA BufferFacts ==
  ASSUME IInv, BytesInPlace
  PROVE  /\ DOMAIN buffered = 1 .. Len(buffered) /\ Len(buffered) \in Nat
         /\ buffered \in Seq(Packets)
         /\ Len(chunkMap) = Len(buffered) /\ Len(buffered) <= MaxCorrectionLength
         /\ MaxCorrectionLength \in Nat /\ MaxCorrectionLength < SeqModulus
         /\ \A i \in 1 .. Len(buffered) :
              /\ i <= Len(chunkMap) /\ i \in Indices /\ buffered[i] \in Packets
              /\ ChunkAt(chunkMap[i]) = buffered[i]
<1>1. PoolInv
  BY DEF IInv, TypeOK, PoolInv
<1>2. /\ DOMAIN buffered = 1 .. Len(buffered) /\ Len(buffered) \in Nat
      /\ buffered \in Seq(Packets)
  BY DEF IInv, TypeOK, AssemblerTypeOK
<1>3. Len(chunkMap) = Len(buffered)
  BY DEF BytesInPlace
<1>4. /\ Len(buffered) <= MaxCorrectionLength
      /\ MaxCorrectionLength \in Nat /\ MaxCorrectionLength < SeqModulus
  BY <1>1, <1>2, <1>3, PoolSizes, AssemblerAssumption
<1>5. ASSUME NEW i \in 1 .. Len(buffered)
      PROVE  /\ i <= Len(chunkMap) /\ i \in Indices /\ buffered[i] \in Packets
             /\ ChunkAt(chunkMap[i]) = buffered[i]
  BY <1>2, <1>3, BytesInPlaceIsPayloadsIntact, IndexFacts DEF IInv, PayloadsIntact
<1> QED BY <1>2, <1>3, <1>4, <1>5

LEMMA PassNearestIntact ==
  ASSUME ~ParserThrows, IInv, BytesInPlace, PassNearestBufferedPacket
  PROVE  /\ pc \in {"flush", "full"}
         /\ UNCHANGED <<removeList, isFirstPacket, networkVars>>
         /\ \E i \in 1 .. Len(buffered) :
              /\ IsNearest(i) /\ PassPacket(buffered[i], buffered[i]) /\ RemoveBuffered(i)
              /\ \/ pc = "flush" /\ UNCHANGED <<pc, current, scanVars, pending>>
                 \/ pc = "full" /\ BeginProcessBufferedPackets(SeqNumber[buffered[i]])
<1>1. PICK i \in DOMAIN buffered :
        /\ IsNearest(i)
        /\ \/ /\ i <= Len(chunkMap)
              /\ PassPacket(buffered[i], ChunkAt(chunkMap[i]))
              /\ RemoveBuffered(i)
              /\ \/ pc = "flush" /\ UNCHANGED <<pc, current, scanVars, pending>>
                 \/ pc = "full" /\ BeginProcessBufferedPackets(SeqNumber[buffered[i]])
           \/ i > Len(chunkMap)
  BY DEF PassNearestBufferedPacket, CallbackThrows
<1>2. ~(i > Len(chunkMap))
  BY BufferFacts
<1> QED BY <1>1, <1>2, BufferFacts DEF PassNearestBufferedPacket

LEMMA ScanHitIntact ==
  ASSUME ~ParserThrows, IInv, BytesInPlace, ScanHit
  PROVE  /\ pc = "scan" /\ pc' = "scan"
         /\ UNCHANGED <<bufferVars, isFirstPacket, networkVars, current, pending>>
         /\ \E i \in 1 .. Len(buffered) :
              /\ SeqNumber[buffered[i]] = nextSeqNumber
              /\ PassPacket(buffered[i], buffered[i])
              /\ nextSeqNumber' = (nextSeqNumber + 1) % SeqModulus
              /\ anythingFound' = TRUE
              /\ removeList' = Append(removeList, i)
<1>1. PICK i \in DOMAIN buffered :
        /\ IsHit(i)
        /\ \/ /\ i <= Len(chunkMap)
              /\ PassPacket(buffered[i], ChunkAt(chunkMap[i]))
              /\ nextSeqNumber' = (nextSeqNumber + 1) % SeqModulus
              /\ anythingFound' = TRUE
              /\ removeList' = Append(removeList, i)
              /\ UNCHANGED <<pc, current, pending>>
           \/ i > Len(chunkMap)
  BY DEF ScanHit, CallbackThrows
<1>2. ~(i > Len(chunkMap))
  BY BufferFacts
<1> QED BY <1>1, <1>2, BufferFacts DEF ScanHit, IsHit

LEMMA RemovePassedIntact ==
  ASSUME IInv, BytesInPlace, RemovalIsSound, RemovePassed
  PROVE  /\ pc = "remove" /\ pc' = "remove"
         /\ UNCHANGED <<streamVars, removeList, isFirstPacket, correctVars, networkVars,
                        handed, current, scanVars>>
         /\ \E k \in 1 .. Len(pending) :
              /\ IsHighest(k) /\ pending[k] \in 1 .. Len(buffered)
              /\ RemoveBuffered(pending[k]) /\ pending' = RemoveAt(pending, k)
<1>1. /\ pc = "remove" /\ NamesPassed(pending)
      /\ UNCHANGED <<streamVars, removeList, isFirstPacket, correctVars, networkVars, handed>>
      /\ DOMAIN pending = 1 .. Len(pending)
  BY DEF RemovePassed, RemovalIsSound, IInv, TypeOK, AssemblerTypeOK
<1>2. PICK k \in DOMAIN pending :
        /\ IsHighest(k)
        /\ \/ /\ RemoveBuffered(pending[k]) /\ pending' = RemoveAt(pending, k)
              /\ UNCHANGED <<pc, current, scanVars>>
           \/ pending[k] > Len(chunkMap)
  BY DEF RemovePassed
<1>3. pending[k] \in 1 .. Len(buffered)
  BY <1>1 DEF NamesPassed
<1>4. ~(pending[k] > Len(chunkMap))
  BY <1>3, BufferFacts
<1> QED BY <1>1, <1>2, <1>3, <1>4

LEMMA RemovedShifts ==
  ASSUME IInv, BytesInPlace, NEW i \in 1 .. Len(buffered), RemoveBuffered(i)
  PROVE  /\ Len(buffered') = Len(buffered) - 1
         /\ \A j \in 1 .. Len(buffered) - 1 :
              buffered'[j] = IF j < i THEN buffered[j] ELSE buffered[j + 1]
BY BufferFacts, RemoveAtShifts DEF RemoveBuffered

\* One number further, everything is one more behind.
LEMMA NextIsOneFurther ==
  ASSUME NEW a \in SeqNumbers, NEW b \in SeqNumbers, SeqDelta(a, b) + 1 < SeqModulus
  PROVE  SeqDelta((a + 1) % SeqModulus, b) = SeqDelta(a, b) + 1
<1>1. SeqModulus \in Nat \ {0} /\ a \in 0 .. SeqModulus - 1 /\ b \in 0 .. SeqModulus - 1
  BY StreamAssumption DEF SeqNumbers
<1>2. (a + 1) % SeqModulus = IF a + 1 = SeqModulus THEN 0 ELSE a + 1
  BY <1>1, NextCycle
<1>3. (a + 1) % SeqModulus \in SeqNumbers
  BY <1>1, <1>2 DEF SeqNumbers
<1> DEFINE c == (a + 1) % SeqModulus
<1> HIDE DEF c
<1>4. SeqDelta(c, b) = IF c >= b THEN c - b ELSE c - b + SeqModulus
  BY <1>3, SeqDeltaType DEF c
<1>5. SeqDelta(a, b) = IF a >= b THEN a - b ELSE a - b + SeqModulus
  BY SeqDeltaType
<1>6. c = IF a + 1 = SeqModulus THEN 0 ELSE a + 1
  BY <1>2 DEF c
<1>7. SeqDelta(c, b) = SeqDelta(a, b) + 1
  BY <1>1, <1>4, <1>5, <1>6
<1> QED BY <1>7 DEF c

LEMMA ScanHitKeepsRemoval ==
  ASSUME ~ParserThrows, IInv, BytesInPlace, RemovalIsSound, ScanHit
  PROVE  RemovalIsSound'
<1> DEFINE m == Len(removeList)
<1>1. /\ pc = "scan" /\ pc' = "scan" /\ buffered' = buffered /\ current' = current
      /\ NamesPassed(removeList) /\ FoundInARow /\ current = NoPacket
  BY ScanHitIntact DEF bufferVars, RemovalIsSound
<1>2. PICK i \in 1 .. Len(buffered) :
        /\ SeqNumber[buffered[i]] = nextSeqNumber
        /\ PassPacket(buffered[i], buffered[i])
        /\ nextSeqNumber' = (nextSeqNumber + 1) % SeqModulus
        /\ anythingFound' = TRUE
        /\ removeList' = Append(removeList, i)
  BY ScanHitIntact
<1>3. /\ m \in Nat /\ removeList \in Seq(Indices) /\ i \in Indices
      /\ nextSeqNumber \in SeqNumbers /\ SeqModulus \in Nat \ {0, 1, 2, 3}
  BY BufferFacts, StreamAssumption DEF IInv, TypeOK, AssemblerTypeOK
<1>4. /\ Len(removeList') = m + 1 /\ removeList' \in Seq(Indices)
      /\ \A k \in 1 .. m : removeList'[k] = removeList[k]
      /\ removeList'[m + 1] = i
  BY <1>2, <1>3, AppendProperties
<1>5. handed' = handed \cup {buffered[i]}
  BY <1>2 DEF PassPacket
<1>6. \A k \in 1 .. m :
        /\ removeList[k] \in 1 .. Len(buffered) /\ buffered[removeList[k]] \in handed
        /\ SeqDelta(nextSeqNumber, SeqNumber[buffered[removeList[k]]]) = m - k + 1
        /\ SeqNumber[buffered[removeList[k]]] \in SeqNumbers
  BY <1>1, HeaderType, BufferFacts DEF NamesPassed, FoundInARow
<1>7. \A x \in SeqNumbers : SeqDelta(x, x) = 0
  <2> SUFFICES ASSUME NEW x \in SeqNumbers PROVE SeqDelta(x, x) = 0
    OBVIOUS
  <2>1. x \in Int
    BY <1>3 DEF SeqNumbers
  <2> QED BY <2>1, SeqDeltaType
<1>8. \A k \in 1 .. m : removeList[k] # i
  <2> SUFFICES ASSUME NEW k \in 1 .. m, removeList[k] = i PROVE FALSE
    OBVIOUS
  <2>1. SeqDelta(nextSeqNumber, SeqNumber[buffered[i]]) = m - k + 1
    BY <1>6
  <2>2. SeqDelta(nextSeqNumber, nextSeqNumber) = 0
    BY <1>3, <1>7
  <2> QED BY <1>2, <1>3, <2>1, <2>2
<1>9. NamesPassed(removeList)'
  <2>1. \A k \in 1 .. m + 1 :
          removeList'[k] \in 1 .. Len(buffered) /\ buffered[removeList'[k]] \in handed'
    <3> SUFFICES ASSUME NEW k \in 1 .. m + 1
                 PROVE  removeList'[k] \in 1 .. Len(buffered) /\ buffered[removeList'[k]] \in handed'
      OBVIOUS
    <3>1. CASE k \in 1 .. m
      BY <1>4, <1>5, <1>6, <3>1
    <3>2. CASE k = m + 1
      BY <1>4, <1>5, <3>2
    <3> QED BY <1>3, <3>1, <3>2
  <2>2. \A j, k \in 1 .. m + 1 : j # k => removeList'[j] # removeList'[k]
    <3> SUFFICES ASSUME NEW j \in 1 .. m + 1, NEW k \in 1 .. m + 1, j # k
                 PROVE  removeList'[j] # removeList'[k]
      OBVIOUS
    <3>1. CASE j \in 1 .. m /\ k \in 1 .. m
      BY <1>1, <1>4, <3>1 DEF NamesPassed
    <3>2. CASE j = m + 1 /\ k \in 1 .. m
      BY <1>4, <1>8, <3>2
    <3>3. CASE j \in 1 .. m /\ k = m + 1
      BY <1>4, <1>8, <3>3
    <3> QED BY <1>3, <3>1, <3>2, <3>3
  <2> QED BY <1>1, <1>4, <2>1, <2>2 DEF NamesPassed
<1>10. m + 1 < SeqModulus
  <2>1. Len(removeList') <= Len(buffered)
    <3>1. /\ \A k \in 1 .. Len(removeList') : removeList'[k] \in 1 .. Len(buffered)
          /\ \A j, k \in 1 .. Len(removeList') : j # k => removeList'[j] # removeList'[k]
      BY <1>1, <1>9 DEF NamesPassed
    <3> QED BY <1>4, <3>1, BufferFacts, DistinctIndices
  <2> QED BY <1>3, <1>4, <2>1, BufferFacts
<1>11. FoundInARow'
  <2> SUFFICES ASSUME NEW k \in 1 .. m + 1
               PROVE  SeqDelta(nextSeqNumber', SeqNumber[buffered[removeList'[k]]]) = m + 1 - k + 1
    BY <1>1, <1>4 DEF FoundInARow
  <2>1. CASE k \in 1 .. m
    <3>1. /\ SeqDelta(nextSeqNumber, SeqNumber[buffered[removeList[k]]]) = m - k + 1
          /\ SeqNumber[buffered[removeList[k]]] \in SeqNumbers
      BY <1>6, <2>1
    <3>2. m - k + 1 + 1 < SeqModulus
      BY <1>3, <1>10, <2>1
    <3>3. SeqDelta(nextSeqNumber', SeqNumber[buffered[removeList[k]]]) = m - k + 1 + 1
      BY <1>2, <1>3, <3>1, <3>2, NextIsOneFurther
    <3> QED BY <1>3, <1>4, <2>1, <3>3
  <2>2. CASE k = m + 1
    <3>1. SeqDelta(nextSeqNumber, nextSeqNumber) = 0
      BY <1>3, <1>7
    <3>2. SeqDelta(nextSeqNumber', nextSeqNumber) = 1
      BY <1>2, <1>3, <3>1, NextIsOneFurther
    <3> QED BY <1>2, <1>3, <1>4, <2>2, <3>2
  <2> QED BY <1>3, <2>1, <2>2
<1> QED BY <1>1, <1>2, <1>9, <1>11 DEF RemovalIsSound

\* The index removed is the highest, so that the others stay where they are.
LEMMA RemovePassedKeepsRemoval ==
  ASSUME IInv, BytesInPlace, RemovalIsSound, RemovePassed
  PROVE  RemovalIsSound'
<1>1. /\ pc = "remove" /\ pc' = "remove" /\ handed' = handed
      /\ current' = current /\ current = NoPacket /\ NamesPassed(pending)
  BY RemovePassedIntact DEF RemovalIsSound
<1>2. PICK k \in 1 .. Len(pending) :
        /\ IsHighest(k) /\ pending[k] \in 1 .. Len(buffered)
        /\ RemoveBuffered(pending[k]) /\ pending' = RemoveAt(pending, k)
  BY RemovePassedIntact
<1> DEFINE Old(j) == IF j < k THEN j ELSE j + 1
<1>3. /\ pending \in Seq(Indices) /\ Len(pending) \in Nat /\ DOMAIN pending = 1 .. Len(pending)
      /\ Len(buffered) \in Nat
  BY BufferFacts DEF IInv, TypeOK, AssemblerTypeOK
<1>4. /\ Len(pending') = Len(pending) - 1
      /\ \A j \in 1 .. Len(pending) - 1 : pending'[j] = pending[Old(j)]
  BY <1>2, <1>3, RemoveAtShifts
<1>5. /\ \A j \in 1 .. Len(pending) - 1 : Old(j) \in 1 .. Len(pending) /\ Old(j) # k
      /\ \A i, j \in 1 .. Len(pending) - 1 : i # j => Old(i) # Old(j)
  BY <1>3
<1> HIDE DEF Old
<1>6. /\ Len(buffered') = Len(buffered) - 1
      /\ \A j \in 1 .. Len(buffered) - 1 :
           buffered'[j] = IF j < pending[k] THEN buffered[j] ELSE buffered[j + 1]
  BY <1>2, RemovedShifts
<1>7. \A j \in 1 .. Len(pending) : j # k => pending[j] < pending[k]
  <2> SUFFICES ASSUME NEW j \in 1 .. Len(pending), j # k PROVE pending[j] < pending[k]
    OBVIOUS
  <2>1. pending[j] <= pending[k] /\ pending[j] # pending[k]
    BY <1>1, <1>2, <1>3 DEF IsHighest, NamesPassed
  <2>2. pending[j] \in Int /\ pending[k] \in Int
    BY <1>1, <1>3 DEF NamesPassed
  <2> QED BY <2>1, <2>2
<1>8. ASSUME NEW j \in 1 .. Len(pending')
      PROVE  pending'[j] \in 1 .. Len(buffered') /\ buffered'[pending'[j]] \in handed'
  <2>1. /\ Old(j) \in 1 .. Len(pending) /\ pending'[j] = pending[Old(j)]
        /\ pending[Old(j)] < pending[k]
    BY <1>4, <1>5, <1>7
  <2>2. pending[Old(j)] \in 1 .. Len(buffered) /\ buffered[pending[Old(j)]] \in handed
    BY <1>1, <2>1 DEF NamesPassed
  <2>3. pending[Old(j)] \in 1 .. Len(buffered) - 1
    BY <1>2, <1>3, <2>1, <2>2
  <2> QED BY <1>1, <1>6, <2>1, <2>2, <2>3
<1>9. \A i, j \in 1 .. Len(pending') : i # j => pending'[i] # pending'[j]
  BY <1>1, <1>4, <1>5 DEF NamesPassed
<1>10. NamesPassed(pending)'
  BY <1>8, <1>9 DEF NamesPassed
<1> QED BY <1>1, <1>10 DEF RemovalIsSound

LEMMA StepKeepsRemoval ==
  ASSUME ~ParserThrows, IInv, BytesInPlace, RemovalIsSound, Next
  PROVE  RemovalIsSound'
<1>1. ASSUME NEW n \in Packets, ProcessPacket(n)
      PROVE  RemovalIsSound'
  <2>1. pc = "idle" /\ removeList = <<>> /\ current = NoPacket
    BY <1>1 DEF ProcessPacket, ProcessFirstPacket, ProcessNextPacket, ProcessDiscontinuity,
                ProcessRepeatedPacket, BufferPacket, Deliver, RemovalIsSound
  <2>2. removeList' = <<>>
    BY <1>1, <2>1 DEF ProcessPacket, ProcessFirstPacket, ProcessNextPacket, ProcessDiscontinuity,
                      ProcessRepeatedPacket, BufferPacket
  <2>3. NamesPassed(removeList)' /\ FoundInARow'
    <3>1. Len(removeList') = 0
      BY <2>2
    <3> QED BY <3>1 DEF NamesPassed, FoundInARow
  <2>4. \/ pc' \in {"idle", "full"} /\ current' = NoPacket
        \/ pc' = "scan" /\ current' = NoPacket /\ scanFrom' = 1
        \/ pc' = "flush"
    BY <1>1, <2>1 DEF ProcessPacket, ProcessFirstPacket, ProcessNextPacket, ProcessDiscontinuity,
                      ProcessRepeatedPacket, BufferPacket, Return, Unwind,
                      BeginProcessBufferedPackets
  <2> QED BY <2>2, <2>3, <2>4 DEF RemovalIsSound
<1>2. CASE PassNearestBufferedPacket
  <2>1. /\ removeList' = <<>> /\ current' = current
        /\ \/ pc = "flush" /\ pc' = "flush"
           \/ pc = "full" /\ pc' = "scan" /\ scanFrom' = 1
    BY <1>2, PassNearestIntact DEF RemovalIsSound, BeginProcessBufferedPackets
  <2>2. Len(removeList') = 0
    BY <2>1
  <2>3. NamesPassed(removeList)' /\ FoundInARow'
    BY <2>2 DEF NamesPassed, FoundInARow
  <2> QED BY <2>1, <2>3 DEF RemovalIsSound
<1>3. CASE FlushEnds \/ RemoveEnds
  BY <1>3 DEF FlushEnds, RemoveEnds, Return, Unwind, RemovalIsSound
<1>4. CASE ScanAgain
  <2>1. /\ pc = "scan" /\ pc' = "scan" /\ scanFrom' = 1
        /\ UNCHANGED <<removeList, buffered, handed, nextSeqNumber, current>>
    BY <1>4 DEF ScanAgain, bufferVars
  <2>2. NamesPassed(removeList)' /\ FoundInARow'
    BY <2>1 DEF RemovalIsSound, NamesPassed, FoundInARow
  <2> QED BY <2>1, <2>2 DEF RemovalIsSound
<1>5. CASE ScanEnds
  <2>1. pc = "scan" /\ NamesPassed(removeList) /\ handed' = handed /\ current = NoPacket
    BY <1>5 DEF ScanEnds, RemovalIsSound
  <2>2. \/ pc' = "idle" /\ removeList' = <<>> /\ current' = NoPacket
        \/ /\ pc' = "remove" /\ pending' = removeList /\ buffered' = buffered
           /\ current' = current
    BY <1>5 DEF ScanEnds, Return, Unwind, bufferVars
  <2>3. CASE pc' = "remove" /\ pending' = removeList /\ buffered' = buffered
    <3>1. NamesPassed(pending)'
      BY <2>1, <2>3 DEF NamesPassed
    <3> QED BY <2>1, <2>2, <2>3, <3>1 DEF RemovalIsSound
  <2> QED BY <2>2, <2>3 DEF RemovalIsSound
<1>6. CASE SendReport
  BY <1>6 DEF SendReport, RemovalIsSound, bufferVars, scanVars
<1> QED BY <1>1, <1>2, <1>3, <1>4, <1>5, <1>6, ScanHitKeepsRemoval, RemovePassedKeepsRemoval
        DEF Next, Continue

LEMMA RemovalStaysSound ==
  ASSUME ~ParserThrows
  PROVE  Spec => []RemovalIsSound
<1>1. Init => RemovalIsSound
  BY DEF Init, RemovalIsSound
<1>2. IInv /\ BytesInPlace /\ RemovalIsSound /\ [Next]_vars => RemovalIsSound'
  <2>1. CASE UNCHANGED vars
    BY <2>1 DEF vars, scanVars, RemovalIsSound, NamesPassed, FoundInARow
  <2> QED BY <2>1, StepKeepsRemoval
<1> QED BY <1>1, <1>2, BytesStayInPlace, PTL DEF Spec
-----------------------------------------------------------------------------
(* What was received and what became of it, when no parser throws *)

Arrived == {n \in Packets : arrivals[n] > 0}

\* Only packets received are in the assembler or beyond it, and the first of
\* them began the stream.
HistoryIsSound ==
  /\ arrivals \in [Packets -> Nat]
  /\ parsed \in Seq(Packets)
  /\ handed \subseteq Arrived
  /\ current \in Arrived \cup {NoPacket}
  /\ \A i \in 1 .. Len(buffered) : buffered[i] \in Arrived
  /\ isFirstPacket <=> streamIsFirstPacket
  /\ isFirstPacket => Arrived = {} /\ pc = "idle"
  /\ ~isFirstPacket => \E f \in Arrived : f = totals.first

\* What RtpStream makes of a packet handed to it.
LEMMA PassedToStream ==
  ASSUME StreamTypeOK, parsed \in Seq(Packets), NEW n \in Packets, PassPacket(n, n)
  PROVE  /\ handed' = handed \cup {n}
         /\ previousCorrectSeqNumber' = SeqNumber[n]
         /\ previousCorrectTimestamp' = Timestamp[n]
         /\ ~streamIsFirstPacket'
         /\ totals'.first = IF streamIsFirstPacket THEN n ELSE totals.first
         /\ parsed' \in Seq(Packets) /\ Len(parsed) <= Len(parsed')
         /\ \A i \in 1 .. Len(parsed) : parsed'[i] = parsed[i]
         /\ ~IsStale(n) =>
              /\ previousSeqNumber' = SeqNumber[n]
              /\ n \in EmptyPackets \/ \E i \in 1 .. Len(parsed') : parsed'[i] = n
<1>1. /\ ProcessImmediately(n, n) /\ handed' = handed \cup {n}
      /\ previousCorrectSeqNumber' = SeqNumber[n] /\ previousCorrectTimestamp' = Timestamp[n]
  BY DEF PassPacket
<1>2. Len(parsed) \in Nat
  OBVIOUS
<1>3. CASE IsStale(n) /\ UNCHANGED streamVars
  BY <1>1, <1>2, <1>3 DEF IsStale, streamVars
<1>4. CASE /\ ~IsStale(n) /\ CountPacket(n) /\ FeedParser(n, n)
           /\ previousSeqNumber' = SeqNumber[n] /\ streamIsFirstPacket' = FALSE
  <2>1. totals'.first = IF streamIsFirstPacket THEN n ELSE totals.first
    BY <1>4 DEF CountPacket, StreamTypeOK
  <2>2. \/ n \in EmptyPackets /\ parsed' = parsed
        \/ parsed' = Append(parsed, n)
    BY <1>4 DEF FeedParser
  <2>3. CASE n \in EmptyPackets /\ parsed' = parsed
    BY <1>1, <1>2, <1>4, <2>1, <2>3
  <2>4. CASE parsed' = Append(parsed, n)
    <3>1. /\ parsed' \in Seq(Packets) /\ Len(parsed') = Len(parsed) + 1
          /\ \A i \in 1 .. Len(parsed) : parsed'[i] = parsed[i]
          /\ parsed'[Len(parsed) + 1] = n
      BY <2>4, AppendProperties
    <3>2. Len(parsed) + 1 \in 1 .. Len(parsed')
      BY <1>2, <3>1
    <3> QED BY <1>1, <1>2, <1>4, <2>1, <3>1, <3>2
  <2> QED BY <2>2, <2>3, <2>4
<1> QED BY <1>1, <1>3, <1>4 DEF ProcessImmediately

LEMMA ArrivalIsCounted ==
  ASSUME HistoryIsSound, NEW n \in Packets, Deliver(n)
  PROVE  /\ arrivals' \in [Packets -> Nat] /\ Arrived' = Arrived \cup {n}
         /\ arrivals'[n] = arrivals[n] + 1
         /\ \A m \in Packets : m # n => arrivals'[m] = arrivals[m]
<1>1. arrivals \in [Packets -> Nat] /\ arrivals' = [arrivals EXCEPT ![n] = @ + 1]
  BY DEF HistoryIsSound, Deliver
<1>2. /\ arrivals' \in [Packets -> Nat] /\ arrivals'[n] = arrivals[n] + 1
      /\ arrivals[n] \in Nat
      /\ \A m \in Packets : m # n => arrivals'[m] = arrivals[m]
  BY <1>1
<1> QED BY <1>2 DEF Arrived

LEMMA ReceivedKeepsHistory ==
  ASSUME ~ParserThrows, IInv, BytesInPlace, HistoryIsSound, NEW n \in Packets, ProcessPacket(n)
  PROVE  HistoryIsSound'
<1>1. /\ Deliver(n) /\ pc = "idle"
      /\ \/ ~isFirstPacket /\ isFirstPacket' = isFirstPacket
         \/ isFirstPacket /\ PassPacket(n, n) /\ isFirstPacket' = FALSE
      /\ \/ PassPacket(n, n)
         \/ UNCHANGED <<streamVars, handed>>
      /\ buffered' = buffered \/ buffered' = Append(buffered, n)
      /\ current' \in {current, NoPacket, n}
  BY DEF ProcessPacket, ProcessFirstPacket, ProcessNextPacket, ProcessDiscontinuity,
         ProcessRepeatedPacket, BufferPacket, Deliver, CallbackThrows, Return, Unwind,
         BeginProcessBufferedPackets, bufferVars
<1>2. arrivals' \in [Packets -> Nat] /\ Arrived' = Arrived \cup {n}
  BY <1>1, ArrivalIsCounted
<1>3. StreamTypeOK /\ parsed \in Seq(Packets)
  BY DEF IInv, TypeOK, HistoryIsSound
<1>4. \A i \in 1 .. Len(buffered') : buffered'[i] \in Arrived'
  <2> SUFFICES ASSUME NEW i \in 1 .. Len(buffered') PROVE buffered'[i] \in Arrived \cup {n}
    BY <1>2
  <2>1. CASE buffered' = buffered
    BY <2>1 DEF HistoryIsSound
  <2>2. CASE buffered' = Append(buffered, n)
    <3>1. /\ Len(buffered') = Len(buffered) + 1 /\ Len(buffered) \in Nat
          /\ \A j \in 1 .. Len(buffered) : buffered'[j] = buffered[j]
          /\ buffered'[Len(buffered) + 1] = n
      BY <2>2, BufferFacts, AppendProperties
    <3>2. i = Len(buffered) + 1 \/ i \in 1 .. Len(buffered)
      BY <3>1
    <3> QED BY <3>1, <3>2 DEF HistoryIsSound
  <2> QED BY <1>1, <2>1, <2>2
<1>5. handed' \subseteq Arrived' /\ current' \in Arrived' \cup {NoPacket}
  BY <1>1, <1>2 DEF HistoryIsSound, PassPacket
<1>6. CASE PassPacket(n, n)
  <2>1. /\ ~streamIsFirstPacket' /\ parsed' \in Seq(Packets) /\ ~isFirstPacket'
        /\ totals'.first = IF streamIsFirstPacket THEN n ELSE totals.first
    BY <1>1, <1>3, <1>6, PassedToStream
  <2>2. \E f \in Arrived' : f = totals'.first
    BY <1>2, <2>1 DEF HistoryIsSound
  <2> QED BY <1>2, <1>4, <1>5, <2>1, <2>2 DEF HistoryIsSound
<1>7. CASE UNCHANGED <<streamVars, handed>> /\ ~isFirstPacket /\ ~isFirstPacket'
  <2>1. /\ streamIsFirstPacket' = streamIsFirstPacket /\ totals' = totals /\ parsed' = parsed
    BY <1>7 DEF streamVars
  <2> QED BY <1>2, <1>4, <1>5, <1>7, <2>1 DEF HistoryIsSound
<1> QED BY <1>1, <1>6, <1>7

LEMMA ContinueKeepsHistory ==
  ASSUME ~ParserThrows, IInv, BytesInPlace, RemovalIsSound, HistoryIsSound, Continue
  PROVE  HistoryIsSound'
<1>1. pc # "idle" /\ isFirstPacket' = isFirstPacket /\ ~isFirstPacket /\ arrivals' = arrivals
  BY DEF Continue, PassNearestBufferedPacket, FlushEnds, ScanHit, ScanAgain, ScanEnds,
         RemovePassed, RemoveEnds, HistoryIsSound, networkVars
<1>2. Arrived' = Arrived /\ Arrived \subseteq Packets
  BY <1>1 DEF Arrived
<1>3. current' \in {current, NoPacket}
  BY RemovePassedIntact DEF Continue, PassNearestBufferedPacket, FlushEnds, ScanHit, ScanAgain,
     ScanEnds, RemoveEnds, Return, Unwind, BeginProcessBufferedPackets
<1>4. \A i \in 1 .. Len(buffered') : buffered'[i] \in Arrived
  <2>1. CASE buffered' = buffered
    BY <2>1 DEF HistoryIsSound
  <2>2. CASE buffered' = <<>>
    <3>1. Len(buffered') = 0
      BY <2>2
    <3> QED BY <3>1
  <2>3. ASSUME NEW i \in 1 .. Len(buffered), RemoveBuffered(i)
        PROVE  \A j \in 1 .. Len(buffered') : buffered'[j] \in Arrived
    <3>1. /\ Len(buffered') = Len(buffered) - 1 /\ Len(buffered) \in Nat
          /\ \A j \in 1 .. Len(buffered) - 1 :
               buffered'[j] = IF j < i THEN buffered[j] ELSE buffered[j + 1]
      BY <2>3, RemovedShifts, BufferFacts
    <3>2. \A j \in 1 .. Len(buffered) - 1 : j \in 1 .. Len(buffered) /\ j + 1 \in 1 .. Len(buffered)
      BY <3>1
    <3> QED BY <3>1, <3>2 DEF HistoryIsSound
  <2>4. \/ buffered' = buffered \/ buffered' = <<>>
        \/ \E i \in 1 .. Len(buffered) : RemoveBuffered(i)
    BY PassNearestIntact, RemovePassedIntact
    DEF Continue, FlushEnds, ScanHit, ScanAgain, ScanEnds, RemoveEnds, bufferVars
  <2> QED BY <2>1, <2>2, <2>3, <2>4
<1>5. StreamTypeOK /\ parsed \in Seq(Packets)
  BY DEF IInv, TypeOK, HistoryIsSound
<1>6. \/ \E n \in Arrived : PassPacket(n, n)
      \/ UNCHANGED <<streamVars, handed>>
  <2>1. CASE PassNearestBufferedPacket \/ ScanHit
    <3>1. \E i \in 1 .. Len(buffered) : PassPacket(buffered[i], buffered[i])
      BY <2>1, PassNearestIntact, ScanHitIntact
    <3> QED BY <3>1 DEF HistoryIsSound
  <2>2. CASE FlushEnds
    <3>1. current \in Arrived /\ PassPacket(current, current)
      BY <2>2 DEF FlushEnds, HistoryIsSound, IInv, TypeOK, AssemblerTypeOK
    <3> QED BY <3>1
  <2>3. CASE ScanAgain \/ ScanEnds \/ RemovePassed \/ RemoveEnds
    BY <2>3 DEF ScanAgain, ScanEnds, RemovePassed, RemoveEnds
  <2> QED BY <2>1, <2>2, <2>3 DEF Continue
<1>7. CASE \E n \in Arrived : PassPacket(n, n)
  <2>1. PICK n \in Arrived : PassPacket(n, n)
    BY <1>7
  <2>2. /\ ~streamIsFirstPacket' /\ parsed' \in Seq(Packets) /\ handed' = handed \cup {n}
        /\ totals'.first = totals.first
    BY <1>1, <1>2, <1>5, <2>1, PassedToStream DEF HistoryIsSound
  <2> QED BY <1>1, <1>2, <1>3, <1>4, <2>2 DEF HistoryIsSound
<1>8. CASE UNCHANGED <<streamVars, handed>>
  <2>1. /\ streamIsFirstPacket' = streamIsFirstPacket /\ totals' = totals /\ parsed' = parsed
        /\ handed' = handed
    BY <1>8 DEF streamVars
  <2> QED BY <1>1, <1>2, <1>3, <1>4, <2>1 DEF HistoryIsSound
<1> QED BY <1>6, <1>7, <1>8

LEMMA ReportKeepsHistory ==
  ASSUME IInv, HistoryIsSound, SendReport
  PROVE  HistoryIsSound'
<1>1. /\ UNCHANGED <<arrivals, handed, current, isFirstPacket, buffered, pc>>
      /\ UNCHANGED <<parsed, streamIsFirstPacket>> /\ totals'.first = totals.first
  BY DEF SendReport, CreateReceiverReport, bufferVars, IInv, TypeOK, StreamTypeOK
<1>2. Arrived' = Arrived
  BY <1>1 DEF Arrived
<1> QED BY <1>1, <1>2 DEF HistoryIsSound

LEMMA HistoryStaysSound ==
  ASSUME ~ParserThrows
  PROVE  Spec => []HistoryIsSound
<1>1. Init => HistoryIsSound
  <2> SUFFICES ASSUME Init PROVE HistoryIsSound
    OBVIOUS
  <2>1. /\ arrivals = [n \in Packets |-> 0] /\ parsed = <<>> /\ handed = {} /\ buffered = <<>>
        /\ current = NoPacket /\ isFirstPacket = TRUE /\ streamIsFirstPacket = TRUE /\ pc = "idle"
    BY DEF Init, StreamInit
  <2>2. Arrived = {} /\ Len(buffered) = 0 /\ parsed \in Seq(Packets)
    BY <2>1 DEF Arrived
  <2> QED BY <2>1, <2>2 DEF HistoryIsSound
<1>2. IInv /\ BytesInPlace /\ RemovalIsSound /\ HistoryIsSound /\ [Next]_vars => HistoryIsSound'
  <2>1. CASE UNCHANGED vars
    BY <2>1 DEF vars, streamVars, networkVars, HistoryIsSound, Arrived
  <2> QED BY <2>1, ReceivedKeepsHistory, ContinueKeepsHistory, ReportKeepsHistory DEF Next
<1> QED BY <1>1, <1>2, BytesStayInPlace, RemovalStaysSound, PTL DEF Spec
-----------------------------------------------------------------------------
(* Nothing is forgotten, when no parser throws *)

\* The numbers the assembler compares with are those of a packet it passed.
ComparesWithPassed ==
  /\ handed \subseteq Packets
  /\ ~isFirstPacket => \E p \in handed : previousCorrectSeqNumber = SeqNumber[p]

LEMMA PassedIsHanded ==
  ASSUME ComparesWithPassed, NEW n \in Packets, PassPacket(n, n)
  PROVE  ComparesWithPassed' /\ handed' = handed \cup {n}
BY DEF PassPacket, ComparesWithPassed

LEMMA StepKeepsComparison ==
  ASSUME ~ParserThrows, IInv, BytesInPlace, ComparesWithPassed, Next
  PROVE  ComparesWithPassed'
<1>1. ASSUME NEW n \in Packets, ProcessPacket(n)
      PROVE  ComparesWithPassed'
  <2>1. \/ PassPacket(n, n)
        \/ UNCHANGED <<handed, isFirstPacket, previousCorrectSeqNumber>>
    BY <1>1 DEF ProcessPacket, ProcessFirstPacket, ProcessNextPacket, ProcessDiscontinuity,
                ProcessRepeatedPacket, BufferPacket, correctVars
  <2> QED BY <2>1, PassedIsHanded DEF ComparesWithPassed
<1>2. CASE PassNearestBufferedPacket \/ ScanHit
  <2>1. \E i \in 1 .. Len(buffered) : PassPacket(buffered[i], buffered[i])
    BY <1>2, PassNearestIntact, ScanHitIntact
  <2> QED BY <2>1, BufferFacts, PassedIsHanded
<1>3. CASE FlushEnds
  <2>1. current \in Packets
    BY <1>3 DEF FlushEnds, IInv, TypeOK, AssemblerTypeOK
  <2> QED BY <1>3, <2>1, PassedIsHanded DEF FlushEnds
<1>4. CASE ScanAgain \/ ScanEnds \/ RemovePassed \/ RemoveEnds \/ SendReport
  BY <1>4 DEF ScanAgain, ScanEnds, RemovePassed, RemoveEnds, SendReport, correctVars,
              ComparesWithPassed
<1> QED BY <1>1, <1>2, <1>3, <1>4 DEF Next, Continue

\* A number the assembler takes for a repetition is that of a packet passed.
LEMMA RepeatedWasHanded ==
  ASSUME NumbersFollowOrder, ShortStream, ComparesWithPassed, NEW n \in Packets,
         ~isFirstPacket, Delta(n) = 0
  PROVE  n \in handed
<1>1. PICK p \in handed : previousCorrectSeqNumber = SeqNumber[p]
  BY DEF ComparesWithPassed
<1>2. p \in Packets /\ SeqDelta(SeqNumber[n], SeqNumber[p]) = 0
  BY <1>1 DEF ComparesWithPassed, Delta
<1>3. n \in Nat /\ p \in Nat /\ (SeqModulus - 1) \div 2 \in Nat
  BY <1>2, StreamAssumption
<1>4. n = p
  BY <1>2, <1>3, NumbersTellTheOrder DEF ShortStream, NearBy
<1> QED BY <1>4

\* A packet received is with RtpStream, waits for a flush, or is in the buffer.
IsKept(n) == n \in handed \/ n = current \/ \E i \in 1 .. Len(buffered) : buffered[i] = n

EverythingIsKept == \A n \in Packets : arrivals[n] > 0 => IsKept(n)

LEMMA RemovedIsHanded ==
  ASSUME IInv, BytesInPlace, NEW i \in 1 .. Len(buffered), RemoveBuffered(i),
         buffered[i] \in handed', handed \subseteq handed', current' = current,
         NEW n, IsKept(n)
  PROVE  IsKept(n)'
<1>1. CASE n \in handed \/ n = current
  BY <1>1 DEF IsKept
<1>2. ASSUME NEW j \in 1 .. Len(buffered), buffered[j] = n
      PROVE  IsKept(n)'
  <2>1. /\ Len(buffered') = Len(buffered) - 1 /\ Len(buffered) \in Nat
        /\ \A k \in 1 .. Len(buffered) - 1 :
             buffered'[k] = IF k < i THEN buffered[k] ELSE buffered[k + 1]
    BY RemovedShifts, BufferFacts
  <2>2. CASE j = i
    BY <1>2, <2>2 DEF IsKept
  <2>3. CASE j < i
    <3>1. j \in 1 .. Len(buffered') /\ buffered'[j] = n
      BY <1>2, <2>1, <2>3
    <3> QED BY <3>1 DEF IsKept
  <2>4. CASE j > i
    <3>1. j - 1 \in 1 .. Len(buffered) - 1 /\ ~(j - 1 < i) /\ j - 1 + 1 = j
      BY <2>1, <2>4
    <3>2. j - 1 \in 1 .. Len(buffered') /\ buffered'[j - 1] = n
      BY <1>2, <2>1, <3>1
    <3> QED BY <3>2 DEF IsKept
  <2> QED BY <2>1, <2>2, <2>3, <2>4
<1> QED BY <1>1, <1>2 DEF IsKept

LEMMA ReceivedIsKept ==
  ASSUME IInv, BytesInPlace, RemovalIsSound, HistoryIsSound, EverythingIsKept,
         NEW n \in Packets, ProcessPacket(n), ProcessRepeatedPacket(n) => n \in handed
  PROVE  EverythingIsKept'
<1>1. /\ pc = "idle" /\ current = NoPacket
      /\ \A m \in Packets : arrivals'[m] > 0 => m = n \/ arrivals[m] > 0
  <2>1. pc = "idle" /\ Deliver(n)
    BY DEF ProcessPacket, ProcessFirstPacket, ProcessNextPacket, ProcessDiscontinuity,
           ProcessRepeatedPacket, BufferPacket, Deliver
  <2>2. \A m \in Packets : m # n => arrivals'[m] = arrivals[m]
    BY <2>1, ArrivalIsCounted
  <2> QED BY <2>1, <2>2 DEF RemovalIsSound
<1>2. \A m \in Packets : m # NoPacket
  BY StreamAssumption DEF NoPacket
<1>3. /\ handed \subseteq handed'
      /\ buffered' = buffered \/ buffered' = Append(buffered, n)
  BY DEF ProcessPacket, ProcessFirstPacket, ProcessNextPacket, ProcessDiscontinuity,
         ProcessRepeatedPacket, BufferPacket, PassPacket, bufferVars
<1>4. ASSUME NEW m \in Packets, IsKept(m)
      PROVE  IsKept(m)'
  <2>1. CASE m \in handed
    BY <1>3, <2>1 DEF IsKept
  <2>2. ASSUME NEW i \in 1 .. Len(buffered), buffered[i] = m
        PROVE  IsKept(m)'
    <3>1. i \in 1 .. Len(buffered') /\ buffered'[i] = m
      BY <1>3, <2>2, BufferFacts, AppendProperties
    <3> QED BY <3>1 DEF IsKept
  <2> QED BY <1>1, <1>2, <1>4, <2>1, <2>2 DEF IsKept
<1>5. IsKept(n)'
  <2>1. CASE ProcessFirstPacket(n) \/ ProcessNextPacket(n)
    BY <2>1 DEF ProcessFirstPacket, ProcessNextPacket, PassPacket, IsKept
  <2>2. CASE ProcessDiscontinuity(n)
    BY <2>2 DEF ProcessDiscontinuity, IsKept
  <2>3. CASE ProcessRepeatedPacket(n)
    BY <1>3, <2>3 DEF IsKept
  <2>4. CASE BufferPacket(n)
    <3>1. buffered' = Append(buffered, n) /\ buffered \in Seq(Packets)
      BY <2>4, BufferFacts DEF BufferPacket
    <3>2. Len(buffered) + 1 \in 1 .. Len(buffered') /\ buffered'[Len(buffered) + 1] = n
      BY <3>1
    <3> QED BY <3>2 DEF IsKept
  <2> QED BY <2>1, <2>2, <2>3, <2>4 DEF ProcessPacket
<1>6. ASSUME NEW m \in Packets, arrivals'[m] > 0
      PROVE  IsKept(m)'
  BY <1>1, <1>4, <1>5, <1>6 DEF EverythingIsKept
<1> QED BY <1>6 DEF EverythingIsKept

LEMMA ContinueKeepsEverything ==
  ASSUME ~ParserThrows, IInv, BytesInPlace, RemovalIsSound, EverythingIsKept,
         Continue \/ SendReport
  PROVE  EverythingIsKept'
<1>1. ASSUME UNCHANGED arrivals, \A n \in Packets : IsKept(n) => IsKept(n)'
      PROVE  EverythingIsKept'
  BY <1>1 DEF EverythingIsKept
<1>2. ASSUME UNCHANGED <<arrivals, current, buffered>>, handed \subseteq handed'
      PROVE  EverythingIsKept'
  BY <1>1, <1>2 DEF IsKept
<1>3. CASE PassNearestBufferedPacket
  <2>1. PICK i \in 1 .. Len(buffered) :
          /\ PassPacket(buffered[i], buffered[i]) /\ RemoveBuffered(i) /\ current' = current
    BY <1>3, PassNearestIntact DEF BeginProcessBufferedPackets
  <2>2. buffered[i] \in handed' /\ handed \subseteq handed' /\ arrivals' = arrivals
    BY <1>3, <2>1 DEF PassPacket, PassNearestBufferedPacket, networkVars
  <2> QED BY <1>1, <2>1, <2>2, RemovedIsHanded
<1>4. CASE FlushEnds
  <2>1. /\ handed' = handed \cup {current} /\ buffered = <<>> /\ buffered' = <<>>
        /\ arrivals' = arrivals
    BY <1>4 DEF FlushEnds, PassPacket, bufferVars, networkVars
  <2>2. Len(buffered) = 0
    BY <2>1
  <2>3. ASSUME NEW n \in Packets, IsKept(n)
        PROVE  IsKept(n)'
    BY <2>1, <2>2, <2>3 DEF IsKept
  <2> QED BY <1>1, <2>1, <2>3
<1>5. CASE ScanHit
  <2>1. /\ UNCHANGED <<arrivals, current, buffered>>
        /\ \E i \in 1 .. Len(buffered) : PassPacket(buffered[i], buffered[i])
    BY <1>5, ScanHitIntact DEF bufferVars, networkVars
  <2>2. handed \subseteq handed'
    BY <2>1 DEF PassPacket
  <2> QED BY <1>2, <2>1, <2>2
<1>6. CASE ScanAgain \/ RemoveEnds \/ SendReport
  <2>1. UNCHANGED <<arrivals, buffered, handed>> /\ (current' = current \/ current = NoPacket)
    BY <1>6 DEF ScanAgain, RemoveEnds, SendReport, bufferVars, networkVars, RemovalIsSound
  <2>2. \A m \in Packets : m # NoPacket
    BY StreamAssumption DEF NoPacket
  <2> QED BY <1>1, <2>1, <2>2 DEF IsKept
<1>7. CASE ScanEnds
  <2>1. /\ UNCHANGED <<arrivals, handed>> /\ pc = "scan" /\ current = NoPacket
        /\ NamesPassed(removeList) /\ removeList \in Seq(Indices)
    BY <1>7 DEF ScanEnds, networkVars, RemovalIsSound, IInv, TypeOK, AssemblerTypeOK
  <2>2. \A m \in Packets : m # NoPacket
    BY StreamAssumption DEF NoPacket
  <2>3. CASE UNCHANGED buffered
    BY <1>1, <2>1, <2>2, <2>3 DEF IsKept
  <2>4. CASE Len(removeList) = Len(buffered) /\ buffered' = <<>>
    <3>1. \A i \in 1 .. Len(buffered) : \E k \in 1 .. Len(removeList) : removeList[k] = i
      BY <2>1, <2>4, BufferFacts, DistinctIndices DEF NamesPassed
    <3>2. \A i \in 1 .. Len(buffered) : buffered[i] \in handed
      BY <2>1, <3>1 DEF NamesPassed
    <3> QED BY <1>1, <2>1, <2>2, <3>2 DEF IsKept
  <2> QED BY <1>7, <2>3, <2>4 DEF ScanEnds, bufferVars
<1>8. CASE RemovePassed
  <2>1. /\ pc = "remove" /\ NamesPassed(pending)
        /\ UNCHANGED <<arrivals, handed, current>>
    BY <1>8, RemovePassedIntact DEF RemovalIsSound, networkVars
  <2>2. PICK k \in 1 .. Len(pending) :
          pending[k] \in 1 .. Len(buffered) /\ RemoveBuffered(pending[k])
    BY <1>8, RemovePassedIntact
  <2>3. buffered[pending[k]] \in handed'
    BY <2>1 DEF NamesPassed
  <2> QED BY <1>1, <2>1, <2>2, <2>3, RemovedIsHanded
<1> QED BY <1>3, <1>4, <1>5, <1>6, <1>7, <1>8 DEF Continue

LEMMA StepKeepsEverything ==
  ASSUME ~ParserThrows, NumbersFollowOrder, ShortStream, IInv, BytesInPlace, RemovalIsSound,
         HistoryIsSound, ComparesWithPassed, EverythingIsKept, Next
  PROVE  EverythingIsKept'
<1>1. \A n \in Packets : ProcessRepeatedPacket(n) => n \in handed
  BY RepeatedWasHanded DEF ProcessRepeatedPacket
<1> QED BY <1>1, ReceivedIsKept, ContinueKeepsEverything DEF Next

\* So it is in a short stream, for every network.
LEMMA ShortStreamForgetsNothing ==
  ASSUME ~ParserThrows, NumbersFollowOrder, ShortStream
  PROVE  Spec => []NothingForgotten
<1>1. Init => ComparesWithPassed /\ EverythingIsKept
  BY DEF Init, ComparesWithPassed, EverythingIsKept
<1>2. IInv /\ BytesInPlace /\ RemovalIsSound /\ HistoryIsSound /\ ComparesWithPassed
        /\ EverythingIsKept /\ [Next]_vars => ComparesWithPassed' /\ EverythingIsKept'
  <2>1. CASE UNCHANGED vars
    BY <2>1 DEF vars, correctVars, networkVars, ComparesWithPassed, EverythingIsKept, IsKept
  <2> QED BY <2>1, StepKeepsComparison, StepKeepsEverything
<1>3. IInv /\ EverythingIsKept => NothingForgotten
  <2>1. IInv => DOMAIN buffered = 1 .. Len(buffered)
    BY DEF IInv, TypeOK, AssemblerTypeOK
  <2> QED BY <2>1 DEF EverythingIsKept, IsKept, NothingForgotten
<1> QED BY <1>1, <1>2, <1>3, BytesStayInPlace, RemovalStaysSound, HistoryStaysSound, PTL DEF Spec
-----------------------------------------------------------------------------
(* What is about to leave the buffer *)

\* The buffered packet i was passed and is about to be removed.
Leaving(i) ==
  \/ pc = "scan" /\ \E k \in 1 .. Len(removeList) : removeList[k] = i
  \/ pc = "remove" /\ \E k \in 1 .. Len(pending) : pending[k] = i

\* What is in the buffer after the step was in it before.
OnlyLeaves ==
  \E old \in [1 .. Len(buffered') -> 1 .. Len(buffered)] :
    /\ \A i, j \in 1 .. Len(buffered') : i # j => old[i] # old[j]
    /\ \A j \in 1 .. Len(buffered') :
         buffered'[j] = buffered[old[j]] /\ (Leaving(old[j]) => Leaving(j)')

LEMMA NothingLeaves ==
  ASSUME IInv, BytesInPlace, buffered' = buffered,
         \A j \in 1 .. Len(buffered) : Leaving(j) => Leaving(j)'
  PROVE  OnlyLeaves
<1> DEFINE same == [j \in 1 .. Len(buffered) |-> j]
<1>1. /\ same \in [1 .. Len(buffered') -> 1 .. Len(buffered)]
      /\ \A j \in 1 .. Len(buffered') : same[j] = j
  OBVIOUS
<1> HIDE DEF same
<1> QED BY <1>1 DEF OnlyLeaves

\* The steps that pass nothing take away what was passed, or nothing.
LEMMA QuietStepsOnlyLeave ==
  ASSUME IInv, BytesInPlace, RemovalIsSound,
         ScanAgain \/ ScanEnds \/ RemovePassed \/ RemoveEnds \/ SendReport
  PROVE  /\ UNCHANGED <<arrivals, handed, correctVars, parsed, joined, parserTail,
                        previousSeqNumber, previousTimestamp, samplesSum, streamIsFirstPacket>>
         /\ totals'.first = totals.first
         /\ pc \in {"idle", "scan", "remove"} /\ pc' \in {"idle", "scan", "remove"}
         /\ pc' = "scan" => pc = "scan" /\ nextSeqNumber' = nextSeqNumber
         /\ OnlyLeaves
<1>1. /\ UNCHANGED <<arrivals, handed, correctVars, parsed, joined, parserTail,
                     previousSeqNumber, previousTimestamp, samplesSum, streamIsFirstPacket>>
      /\ totals'.first = totals.first
  BY DEF ScanAgain, ScanEnds, RemovePassed, RemoveEnds, SendReport, CreateReceiverReport,
         networkVars, streamVars, IInv, TypeOK, StreamTypeOK
<1>2. CASE ScanAgain
  <2>1. /\ pc = "scan" /\ pc' = "scan" /\ buffered' = buffered
        /\ UNCHANGED <<nextSeqNumber, removeList>>
    BY <1>2 DEF ScanAgain, bufferVars
  <2> QED BY <1>1, <2>1, NothingLeaves DEF Leaving
<1>3. CASE RemoveEnds
  <2>1. pc = "remove" /\ pc' = "idle" /\ buffered' = buffered /\ pending = <<>>
    BY <1>3 DEF RemoveEnds, Return, Unwind, bufferVars
  <2>2. Len(pending) = 0
    BY <2>1
  <2> QED BY <1>1, <2>1, <2>2, NothingLeaves DEF Leaving
<1>4. CASE SendReport
  <2>1. pc = "idle" /\ pc' = "idle" /\ buffered' = buffered
    BY <1>4 DEF SendReport, bufferVars
  <2> QED BY <1>1, <2>1, NothingLeaves DEF Leaving
<1>5. CASE ScanEnds
  <2>1. pc = "scan"
    BY <1>5 DEF ScanEnds
  <2>2. CASE removeList = <<>> /\ pc' = "idle" /\ buffered' = buffered
    <3>1. Len(removeList) = 0
      BY <2>2
    <3> QED BY <1>1, <2>1, <2>2, <3>1, NothingLeaves DEF Leaving
  <2>3. CASE pc' = "idle" /\ buffered' = <<>>
    <3>1. 1 .. Len(buffered') = {}
      BY <2>3
    <3>2. \E old : old \in [1 .. Len(buffered') -> 1 .. Len(buffered)]
      <4>1. [j \in {} |-> 1] \in [1 .. Len(buffered') -> 1 .. Len(buffered)]
        BY <3>1
      <4> QED BY <4>1
    <3>3. OnlyLeaves
      BY <3>1, <3>2 DEF OnlyLeaves
    <3> QED BY <1>1, <2>1, <2>3, <3>3
  <2>4. CASE pc' = "remove" /\ pending' = removeList /\ buffered' = buffered
    <3>1. \A j \in 1 .. Len(buffered) : Leaving(j) => Leaving(j)'
      BY <2>1, <2>4 DEF Leaving
    <3>2. OnlyLeaves
      BY <2>4, <3>1, NothingLeaves
    <3> QED BY <1>1, <2>1, <2>4, <3>2
  <2> QED BY <1>5, <2>2, <2>3, <2>4 DEF ScanEnds, Return, Unwind, bufferVars
<1>6. CASE RemovePassed
  <2>1. /\ pc = "remove" /\ pc' = "remove"
        /\ pending \in Seq(Indices) /\ Len(pending) \in Nat /\ DOMAIN pending = 1 .. Len(pending)
        /\ Len(buffered) \in Nat
    BY <1>6, RemovePassedIntact, BufferFacts DEF RemovalIsSound, IInv, TypeOK, AssemblerTypeOK
  <2>2. PICK k \in 1 .. Len(pending) :
          /\ IsHighest(k) /\ pending[k] \in 1 .. Len(buffered)
          /\ RemoveBuffered(pending[k]) /\ pending' = RemoveAt(pending, k)
    BY <1>6, RemovePassedIntact DEF RemovalIsSound
  <2>3. /\ Len(pending') = Len(pending) - 1
        /\ \A j \in 1 .. Len(pending) - 1 :
             pending'[j] = IF j < k THEN pending[j] ELSE pending[j + 1]
    BY <2>1, <2>2, RemoveAtShifts
  <2> DEFINE old == [j \in 1 .. Len(buffered) - 1 |-> IF j < pending[k] THEN j ELSE j + 1]
  <2>4. /\ Len(buffered') = Len(buffered) - 1
        /\ \A j \in 1 .. Len(buffered) - 1 :
             buffered'[j] = IF j < pending[k] THEN buffered[j] ELSE buffered[j + 1]
    BY <2>2, RemovedShifts
  <2>5. /\ \A j \in 1 .. Len(buffered) - 1 :
             /\ old[j] \in 1 .. Len(buffered) /\ old[j] # pending[k]
             /\ old[j] <= pending[k] => old[j] = j
             /\ buffered'[j] = buffered[old[j]]
        /\ \A i, j \in 1 .. Len(buffered) - 1 : i # j => old[i] # old[j]
    <3>1. \A j \in 1 .. Len(buffered) - 1 : old[j] = IF j < pending[k] THEN j ELSE j + 1
      OBVIOUS
    <3> HIDE DEF old
    <3>2. \A j \in 1 .. Len(buffered) - 1 :
            /\ old[j] \in 1 .. Len(buffered) /\ old[j] # pending[k]
            /\ old[j] <= pending[k] => old[j] = j
      BY <2>1, <2>2, <3>1
    <3>3. \A j \in 1 .. Len(buffered) - 1 : buffered'[j] = buffered[old[j]]
      BY <2>4, <3>1
    <3>4. \A i, j \in 1 .. Len(buffered) - 1 : i # j => old[i] # old[j]
      BY <2>1, <2>2, <3>1
    <3> QED BY <3>2, <3>3, <3>4
  <2>6. old \in [1 .. Len(buffered) - 1 -> 1 .. Len(buffered)]
    BY <2>5
  <2> HIDE DEF old
  <2>7. ASSUME NEW j \in 1 .. Len(buffered) - 1, Leaving(old[j])
        PROVE  Leaving(j)'
    <3>1. PICK l \in 1 .. Len(pending) : pending[l] = old[j]
      BY <2>1, <2>7 DEF Leaving
    <3>2. l # k /\ pending[l] <= pending[k]
      BY <2>1, <2>2, <2>5, <3>1 DEF IsHighest
    <3>3. pending[l] = j
      BY <2>5, <3>1, <3>2
    <3>4. CASE l < k
      <4>1. l \in 1 .. Len(pending')
        BY <2>1, <2>3, <3>4
      <4> QED BY <2>1, <2>3, <3>3, <3>4, <4>1 DEF Leaving
    <3>5. CASE l > k
      <4>1. l - 1 \in 1 .. Len(pending) - 1 /\ ~(l - 1 < k) /\ l - 1 + 1 = l
        BY <2>1, <3>5
      <4>2. pending'[l - 1] = j /\ l - 1 \in 1 .. Len(pending')
        BY <2>3, <3>3, <4>1
      <4> QED BY <2>1, <4>2 DEF Leaving
    <3> QED BY <2>1, <3>2, <3>4, <3>5
  <2>8. OnlyLeaves
    BY <2>4, <2>5, <2>6, <2>7 DEF OnlyLeaves
  <2> QED BY <1>1, <2>1, <2>8
<1> QED BY <1>2, <1>3, <1>4, <1>5, <1>6

LEMMA SameNumber ==
  ASSUME NEW a \in SeqNumbers, NEW b \in SeqNumbers, NEW c \in SeqNumbers
  PROVE  /\ SeqDelta(a, a) = 0
         /\ SeqDelta(a, c) = SeqDelta(b, c) => a = b
         /\ SeqDelta((a + 1) % SeqModulus, a) = 1
<1>1. /\ a \in Nat /\ b \in Nat /\ c \in Nat /\ SeqModulus \in Nat /\ SeqModulus > 3
      /\ a < SeqModulus /\ b < SeqModulus /\ c < SeqModulus
  BY StreamAssumption DEF SeqNumbers
<1>2. SeqDelta(a, a) = 0
  BY <1>1, SeqDeltaType
<1>3. SeqDelta(a, c) = SeqDelta(b, c) => a = b
  <2>1. SeqDelta(a, c) = IF a >= c THEN a - c ELSE a - c + SeqModulus
    BY SeqDeltaType
  <2>2. SeqDelta(b, c) = IF b >= c THEN b - c ELSE b - c + SeqModulus
    BY SeqDeltaType
  <2> QED BY <1>1, <2>1, <2>2
<1>4. SeqDelta((a + 1) % SeqModulus, a) = 1
  <2>1. SeqDelta(a, a) + 1 < SeqModulus
    BY <1>1, <1>2
  <2> QED BY <1>2, <2>1, NextIsOneFurther
<1> QED BY <1>2, <1>3, <1>4

\* Numbers of packets that are less than a round apart.
LEMMA AheadNumbers ==
  ASSUME NumbersFollowOrder, NEW p \in Packets, NEW n \in Packets,
         p <= n, n - p <= SeqModulus - 1
  PROVE  /\ SeqDelta(SeqNumber[n], SeqNumber[p]) = n - p
         /\ n = p + 1 <=> SeqNumber[n] = (SeqNumber[p] + 1) % SeqModulus
<1>1. p \in Nat /\ n \in Nat /\ SeqModulus \in Nat /\ n - p \in 0 .. SeqModulus - 1
  BY StreamAssumption
<1>2. SeqDelta(SeqNumber[n], SeqNumber[p]) = n - p
  BY <1>1 DEF NumbersFollowOrder
<1>3. SeqNumber[n] \in SeqNumbers /\ SeqNumber[p] \in SeqNumbers
  BY HeaderType
<1>4. (SeqNumber[p] + 1) % SeqModulus \in SeqNumbers
  <2>1. SeqNumber[p] + 1 \in Int /\ SeqModulus \in Nat \ {0}
    BY <1>3, StreamAssumption DEF SeqNumbers
  <2> QED BY <2>1 DEF SeqNumbers
<1>5. SeqDelta((SeqNumber[p] + 1) % SeqModulus, SeqNumber[p]) = 1
  BY <1>3, SameNumber
<1>6. CASE n = p + 1
  <2>1. SeqDelta(SeqNumber[n], SeqNumber[p]) = 1
    BY <1>1, <1>2, <1>6
  <2> QED BY <1>2, <1>3, <1>4, <1>5, <1>6, <2>1, SameNumber
<1>7. CASE n # p + 1
  <2>1. n - p # 1
    BY <1>1, <1>7
  <2> QED BY <1>2, <1>5, <1>7, <2>1
<1> QED BY <1>6, <1>7

\* The scan finds the next packet among those it has not found before.
LEMMA ScanHitPasses ==
  ASSUME ~ParserThrows, IInv, BytesInPlace, RemovalIsSound, ScanHit
  PROVE  /\ pc = "scan" /\ pc' = "scan" /\ buffered' = buffered
         /\ \E i \in 1 .. Len(buffered), n \in Packets :
              /\ n = buffered[i] /\ SeqNumber[n] = nextSeqNumber /\ ~Leaving(i)
              /\ PassPacket(n, n) /\ nextSeqNumber' = (nextSeqNumber + 1) % SeqModulus
              /\ \A j \in 1 .. Len(buffered) : (j = i \/ Leaving(j)) => Leaving(j)'
<1>1. /\ pc = "scan" /\ pc' = "scan" /\ buffered' = buffered
      /\ removeList \in Seq(Indices) /\ FoundInARow
  BY ScanHitIntact DEF bufferVars, IInv, TypeOK, AssemblerTypeOK, RemovalIsSound
<1>2. PICK i \in 1 .. Len(buffered) :
        /\ SeqNumber[buffered[i]] = nextSeqNumber
        /\ PassPacket(buffered[i], buffered[i])
        /\ nextSeqNumber' = (nextSeqNumber + 1) % SeqModulus
        /\ removeList' = Append(removeList, i)
  BY ScanHitIntact
<1>3. PICK n \in Packets : n = buffered[i]
  BY BufferFacts
<1>4. ~Leaving(i)
  <2> SUFFICES ASSUME NEW k \in 1 .. Len(removeList), removeList[k] = i PROVE FALSE
    BY <1>1 DEF Leaving
  <2>1. SeqDelta(nextSeqNumber, nextSeqNumber) = Len(removeList) - k + 1
    BY <1>1, <1>2 DEF FoundInARow
  <2>2. SeqDelta(nextSeqNumber, nextSeqNumber) = 0
    BY <1>2, <1>3, HeaderType, SameNumber
  <2> QED BY <1>1, <2>1, <2>2
<1>5. ASSUME NEW j \in 1 .. Len(buffered), j = i \/ Leaving(j)
      PROVE  Leaving(j)'
  <2>1. /\ Len(removeList') = Len(removeList) + 1 /\ Len(removeList) \in Nat
        /\ \A k \in 1 .. Len(removeList) : removeList'[k] = removeList[k]
        /\ removeList'[Len(removeList) + 1] = i
    BY <1>1, <1>2, AppendProperties
  <2>2. CASE j = i
    <3>1. Len(removeList) + 1 \in 1 .. Len(removeList')
      BY <2>1
    <3> QED BY <1>1, <2>1, <2>2, <3>1 DEF Leaving
  <2>3. CASE Leaving(j)
    <3>1. PICK k \in 1 .. Len(removeList) : removeList[k] = j
      BY <1>1, <2>3 DEF Leaving
    <3>2. k \in 1 .. Len(removeList')
      BY <2>1
    <3> QED BY <1>1, <2>1, <3>1, <3>2 DEF Leaving
  <2> QED BY <1>5, <2>2, <2>3
<1> QED BY <1>1, <1>2, <1>3, <1>4, <1>5
-----------------------------------------------------------------------------
(* Within one frame, when the buffer outlasts the delay *)

\* The network delays a packet by less than the buffer holds.
BufferOutlastsDelay == MaxDisplacement < MaxCorrectionLength

\* Packets f to p were passed, all of them and to the end; what is buffered
\* comes later, and no later than the network can make it.
BufferIsAhead(p) ==
  /\ \A i, j \in 1 .. Len(buffered) : i # j => buffered[i] # buffered[j]
  /\ \A i \in 1 .. Len(buffered) :
       Leaving(i) \/ (p < buffered[i] /\ buffered[i] <= p + MaxDisplacement + 1)
  /\ pc # "scan" => \A i \in 1 .. Len(buffered) : buffered[i] # p + 1

PassedSoFar(f, p) ==
  /\ handed = f .. p /\ f <= p
  /\ f = totals.first
  /\ previousCorrectSeqNumber = SeqNumber[p] /\ previousSeqNumber = SeqNumber[p]
  /\ previousCorrectTimestamp = Timestamp[p]
  /\ \A n \in f .. p : n \in EmptyPackets \/ \E i \in 1 .. Len(parsed) : parsed[i] = n

ReorderedSoFar(f, p) ==
  /\ PassedSoFar(f, p)
  /\ pc \in {"idle", "scan", "remove"}
  /\ pc = "scan" => nextSeqNumber = (SeqNumber[p] + 1) % SeqModulus
  /\ BufferIsAhead(p)
  /\ EverythingIsKept

FrameIsReordered == WithinAFrame => \E f, p \in Packets : ReorderedSoFar(f, p)

\* As many numbers in a row as there are distinct ones among them.
LEMMA DistinctInARow ==
  ASSUME NEW a \in Int, NEW n \in Nat, NEW S, NEW s \in Seq(S),
         \A k \in 1 .. Len(s) : s[k] \in a + 1 .. a + n,
         \A j, k \in 1 .. Len(s) : j # k => s[j] # s[k]
  PROVE  Len(s) <= n
<1>1. s \in [1 .. Len(s) -> a + 1 .. a + n]
  <2>1. DOMAIN s = 1 .. Len(s) /\ s = [k \in 1 .. Len(s) |-> s[k]]
    OBVIOUS
  <2> QED BY <2>1
<1>2. s \in Injection(1 .. Len(s), a + 1 .. a + n)
  BY <1>1 DEF Injection, IsInjective
<1>3. Len(s) \in Nat
  OBVIOUS
<1>4. ASSUME NEW c \in Int, NEW d \in Int, c <= d + 1
      PROVE  IsFiniteSet(c .. d) /\ Cardinality(c .. d) = d - c + 1
  BY <1>4, FS_Interval
<1>5. IsFiniteSet(a + 1 .. a + n) /\ Cardinality(a + 1 .. a + n) = n
  <2>1. a + 1 \in Int /\ a + n \in Int /\ a + 1 <= (a + n) + 1 /\ (a + n) - (a + 1) + 1 = n
    OBVIOUS
  <2> QED BY <1>4, <2>1
<1>6. Cardinality(1 .. Len(s)) = Len(s)
  BY <1>3, <1>4
<1>7. Cardinality(1 .. Len(s)) <= Cardinality(a + 1 .. a + n)
  BY <1>2, <1>5, FS_Injection
<1> QED BY <1>5, <1>6, <1>7

\* Numbers of packets near each other.
LEMMA NearNumbers ==
  ASSUME NumbersFollowOrder, BufferOutlastsDelay, NEW p \in Packets, NEW n \in Packets,
         p <= n, n <= p + MaxDisplacement + 1
  PROVE  /\ SeqDelta(SeqNumber[n], SeqNumber[p]) = n - p
         /\ n - p <= MaxCorrectionLength
         /\ n = p + 1 <=> SeqNumber[n] = (SeqNumber[p] + 1) % SeqModulus
<1>1. /\ p \in Nat /\ n \in Nat /\ MaxDisplacement \in Nat /\ MaxCorrectionLength \in Nat
      /\ SeqModulus \in Nat /\ MaxCorrectionLength < SeqModulus
      /\ MaxDisplacement < MaxCorrectionLength
  BY StreamAssumption, ChunksAssumption, AssemblerAssumption DEF BufferOutlastsDelay
<1>2. n - p <= MaxCorrectionLength /\ n - p <= SeqModulus - 1
  BY <1>1
<1> QED BY <1>2, AheadNumbers

\* The frame did not begin with the packet just received: it was a frame before.
LEMMA FrameGoesOn ==
  ASSUME NumbersFollowOrder, BufferOutlastsDelay, HistoryIsSound, ~isFirstPacket,
         NEW n \in Packets, Deliver(n), totals'.first = totals.first, WithinAFrame'
  PROVE  /\ WithinAFrame /\ n \notin Arrived
         /\ \A k \in Arrived : Timestamp[n] = Timestamp[k]
         /\ \E m \in Arrived :
              /\ m = totals.first
              /\ \A k \in Arrived : m <= k
              /\ m <= n /\ (m .. n - MaxDisplacement - 1) \subseteq Arrived
<1>1. /\ Arrived' = Arrived \cup {n} /\ Arrived \subseteq Packets
      /\ arrivals \in [Packets -> Nat]
      /\ arrivals'[n] = arrivals[n] + 1 /\ \A m \in Packets : m # n => arrivals'[m] = arrivals[m]
  BY ArrivalIsCounted DEF Arrived, HistoryIsSound
<1>2. /\ \A k, l \in Arrived' : Timestamp[k] = Timestamp[l] /\ arrivals'[l] = 1
      /\ \E m \in Arrived' :
           /\ m = totals.first
           /\ \A k \in Arrived' : m <= k /\ (m .. k - MaxDisplacement - 1) \subseteq Arrived'
  BY DEF WithinAFrame, Arrived
<1>3. n \notin Arrived
  <2>1. arrivals'[n] = 1 /\ arrivals[n] \in Nat
    BY <1>1, <1>2
  <2>2. arrivals[n] = 0
    BY <1>1, <2>1
  <2> QED BY <2>2 DEF Arrived
<1>4. \A k \in Arrived : k \in Packets /\ k <= n + MaxDisplacement
  BY DEF Deliver, Arrived
<1>5. \A k \in Packets : k \in Nat
  BY StreamAssumption
<1>6. MaxDisplacement \in Nat /\ MaxDisplacement < SeqModulus /\ SeqModulus \in Nat
  BY StreamAssumption, ChunksAssumption, AssemblerAssumption DEF BufferOutlastsDelay
<1>7. PICK m \in Arrived' :
        /\ m = totals.first
        /\ \A k \in Arrived' : m <= k /\ (m .. k - MaxDisplacement - 1) \subseteq Arrived'
  BY <1>2
<1>8. m \in Arrived
  <2> SUFFICES ASSUME m = n PROVE FALSE
    BY <1>1
  <2>1. PICK f \in Arrived : f = totals.first
    BY DEF HistoryIsSound
  <2>2. f \in Packets /\ n <= f /\ f <= n + MaxDisplacement /\ f # n
    BY <1>1, <1>3, <1>4, <1>7, <2>1
  <2>3. f - n \in 0 .. SeqModulus - 1 /\ f - n # 0
    BY <1>5, <1>6, <2>2
  <2>4. SeqDelta(SeqNumber[f], SeqNumber[n]) = f - n
    BY <2>2, <2>3 DEF NumbersFollowOrder
  <2>5. SeqDelta(SeqNumber[n], SeqNumber[n]) = 0
    BY HeaderType, SameNumber
  <2> QED BY <1>7, <2>1, <2>3, <2>4, <2>5
<1>9. ASSUME NEW k \in Arrived
      PROVE  (m .. k - MaxDisplacement - 1) \subseteq Arrived
  <2>1. (m .. k - MaxDisplacement - 1) \subseteq Arrived \cup {n}
    BY <1>1, <1>7
  <2>2. n \notin m .. k - MaxDisplacement - 1
    BY <1>4, <1>5, <1>6
  <2> QED BY <2>1, <2>2
<1>10. m <= n /\ (m .. n - MaxDisplacement - 1) \subseteq Arrived
  <2>1. m <= n /\ (m .. n - MaxDisplacement - 1) \subseteq Arrived \cup {n}
    BY <1>1, <1>7
  <2>2. n \notin m .. n - MaxDisplacement - 1
    BY <1>5, <1>6
  <2> QED BY <2>1, <2>2
<1>11. \A k \in Arrived : m <= k
  BY <1>1, <1>7
<1>12. \A k, l \in Arrived : Timestamp[k] = Timestamp[l] /\ arrivals[l] = 1
  BY <1>1, <1>2, <1>3
<1>13. WithinAFrame
  BY <1>7, <1>8, <1>9, <1>11, <1>12 DEF WithinAFrame, Arrived
<1>14. \A k \in Arrived : Timestamp[n] = Timestamp[k]
  BY <1>1, <1>2
<1> QED BY <1>3, <1>7, <1>8, <1>10, <1>11, <1>13, <1>14

LEMMA PassesNext ==
  ASSUME NumbersFollowOrder, BufferOutlastsDelay, StreamTypeOK, parsed \in Seq(Packets),
         ~streamIsFirstPacket, NEW f \in Packets, NEW p \in Packets, PassedSoFar(f, p),
         NEW n \in Packets, n = p + 1, PassPacket(n, n)
  PROVE  PassedSoFar(f, n)' /\ totals'.first = totals.first
<1>1. f \in Nat /\ p \in Nat /\ MaxDisplacement \in Nat /\ f <= p
  BY StreamAssumption, AssemblerAssumption DEF PassedSoFar
<1>2. ~IsStale(n)
  <2>1. SeqDelta(SeqNumber[n], SeqNumber[p]) = 1
    BY <1>1, NearNumbers
  <2>2. previousSeqNumber = SeqNumber[p] /\ ~(1 > (SeqModulus - 1) \div 2)
    BY StreamAssumption DEF PassedSoFar
  <2> QED BY <2>1, <2>2 DEF IsStale
<1>3. /\ handed' = handed \cup {n}
      /\ previousCorrectSeqNumber' = SeqNumber[n] /\ previousCorrectTimestamp' = Timestamp[n]
      /\ previousSeqNumber' = SeqNumber[n]
      /\ totals'.first = totals.first
      /\ Len(parsed) <= Len(parsed') /\ \A i \in 1 .. Len(parsed) : parsed'[i] = parsed[i]
      /\ n \in EmptyPackets \/ \E i \in 1 .. Len(parsed') : parsed'[i] = n
      /\ Len(parsed) \in Nat /\ Len(parsed') \in Nat
  BY <1>2, PassedToStream
<1>4. handed' = f .. n
  <2>1. (f .. p) \cup {p + 1} = f .. p + 1
    BY <1>1
  <2> QED BY <1>3, <2>1 DEF PassedSoFar
<1>5. ASSUME NEW k \in f .. n
      PROVE  k \in EmptyPackets \/ \E i \in 1 .. Len(parsed') : parsed'[i] = k
  <2>1. CASE k \in f .. p
    <3>1. k \in EmptyPackets \/ \E i \in 1 .. Len(parsed) : parsed[i] = k
      BY <2>1 DEF PassedSoFar
    <3>2. \A i \in 1 .. Len(parsed) : i \in 1 .. Len(parsed')
      BY <1>3
    <3> QED BY <1>3, <3>1, <3>2
  <2>2. CASE k = n
    BY <1>3, <2>2
  <2> QED BY <1>1, <2>1, <2>2
<1>6. f <= n
  BY <1>1
<1> QED BY <1>3, <1>4, <1>5, <1>6 DEF PassedSoFar

LEMMA FirstReorders ==
  ASSUME ~ParserThrows, IInv, BytesInPlace, RemovalIsSound, HistoryIsSound, EverythingIsKept',
         NEW n \in Packets, ProcessFirstPacket(n)
  PROVE  ReorderedSoFar(n, n)'
<1>1. /\ isFirstPacket /\ streamIsFirstPacket /\ Arrived = {} /\ n \in Nat
      /\ StreamTypeOK /\ parsed \in Seq(Packets)
  BY StreamAssumption DEF ProcessFirstPacket, HistoryIsSound, IInv, TypeOK
<1>2. PassPacket(n, n) /\ buffered' = buffered /\ pc' = "idle"
  BY DEF ProcessFirstPacket, Return, Unwind, bufferVars
<1>3. ~IsStale(n)
  BY <1>1 DEF IsStale
<1>4. /\ handed' = handed \cup {n}
      /\ previousCorrectSeqNumber' = SeqNumber[n] /\ previousCorrectTimestamp' = Timestamp[n]
      /\ previousSeqNumber' = SeqNumber[n] /\ totals'.first = n
      /\ n \in EmptyPackets \/ \E i \in 1 .. Len(parsed') : parsed'[i] = n
  BY <1>1, <1>2, <1>3, PassedToStream
<1>5. handed' = n .. n
  <2>1. handed = {}
    BY <1>1 DEF HistoryIsSound
  <2>2. n .. n = {n}
    BY <1>1
  <2> QED BY <1>4, <2>1, <2>2
<1>6. \A k \in n .. n : k = n
  BY <1>1
<1>7. PassedSoFar(n, n)'
  BY <1>1, <1>4, <1>5, <1>6 DEF PassedSoFar
<1>8. Len(buffered') = 0
  <2>1. \A i \in 1 .. Len(buffered) : FALSE
    BY <1>1 DEF HistoryIsSound
  <2>2. Len(buffered) \in Nat
    BY BufferFacts
  <2>3. ~(Len(buffered) > 0)
    <3>1. Len(buffered) > 0 => 1 \in 1 .. Len(buffered)
      BY <2>2
    <3> QED BY <2>1, <3>1
  <2> QED BY <1>2, <2>2, <2>3
<1>9. BufferIsAhead(n)'
  BY <1>8 DEF BufferIsAhead
<1> QED BY <1>2, <1>7, <1>9 DEF ReorderedSoFar

\* A packet received in the frame comes after all that were passed, and no later
\* than the network can make it.
LEMMA ReceivedIsNear ==
  ASSUME NumbersFollowOrder, BufferOutlastsDelay, RemovalIsSound, HistoryIsSound, ~isFirstPacket,
         NEW f \in Packets, NEW p \in Packets, ReorderedSoFar(f, p),
         NEW n \in Packets, Deliver(n), totals'.first = totals.first, WithinAFrame'
  PROVE  /\ p < n /\ n <= p + MaxDisplacement + 1
         /\ n \notin Arrived /\ Timestamp[n] = previousCorrectTimestamp
         /\ \A i \in 1 .. Len(buffered) : p + 1 < buffered[i] /\ buffered[i] <= p + MaxDisplacement + 1
<1>1. /\ f \in Nat /\ p \in Nat /\ n \in Nat /\ f <= p /\ MaxDisplacement \in Nat
      /\ Arrived \subseteq Packets /\ \A k \in Packets : k \in Nat /\ k # NoPacket
      /\ handed = f .. p /\ handed \subseteq Arrived
      /\ previousCorrectTimestamp = Timestamp[p]
  <2>1. \A k \in Packets : k \in Nat /\ k # NoPacket
    BY StreamAssumption DEF NoPacket
  <2>2. /\ f <= p /\ handed = f .. p /\ handed \subseteq Arrived /\ Arrived \subseteq Packets
        /\ previousCorrectTimestamp = Timestamp[p]
    BY DEF Arrived, ReorderedSoFar, PassedSoFar, HistoryIsSound
  <2> QED BY <2>1, <2>2, AssemblerAssumption
<1>2. /\ n \notin Arrived
      /\ \A k \in Arrived : Timestamp[n] = Timestamp[k]
      /\ \E m \in Arrived :
           /\ m = totals.first
           /\ \A k \in Arrived : m <= k
           /\ m <= n /\ (m .. n - MaxDisplacement - 1) \subseteq Arrived
  BY FrameGoesOn
<1>3. pc = "idle" /\ current = NoPacket
  BY DEF Deliver, RemovalIsSound
<1>4. \A i \in 1 .. Len(buffered) :
        /\ p < buffered[i] /\ buffered[i] <= p + MaxDisplacement + 1 /\ buffered[i] # p + 1
        /\ buffered[i] \in Nat
  BY <1>1, <1>3 DEF ReorderedSoFar, BufferIsAhead, Leaving, HistoryIsSound
<1>5. ASSUME NEW i \in 1 .. Len(buffered) PROVE p + 1 < buffered[i]
  <2>1. p \in Nat /\ buffered[i] \in Nat /\ p < buffered[i] /\ buffered[i] # p + 1
    BY <1>1, <1>4
  <2> QED BY ONLY <2>1
<1>6. ASSUME NEW k \in Arrived
      PROVE  f <= k /\ k # p + 1
  <2>1. k \in f .. p \/ \E i \in 1 .. Len(buffered) : buffered[i] = k
    <3>1. k \in Packets /\ arrivals[k] > 0
      BY DEF Arrived
    <3>2. IsKept(k)
      BY <3>1 DEF ReorderedSoFar, EverythingIsKept
    <3> QED BY <1>1, <1>3, <3>1, <3>2 DEF IsKept
  <2> QED BY <1>1, <1>4, <2>1
<1>7. PICK m \in Arrived : m <= n /\ (m .. n - MaxDisplacement - 1) \subseteq Arrived
                           /\ \A k \in Arrived : m <= k
  BY <1>2
<1>8. m = f
  <2>1. f \in Arrived /\ m \in Nat
    BY <1>1
  <2> QED BY <1>1, <1>6, <1>7, <2>1
<1>9. p < n
  <2>1. n \notin f .. p
    BY <1>1, <1>2
  <2> QED BY <1>1, <1>7, <1>8, <2>1
<1>10. n <= p + MaxDisplacement + 1
  <2> SUFFICES ASSUME ~(n <= p + MaxDisplacement + 1) PROVE FALSE
    OBVIOUS
  <2>1. p + 1 \in f .. n - MaxDisplacement - 1
    BY <1>1
  <2> QED BY <1>6, <1>7, <1>8, <2>1
<1>11. Timestamp[n] = previousCorrectTimestamp
  <2>1. p \in Arrived
    BY <1>1
  <2> QED BY <1>1, <1>2, <2>1
<1> QED BY <1>2, <1>4, <1>5, <1>9, <1>10, <1>11

LEMMA ReceivedKeepsFrame ==
  ASSUME ~ParserThrows, NumbersFollowOrder, BufferOutlastsDelay, IInv, BytesInPlace,
         RemovalIsSound, HistoryIsSound, ~isFirstPacket,
         NEW f \in Packets, NEW p \in Packets, ReorderedSoFar(f, p),
         NEW n \in Packets, ProcessPacket(n), totals'.first = totals.first, WithinAFrame',
         EverythingIsKept'
  PROVE  ReorderedSoFar(f, p)' \/ ReorderedSoFar(f, n)'
<1>1. Deliver(n) /\ pc = "idle"
  BY DEF ProcessPacket, ProcessFirstPacket, ProcessNextPacket, ProcessDiscontinuity,
         ProcessRepeatedPacket, BufferPacket, Deliver
<1>2. /\ p < n /\ n <= p + MaxDisplacement + 1
      /\ n \notin Arrived /\ Timestamp[n] = previousCorrectTimestamp
      /\ \A i \in 1 .. Len(buffered) :
           p + 1 < buffered[i] /\ buffered[i] <= p + MaxDisplacement + 1
  BY <1>1, ReceivedIsNear
<1>3. /\ n \in Nat /\ p \in Nat /\ MaxDisplacement \in Nat
      /\ MaxCorrectionLength \in Nat /\ MaxDisplacement < MaxCorrectionLength
      /\ Len(buffered) \in Nat /\ buffered \in Seq(Packets)
  BY StreamAssumption, ChunksAssumption, AssemblerAssumption, BufferFacts
  DEF BufferOutlastsDelay
<1>4. /\ \A i \in 1 .. Len(buffered) : buffered[i] \in Nat /\ buffered[i] # n
      /\ \A i, j \in 1 .. Len(buffered) : i # j => buffered[i] # buffered[j]
  BY <1>2, StreamAssumption DEF HistoryIsSound, Arrived, ReorderedSoFar, BufferIsAhead
<1>5. Delta(n) = n - p /\ n - p <= MaxCorrectionLength
  BY <1>2, <1>3, NearNumbers DEF Delta, ReorderedSoFar, PassedSoFar
<1>6. ~IsDiscontinuity(n) /\ Delta(n) # 0
  BY <1>2, <1>3, <1>5 DEF IsDiscontinuity
<1>7. CASE ProcessNextPacket(n)
  <2>1. n = p + 1 /\ PassPacket(n, n) /\ buffered' = buffered
    BY <1>3, <1>5, <1>7 DEF ProcessNextPacket, bufferVars
  <2>2. PassedSoFar(f, n)'
    BY <2>1, PassesNext DEF ReorderedSoFar, HistoryIsSound, IInv, TypeOK
  <2>3. \/ pc' = "scan" /\ nextSeqNumber' = (SeqNumber[n] + 1) % SeqModulus
        \/ pc' = "idle" /\ Len(buffered) = 0
    BY <1>7 DEF ProcessNextPacket, BeginProcessBufferedPackets, Return, Unwind, CallbackThrows
  <2>4. \A i \in 1 .. Len(buffered') :
          n < buffered'[i] /\ buffered'[i] <= n + MaxDisplacement + 1
    <3> SUFFICES ASSUME NEW i \in 1 .. Len(buffered)
                 PROVE  n < buffered[i] /\ buffered[i] <= n + MaxDisplacement + 1
      BY <2>1
    <3>1. /\ n \in Nat /\ p \in Nat /\ MaxDisplacement \in Nat /\ n = p + 1
          /\ buffered[i] \in Nat /\ p + 1 < buffered[i]
          /\ buffered[i] <= p + MaxDisplacement + 1
      BY <1>2, <1>3, <1>4, <2>1
    <3> QED BY ONLY <3>1
  <2>5. BufferIsAhead(n)'
    BY <1>4, <2>1, <2>3, <2>4 DEF BufferIsAhead
  <2> QED BY <2>2, <2>3, <2>5 DEF ReorderedSoFar
<1>8. CASE BufferPacket(n)
  <2>1. /\ buffered' = Append(buffered, n)
        /\ UNCHANGED <<streamVars, correctVars, handed>>
        /\ n # p + 1
        /\ pc' = "idle" \/ BufferIsFull(Len(buffered) + 1)
    <3>1. Delta(n) # 1
      BY <1>8 DEF BufferPacket
    <3>2. n # p + 1
      BY <1>3, <1>5, <3>1
    <3> QED BY <1>1, <1>8, <3>2 DEF BufferPacket
  <2>2. /\ Len(buffered') = Len(buffered) + 1
        /\ \A i \in 1 .. Len(buffered) : buffered'[i] = buffered[i]
        /\ buffered'[Len(buffered) + 1] = n
        /\ buffered' \in Seq(Packets)
    BY <1>3, <2>1, AppendProperties
  <2>3. ASSUME NEW i \in 1 .. Len(buffered')
        PROVE  /\ buffered'[i] \in Nat
               /\ p + 1 < buffered'[i] /\ buffered'[i] <= p + MaxDisplacement + 1
    <3>1. i = Len(buffered) + 1 \/ i \in 1 .. Len(buffered)
      BY <1>3, <2>2
    <3> QED BY <1>2, <1>3, <1>4, <2>1, <2>2, <3>1
  <2>4. ASSUME NEW i \in 1 .. Len(buffered'), NEW j \in 1 .. Len(buffered'), i # j
        PROVE  buffered'[i] # buffered'[j]
    <3>1. /\ i = Len(buffered) + 1 \/ i \in 1 .. Len(buffered)
          /\ j = Len(buffered) + 1 \/ j \in 1 .. Len(buffered)
      BY <1>3, <2>2
    <3> QED BY <1>4, <2>2, <2>4, <3>1
  <2>5. pc' = "idle"
    <3>1. \A i \in 1 .. Len(buffered') : buffered'[i] \in p + 1 + 1 .. p + 1 + MaxDisplacement
      <4> SUFFICES ASSUME NEW i \in 1 .. Len(buffered')
                   PROVE  buffered'[i] \in p + 1 + 1 .. p + 1 + MaxDisplacement
        OBVIOUS
      <4>1. /\ buffered'[i] \in Nat
            /\ p + 1 < buffered'[i] /\ buffered'[i] <= p + MaxDisplacement + 1
        BY <2>3
      <4> QED BY <1>3, <4>1
    <3>2. p + 1 \in Int
      BY <1>3
    <3>3. Len(buffered') <= MaxDisplacement
      BY <1>3, <2>2, <2>4, <3>1, <3>2, DistinctInARow
    <3> QED BY <1>3, <2>1, <2>2, <3>3 DEF BufferIsFull
  <2>6. BufferIsAhead(p)'
    <3>1. \A i \in 1 .. Len(buffered') :
            /\ p < buffered'[i] /\ buffered'[i] <= p + MaxDisplacement + 1
            /\ buffered'[i] # p + 1
      BY <1>3, <2>3
    <3> QED BY <2>4, <3>1 DEF BufferIsAhead
  <2>7. PassedSoFar(f, p)'
    BY <2>1 DEF ReorderedSoFar, PassedSoFar, streamVars, correctVars
  <2> QED BY <2>5, <2>6, <2>7 DEF ReorderedSoFar
<1> QED BY <1>6, <1>7, <1>8
        DEF ProcessPacket, ProcessFirstPacket, ProcessDiscontinuity, ProcessRepeatedPacket

LEMMA FirstStays ==
  ASSUME IInv, BytesInPlace, ~streamIsFirstPacket, Next
  PROVE  totals'.first = totals.first
<1>1. CASE UNCHANGED streamVars
  BY <1>1 DEF streamVars
<1>2. CASE CreateReceiverReport
  BY <1>2 DEF CreateReceiverReport, IInv, TypeOK, StreamTypeOK
<1>3. CASE \E n \in Packets : ProcessImmediately(n, n)
  BY <1>1, <1>3 DEF ProcessImmediately, CountPacket, IInv, TypeOK, StreamTypeOK
<1> QED BY <1>1, <1>2, <1>3, StepOfStreamIntact

LEMMA ScanHitKeepsFrame ==
  ASSUME ~ParserThrows, NumbersFollowOrder, BufferOutlastsDelay, IInv, BytesInPlace,
         RemovalIsSound, HistoryIsSound, ~isFirstPacket,
         NEW f \in Packets, NEW p \in Packets, ReorderedSoFar(f, p), EverythingIsKept', ScanHit
  PROVE  \E n \in Packets : ReorderedSoFar(f, n)'
<1>1. pc = "scan" /\ pc' = "scan" /\ buffered' = buffered
  BY ScanHitPasses
<1>2. PICK i \in 1 .. Len(buffered), n \in Packets :
        /\ n = buffered[i] /\ SeqNumber[n] = nextSeqNumber /\ ~Leaving(i)
        /\ PassPacket(n, n) /\ nextSeqNumber' = (nextSeqNumber + 1) % SeqModulus
        /\ \A j \in 1 .. Len(buffered) : (j = i \/ Leaving(j)) => Leaving(j)'
  BY ScanHitPasses
<1>3. /\ n \in Nat /\ p \in Nat /\ MaxDisplacement \in Nat
      /\ \A j \in 1 .. Len(buffered) : buffered[j] \in Nat
  BY BufferFacts, StreamAssumption, AssemblerAssumption
<1>4. p < n /\ n <= p + MaxDisplacement + 1
  BY <1>2 DEF ReorderedSoFar, BufferIsAhead
<1>5. n = p + 1
  <2>1. p <= n
    BY <1>3, <1>4
  <2> QED BY <1>1, <1>2, <1>4, <2>1, NearNumbers DEF ReorderedSoFar
<1>6. PassedSoFar(f, n)'
  BY <1>2, <1>3, <1>5, PassesNext DEF ReorderedSoFar, HistoryIsSound, IInv, TypeOK
<1>7. nextSeqNumber' = (SeqNumber[n] + 1) % SeqModulus
  BY <1>2
<1>8. ASSUME NEW j \in 1 .. Len(buffered), ~Leaving(j)'
      PROVE  n < buffered[j] /\ buffered[j] <= n + MaxDisplacement + 1
  <2>1. j # i /\ ~Leaving(j)
    BY <1>2, <1>8
  <2>2. p < buffered[j] /\ buffered[j] <= p + MaxDisplacement + 1 /\ buffered[j] # n
    BY <1>2, <2>1 DEF ReorderedSoFar, BufferIsAhead
  <2> QED BY <1>3, <1>5, <2>2
<1>9. BufferIsAhead(n)'
  BY <1>1, <1>8 DEF ReorderedSoFar, BufferIsAhead
<1> QED BY <1>1, <1>6, <1>7, <1>9 DEF ReorderedSoFar

\* When the scan ends the next packet is not in the buffer.
LEMMA ScanEndsBehindAGap ==
  ASSUME NumbersFollowOrder, BufferOutlastsDelay, IInv, BytesInPlace, RemovalIsSound,
         NEW f \in Packets, NEW p \in Packets, ReorderedSoFar(f, p), ScanEnds
  PROVE  \A i \in 1 .. Len(buffered) : buffered[i] # p + 1
<1> SUFFICES ASSUME NEW i \in 1 .. Len(buffered), buffered[i] = p + 1 PROVE FALSE
  OBVIOUS
<1>1. /\ pc = "scan" /\ scanFrom = 1 /\ NoHit /\ DOMAIN buffered = 1 .. Len(buffered)
      /\ nextSeqNumber = (SeqNumber[p] + 1) % SeqModulus
      /\ removeList \in Seq(Indices) /\ FoundInARow
  BY BufferFacts DEF ScanEnds, RemovalIsSound, IInv, TypeOK, AssemblerTypeOK, ReorderedSoFar
<1>2. /\ \A j \in 1 .. Len(buffered) : buffered[j] \in Packets /\ buffered[j] \in Nat
      /\ p \in Nat /\ MaxDisplacement \in Nat
  BY BufferFacts, StreamAssumption, AssemblerAssumption
<1>3. SeqNumber[buffered[i]] = nextSeqNumber
  <2>1. p <= buffered[i] /\ buffered[i] <= p + MaxDisplacement + 1
    BY <1>2
  <2> QED BY <1>1, <1>2, <2>1, NearNumbers
<1>4. ASSUME NEW j \in 1 .. Len(buffered), SeqNumber[buffered[j]] = nextSeqNumber
      PROVE  j = i
  <2>1. ~Leaving(j)
    <3> SUFFICES ASSUME NEW k \in 1 .. Len(removeList), removeList[k] = j PROVE FALSE
      BY <1>1 DEF Leaving
    <3>1. SeqDelta(nextSeqNumber, nextSeqNumber) = Len(removeList) - k + 1
      BY <1>1, <1>4 DEF FoundInARow
    <3>2. SeqDelta(nextSeqNumber, nextSeqNumber) = 0
      BY <1>2, <1>4, HeaderType, SameNumber
    <3> QED BY <1>1, <3>1, <3>2
  <2>2. p < buffered[j] /\ buffered[j] <= p + MaxDisplacement + 1
    BY <2>1 DEF ReorderedSoFar, BufferIsAhead
  <2>3. p <= buffered[j]
    BY <1>2, <2>2
  <2>4. buffered[j] = p + 1
    BY <1>1, <1>2, <1>4, <2>2, <2>3, NearNumbers
  <2> QED BY <2>4 DEF ReorderedSoFar, BufferIsAhead
<1>5. IsHit(i)
  <2>1. i >= scanFrom /\ \A j \in scanFrom .. i - 1 : j \in 1 .. Len(buffered) /\ j # i
    BY <1>1, BufferFacts
  <2> QED BY <1>3, <1>4, <2>1 DEF IsHit
<1> QED BY <1>1, <1>5 DEF NoHit

LEMMA QuietKeepsFrame ==
  ASSUME NumbersFollowOrder, BufferOutlastsDelay, IInv, BytesInPlace, RemovalIsSound,
         NEW f \in Packets, NEW p \in Packets, ReorderedSoFar(f, p), EverythingIsKept',
         ScanAgain \/ ScanEnds \/ RemovePassed \/ RemoveEnds \/ SendReport
  PROVE  ReorderedSoFar(f, p)'
<1>1. /\ UNCHANGED <<handed, correctVars, parsed, previousSeqNumber>>
      /\ totals'.first = totals.first
      /\ pc' \in {"idle", "scan", "remove"}
      /\ pc' = "scan" => pc = "scan" /\ nextSeqNumber' = nextSeqNumber
      /\ OnlyLeaves
  BY QuietStepsOnlyLeave
<1>2. PassedSoFar(f, p)'
  BY <1>1 DEF ReorderedSoFar, PassedSoFar, correctVars
<1>3. PICK old \in [1 .. Len(buffered') -> 1 .. Len(buffered)] :
        /\ \A i, j \in 1 .. Len(buffered') : i # j => old[i] # old[j]
        /\ \A j \in 1 .. Len(buffered') :
             buffered'[j] = buffered[old[j]] /\ (Leaving(old[j]) => Leaving(j)')
  BY <1>1 DEF OnlyLeaves
<1>4. \A j \in 1 .. Len(buffered') : old[j] \in 1 .. Len(buffered)
  BY <1>3
<1>5. \A i, j \in 1 .. Len(buffered') : i # j => buffered'[i] # buffered'[j]
  BY <1>3, <1>4 DEF ReorderedSoFar, BufferIsAhead
<1>6. \A j \in 1 .. Len(buffered') :
        Leaving(j)' \/ (p < buffered'[j] /\ buffered'[j] <= p + MaxDisplacement + 1)
  BY <1>3, <1>4 DEF ReorderedSoFar, BufferIsAhead
<1>7. pc' # "scan" => \A i \in 1 .. Len(buffered) : buffered[i] # p + 1
  <2>1. CASE pc # "scan"
    BY <2>1 DEF ReorderedSoFar, BufferIsAhead
  <2>2. CASE ScanEnds
    BY <2>2, ScanEndsBehindAGap
  <2>3. pc = "scan" /\ ~ScanEnds => pc' = "scan"
    BY DEF ScanAgain, RemovePassed, RemoveEnds, SendReport
  <2> QED BY <2>1, <2>2, <2>3
<1>8. BufferIsAhead(p)'
  BY <1>3, <1>4, <1>5, <1>6, <1>7 DEF BufferIsAhead
<1> QED BY <1>1, <1>2, <1>8 DEF ReorderedSoFar

LEMMA FrameBeganBefore ==
  ASSUME UNCHANGED arrivals, totals'.first = totals.first, WithinAFrame'
  PROVE  WithinAFrame
BY DEF WithinAFrame

LEMMA FrameHasAPacket ==
  ASSUME WithinAFrame
  PROVE  Arrived # {}
BY DEF WithinAFrame, Arrived

\* One step of the assembler keeps the frame in order.
LEMMA ReceivedKeepsReordering ==
  ASSUME ~ParserThrows, NumbersFollowOrder, BufferOutlastsDelay, IInv, BytesInPlace,
         RemovalIsSound, HistoryIsSound, FrameIsReordered, Next,
         NEW n \in Packets, ProcessPacket(n), WithinAFrame'
  PROVE  \E f, p \in Packets : ReorderedSoFar(f, p)'
<1>1. CASE isFirstPacket
  <2>1. ProcessFirstPacket(n)
    BY <1>1 DEF ProcessPacket, ProcessNextPacket, ProcessDiscontinuity, ProcessRepeatedPacket,
                BufferPacket
  <2>2. EverythingIsKept
    BY <1>1 DEF HistoryIsSound, Arrived, EverythingIsKept
  <2>3. ~ProcessRepeatedPacket(n)
    BY <1>1 DEF ProcessRepeatedPacket
  <2>4. EverythingIsKept'
    BY <2>2, <2>3, ReceivedIsKept
  <2> QED BY <2>1, <2>4, FirstReorders
<1>2. CASE ~isFirstPacket
  <2>1. totals'.first = totals.first
    BY <1>2, FirstStays DEF HistoryIsSound
  <2>2. Deliver(n)
    BY DEF ProcessPacket, ProcessFirstPacket, ProcessNextPacket, ProcessDiscontinuity,
           ProcessRepeatedPacket, BufferPacket
  <2>3. WithinAFrame
    BY <1>2, <2>1, <2>2, FrameGoesOn
  <2>4. PICK f \in Packets, p \in Packets : ReorderedSoFar(f, p)
    BY <2>3 DEF FrameIsReordered
  <2>5. ~ProcessRepeatedPacket(n)
    <3>1. p < n /\ n <= p + MaxDisplacement + 1
      BY <1>2, <2>1, <2>2, <2>4, ReceivedIsNear
    <3>2. p \in Nat /\ n \in Nat
      BY StreamAssumption
    <3>3. p <= n /\ n - p # 0
      BY <3>1, <3>2
    <3>4. Delta(n) = n - p
      BY <2>4, <3>1, <3>3, NearNumbers DEF Delta, ReorderedSoFar, PassedSoFar
    <3> QED BY <3>3, <3>4 DEF ProcessRepeatedPacket
  <2>6. EverythingIsKept'
    BY <2>4, <2>5, ReceivedIsKept DEF ReorderedSoFar
  <2>7. ReorderedSoFar(f, p)' \/ ReorderedSoFar(f, n)'
    BY <1>2, <2>1, <2>4, <2>6, ReceivedKeepsFrame
  <2> QED BY <2>7
<1> QED BY <1>1, <1>2

LEMMA ContinueKeepsReordering ==
  ASSUME ~ParserThrows, NumbersFollowOrder, BufferOutlastsDelay, IInv, BytesInPlace,
         RemovalIsSound, HistoryIsSound, FrameIsReordered, Next, Continue \/ SendReport,
         WithinAFrame'
  PROVE  \E f, p \in Packets : ReorderedSoFar(f, p)'
<1>1. arrivals' = arrivals
  BY DEF Continue, PassNearestBufferedPacket, FlushEnds, ScanHit, ScanAgain, ScanEnds,
         RemovePassed, RemoveEnds, SendReport, networkVars
<1>2. ~isFirstPacket
  <2>1. Arrived' # {} /\ Arrived' = Arrived
    BY <1>1, FrameHasAPacket DEF WithinAFrame, Arrived
  <2> QED BY <2>1 DEF HistoryIsSound
<1>3. totals'.first = totals.first
  BY <1>2, FirstStays DEF HistoryIsSound
<1>4. WithinAFrame
  BY <1>1, <1>3, FrameBeganBefore
<1>5. PICK f \in Packets, p \in Packets : ReorderedSoFar(f, p)
  BY <1>4 DEF FrameIsReordered
<1>6. EverythingIsKept'
  BY <1>5, ContinueKeepsEverything DEF ReorderedSoFar
<1>7. CASE PassNearestBufferedPacket \/ FlushEnds
  BY <1>5, <1>7 DEF PassNearestBufferedPacket, FlushEnds, ReorderedSoFar
<1>8. CASE ScanHit
  BY <1>2, <1>5, <1>6, <1>8, ScanHitKeepsFrame
<1>9. CASE ScanAgain \/ ScanEnds \/ RemovePassed \/ RemoveEnds \/ SendReport
  BY <1>5, <1>6, <1>9, QuietKeepsFrame
<1> QED BY <1>7, <1>8, <1>9 DEF Continue

LEMMA FrameStaysReordered ==
  ASSUME ~ParserThrows, NumbersFollowOrder, BufferOutlastsDelay
  PROVE  Spec => []FrameIsReordered
<1>1. Init => FrameIsReordered
  <2>1. Init => Arrived = {}
    BY DEF Init, Arrived
  <2> QED BY <2>1, FrameHasAPacket DEF FrameIsReordered
<1>2. IInv /\ BytesInPlace /\ RemovalIsSound /\ HistoryIsSound /\ FrameIsReordered /\ [Next]_vars
        => FrameIsReordered'
  <2> SUFFICES ASSUME IInv, BytesInPlace, RemovalIsSound, HistoryIsSound, FrameIsReordered,
                      [Next]_vars, WithinAFrame'
               PROVE  (\E f, p \in Packets : ReorderedSoFar(f, p))'
    BY DEF FrameIsReordered
  <2>1. CASE UNCHANGED vars
    <3>1. UNCHANGED <<arrivals, totals, streamVars, correctVars, handed, pc, nextSeqNumber,
                      buffered, removeList, pending, current>>
      BY <2>1 DEF vars, streamVars, networkVars, scanVars
    <3>2. WithinAFrame
      BY <3>1, FrameBeganBefore
    <3>3. PICK f \in Packets, p \in Packets : ReorderedSoFar(f, p)
      BY <3>2 DEF FrameIsReordered
    <3>4. PassedSoFar(f, p)'
      BY <3>1, <3>3 DEF ReorderedSoFar, PassedSoFar, streamVars, correctVars
    <3>5. BufferIsAhead(p)'
      BY <3>1, <3>3 DEF ReorderedSoFar, BufferIsAhead, Leaving
    <3>6. EverythingIsKept'
      BY <3>1, <3>3 DEF ReorderedSoFar, EverythingIsKept, IsKept
    <3> QED BY <3>1, <3>3, <3>4, <3>5, <3>6 DEF ReorderedSoFar
  <2>2. CASE Next
    BY <2>2, ReceivedKeepsReordering, ContinueKeepsReordering DEF Next
  <2> QED BY <2>1, <2>2
<1> QED BY <1>1, <1>2, BytesStayInPlace, RemovalStaysSound, HistoryStaysSound, PTL DEF Spec

\* Within a frame nothing waits that the stream is ready for, and RtpStream drops
\* no packet as too old (RtpSequenceAssembler.cs:50-89 with RtpStream.cs:71-74),
\* when the network delays a packet by less than the buffer holds, however many
\* packets the frame has: the numbers may come round in it.
THEOREM FramesAreRestored ==
  ASSUME ~ParserThrows, NumbersFollowOrder, BufferOutlastsDelay
  PROVE  Spec => [](HeldOnlyBehindAGap /\ RestoredWithinAFrame)
<1>1. IInv /\ FrameIsReordered => HeldOnlyBehindAGap /\ RestoredWithinAFrame
  <2> SUFFICES ASSUME IInv, FrameIsReordered, WithinAFrame
               PROVE  /\ pc = "idle" => \A i \in DOMAIN buffered : buffered[i] - 1 \notin handed
                      /\ SequenceIsRestored
    BY DEF HeldOnlyBehindAGap, RestoredWithinAFrame
  <2>1. PICK f \in Packets, p \in Packets : ReorderedSoFar(f, p)
    BY DEF FrameIsReordered
  <2>2. /\ f \in Nat /\ p \in Nat /\ handed = f .. p
        /\ DOMAIN buffered = 1 .. Len(buffered)
        /\ \A i \in 1 .. Len(buffered) : buffered[i] \in Packets /\ buffered[i] \in Nat
    <3>1. \A m \in Packets : m \in Nat
      BY StreamAssumption
    <3>2. buffered \in Seq(Packets)
      BY DEF IInv, TypeOK, AssemblerTypeOK
    <3>3. /\ DOMAIN buffered = 1 .. Len(buffered)
          /\ \A i \in 1 .. Len(buffered) : buffered[i] \in Packets
      BY <3>2
    <3> QED BY <2>1, <3>1, <3>3 DEF ReorderedSoFar, PassedSoFar
  <2>3. ASSUME pc = "idle", NEW i \in DOMAIN buffered
        PROVE  buffered[i] - 1 \notin handed
    <3>1. p < buffered[i] /\ buffered[i] # p + 1 /\ buffered[i] \in Nat
      BY <2>1, <2>2, <2>3 DEF ReorderedSoFar, BufferIsAhead, Leaving
    <3> QED BY <2>2, <3>1
  <2>4. SequenceIsRestored
    BY <2>1 DEF ReorderedSoFar, PassedSoFar, SequenceIsRestored, Range
  <2> QED BY <2>3, <2>4
<1> QED BY <1>1, BytesStayInPlace, FrameStaysReordered, PTL
-----------------------------------------------------------------------------
(* Streams of any length, when the network duplicates nothing *)

Slack == MaxDisplacement + MaxCorrectionLength
Jump == MaxGap + MaxStart + 1

\* Every packet comes once, and the network displaces and loses packets, and the
\* buffer holds them back, by less than half of the numbers.
DeliveredOnce ==
  /\ \A n \in Packets : Copies[n] <= 1
  /\ Slack + Jump <= (SeqModulus - 1) \div 2

\* The assembler compares with c, RtpStream with q.
ComparesWith(c, q) ==
  /\ c \in handed /\ q \in handed /\ c <= q
  /\ previousCorrectSeqNumber = SeqNumber[c]
  /\ StreamIsAt(q)
  /\ pc = "scan" => nextSeqNumber = (SeqNumber[c] + 1) % SeqModulus

\* What was received is not far beyond c, and what is buffered comes after it.
NotFarBeyond(c) ==
  /\ \A k \in Arrived : k <= c + Slack + Jump
  /\ pc # "flush" => \A k \in Arrived : k <= c + Slack
  /\ pc = "flush" => \A k \in Arrived : k <= current + MaxDisplacement

WaitsAfter(c) == \A i \in 1 .. Len(buffered) : Leaving(i) \/ c < buffered[i]

Along(c, q) == ComparesWith(c, q) /\ NotFarBeyond(c) /\ WaitsAfter(c)

NothingTwice == \A i, j \in 1 .. Len(buffered) : i # j => buffered[i] # buffered[j]

InStep == ParsedSoFar /\ NothingTwice /\ \E c, q \in Packets : Along(c, q)

OnceInv ==
  /\ EverythingIsKept
  /\ isFirstPacket => ParsedSoFar
  /\ ~isFirstPacket => InStep

LEMMA OnceFacts ==
  ASSUME DeliveredOnce, IInv, BytesInPlace, HistoryIsSound
  PROVE  /\ \A k \in Packets : k \in Nat
         /\ Arrived \subseteq Packets /\ handed \subseteq Arrived
         /\ Slack \in Nat /\ Jump \in Nat /\ MaxDisplacement \in Nat /\ MaxCorrectionLength \in Nat
         /\ MaxDisplacement <= Slack /\ MaxCorrectionLength <= Slack /\ 1 <= MaxCorrectionLength
         /\ MaxGap + 1 <= Jump /\ MaxStart <= Jump /\ MaxGap \in Nat /\ MaxStart \in Nat
         /\ (SeqModulus - 1) \div 2 \in Nat /\ (SeqModulus - 1) \div 2 <= SeqModulus - 1
         /\ Slack + Jump <= (SeqModulus - 1) \div 2
         /\ \A i \in 1 .. Len(buffered) : buffered[i] \in Arrived /\ buffered[i] \in Nat
<1>1. /\ \A k \in Packets : k \in Nat
      /\ (SeqModulus - 1) \div 2 \in Nat /\ (SeqModulus - 1) \div 2 <= SeqModulus - 1
  BY StreamAssumption
<1>2. Arrived \subseteq Packets /\ handed \subseteq Arrived
  BY DEF HistoryIsSound, Arrived
<1>3. \A i \in 1 .. Len(buffered) : buffered[i] \in Arrived /\ buffered[i] \in Nat
  BY <1>1, <1>2 DEF HistoryIsSound
<1>4. /\ MaxDisplacement \in Nat /\ MaxCorrectionLength \in Nat /\ 1 <= MaxCorrectionLength
      /\ MaxGap \in Nat /\ MaxStart \in Nat
  BY AssemblerAssumption, ChunksAssumption
<1>5. /\ Slack \in Nat /\ Jump \in Nat
      /\ MaxDisplacement <= Slack /\ MaxCorrectionLength <= Slack
      /\ MaxGap + 1 <= Jump /\ MaxStart <= Jump
  BY <1>4 DEF Slack, Jump
<1> QED BY <1>1, <1>2, <1>3, <1>4, <1>5 DEF DeliveredOnce

\* Packets between c and what was received are near one another.
LEMMA AlongIsNear ==
  ASSUME DeliveredOnce, IInv, BytesInPlace, HistoryIsSound,
         NEW c \in Packets, NEW q \in Packets, Along(c, q),
         NEW n \in Packets, c <= n, n <= c + Slack + Jump
  PROVE  NearBy(q, n) /\ NearBy(c, n) /\ n - c <= SeqModulus - 1
<1>1. /\ c \in Nat /\ q \in Nat /\ n \in Nat /\ Slack \in Nat /\ Jump \in Nat
      /\ Slack + Jump <= (SeqModulus - 1) \div 2 /\ (SeqModulus - 1) \div 2 \in Nat
      /\ (SeqModulus - 1) \div 2 <= SeqModulus - 1 /\ SeqModulus \in Nat
  BY OnceFacts, StreamAssumption
<1>2. q \in Arrived /\ c <= q
  BY OnceFacts DEF Along, ComparesWith
<1>3. q <= c + Slack + Jump
  BY <1>2 DEF Along, NotFarBeyond
<1>4. n - c <= Slack + Jump /\ c - n <= 0 /\ n - q <= Slack + Jump /\ q - n <= Slack + Jump
  BY <1>1, <1>2, <1>3
<1> QED BY <1>1, <1>4 DEF NearBy

\* RtpStream is given a packet near the one it compares with.
LEMMA PassedAlong ==
  ASSUME NumbersFollowOrder, IInv, HistoryIsSound, ~isFirstPacket, ParsedSoFar,
         NEW c \in Packets, NEW q \in Packets, Along(c, q),
         NEW n \in Packets, NearBy(q, n), PassPacket(n, n)
  PROVE  /\ ParsedSoFar' /\ handed' = handed \cup {n}
         /\ \E r \in Packets :
              /\ n \in handed' /\ r \in handed' /\ n <= r
              /\ previousCorrectSeqNumber' = SeqNumber[n]
              /\ StreamIsAt(r)'
<1>1. /\ ProcessImmediately(n, n) /\ handed' = handed \cup {n}
      /\ previousCorrectSeqNumber' = SeqNumber[n]
  BY DEF PassPacket
<1>2. /\ StreamTypeOK /\ ~streamIsFirstPacket /\ StreamIsAt(q) /\ q \in handed
  BY DEF IInv, TypeOK, HistoryIsSound, Along, ComparesWith
<1>3. /\ ParsedSoFar'
      /\ (n <= q /\ StreamIsAt(q)') \/ (q < n /\ StreamIsAt(n)')
  BY <1>1, <1>2, FedNearBy
<1>4. n <= n
  BY StreamAssumption
<1> QED BY <1>1, <1>2, <1>3, <1>4

\* Where the network can put the next packet.
LEMMA ReceivedAlong ==
  ASSUME DeliveredOnce, IInv, BytesInPlace, HistoryIsSound,
         NEW c \in Packets, NEW q \in Packets, Along(c, q), NEW n \in Packets, Deliver(n)
  PROVE  /\ n \notin Arrived /\ Arrived' = Arrived \cup {n}
         /\ n <= c + Slack + Jump /\ c <= n + MaxDisplacement
         /\ \A k \in Arrived : k <= n + MaxDisplacement
         /\ NearBy(c, n)
<1>1. /\ c \in Nat /\ n \in Nat /\ \A k \in Packets : k \in Nat
      /\ Slack \in Nat /\ Jump \in Nat /\ MaxDisplacement \in Nat /\ MaxDisplacement <= Slack
      /\ MaxGap + 1 <= Jump /\ MaxStart <= Jump /\ MaxGap \in Nat /\ MaxStart \in Nat
      /\ Slack + Jump <= (SeqModulus - 1) \div 2 /\ (SeqModulus - 1) \div 2 \in Nat
      /\ Arrived \subseteq Packets /\ c \in Arrived
  BY OnceFacts DEF Along, ComparesWith
<1>2. n \notin Arrived
  <2>1. arrivals[n] \in Nat /\ arrivals[n] < Copies[n] /\ Copies[n] <= 1 /\ Copies[n] \in Nat
    BY AssemblerAssumption DEF Deliver, DeliveredOnce, HistoryIsSound
  <2>2. ~(arrivals[n] > 0)
    BY <2>1
  <2> QED BY <2>2 DEF Arrived
<1>3. Arrived' = Arrived \cup {n}
  BY ArrivalIsCounted
<1>4. \A k \in Arrived : k <= n + MaxDisplacement
  BY DEF Deliver, Arrived
<1>5. n <= c + Slack + Jump
  <2>1. n <= MaxStart \/ \E m \in Arrived : n <= m + 1 + MaxGap
    BY DEF Deliver, Arrived
  <2>2. \A m \in Arrived : m <= c + Slack
    BY DEF Deliver, Along, NotFarBeyond
  <2> QED BY <1>1, <2>1, <2>2
<1>6. c <= n + MaxDisplacement
  BY <1>1, <1>4
<1>7. NearBy(c, n)
  BY <1>1, <1>5, <1>6 DEF NearBy
<1> QED BY <1>2, <1>3, <1>4, <1>5, <1>6, <1>7

LEMMA FirstInStep ==
  ASSUME ~ParserThrows, IInv, BytesInPlace, DeliveredOnce, HistoryIsSound, ParsedSoFar,
         NEW n \in Packets, ProcessFirstPacket(n)
  PROVE  InStep'
<1>1. /\ isFirstPacket /\ streamIsFirstPacket /\ Arrived = {} /\ Deliver(n)
      /\ StreamTypeOK /\ PassPacket(n, n) /\ buffered' = buffered /\ pc' = "idle"
  BY DEF ProcessFirstPacket, HistoryIsSound, IInv, TypeOK, Return, Unwind, bufferVars
<1>2. ParsedSoFar' /\ StreamIsAt(n)'
  BY <1>1, FedFirst DEF PassPacket
<1>3. Len(buffered') = 0
  <2>1. \A i \in 1 .. Len(buffered) : FALSE
    BY <1>1 DEF HistoryIsSound
  <2>2. Len(buffered) \in Nat
    BY BufferFacts
  <2>3. Len(buffered) > 0 => 1 \in 1 .. Len(buffered)
    BY <2>2
  <2> QED BY <1>1, <2>1, <2>2, <2>3
<1>4. Arrived' = {n}
  BY <1>1, ArrivalIsCounted
<1>5. n <= n /\ n <= n + Slack + Jump /\ n <= n + Slack
  BY OnceFacts
<1>6. Along(n, n)'
  <2>1. ComparesWith(n, n)'
    BY <1>1, <1>2, <1>5 DEF ComparesWith, PassPacket
  <2>2. NotFarBeyond(n)'
    BY <1>1, <1>4, <1>5 DEF NotFarBeyond
  <2>3. WaitsAfter(n)'
    BY <1>3 DEF WaitsAfter
  <2> QED BY <2>1, <2>2, <2>3 DEF Along
<1>7. NothingTwice'
  BY <1>3 DEF NothingTwice
<1> QED BY <1>2, <1>6, <1>7 DEF InStep

LEMMA NextInStep ==
  ASSUME ~ParserThrows, NumbersFollowOrder, DeliveredOnce, IInv, BytesInPlace, HistoryIsSound,
         InStep, NEW n \in Packets, ProcessNextPacket(n)
  PROVE  InStep'
<1>1. /\ ~isFirstPacket /\ Delta(n) = 1 /\ Deliver(n) /\ PassPacket(n, n) /\ pc = "idle"
      /\ buffered' = buffered
      /\ \/ pc' = "scan" /\ nextSeqNumber' = (SeqNumber[n] + 1) % SeqModulus
         \/ pc' = "idle"
  BY DEF ProcessNextPacket, BeginProcessBufferedPackets, Return, Unwind, CallbackThrows, Deliver,
         bufferVars
<1>2. PICK c \in Packets, q \in Packets : Along(c, q)
  BY DEF InStep
<1>3. /\ n \notin Arrived /\ Arrived' = Arrived \cup {n} /\ NearBy(c, n)
      /\ n <= c + Slack + Jump
  BY <1>1, <1>2, ReceivedAlong
<1>4. /\ c \in Nat /\ n \in Nat /\ \A k \in Packets : k \in Nat
      /\ Slack \in Nat /\ Jump \in Nat /\ Arrived \subseteq Packets
      /\ \A i \in 1 .. Len(buffered) : buffered[i] \in Arrived /\ buffered[i] \in Nat
  BY OnceFacts
<1>5. n = c + 1
  <2>1. Delta(n) = SeqDelta(SeqNumber[n], SeqNumber[c])
    BY <1>2 DEF Delta, Along, ComparesWith
  <2>2. /\ c <= n => SeqDelta(SeqNumber[n], SeqNumber[c]) = n - c
        /\ n < c => SeqDelta(SeqNumber[n], SeqNumber[c]) > (SeqModulus - 1) \div 2
    BY <1>3, NumbersTellTheOrder
  <2>3. (SeqModulus - 1) \div 2 \in Nat /\ 1 <= (SeqModulus - 1) \div 2
    BY StreamAssumption
  <2> QED BY <1>1, <1>4, <2>1, <2>2, <2>3
<1>6. c <= n /\ n <= c + Slack + Jump /\ NearBy(q, n)
  <2>1. c <= n
    BY <1>4, <1>5
  <2> QED BY <1>2, <1>3, <2>1, AlongIsNear
<1>7. /\ ParsedSoFar' /\ handed' = handed \cup {n}
      /\ \E r \in Packets :
           /\ n \in handed' /\ r \in handed' /\ n <= r
           /\ previousCorrectSeqNumber' = SeqNumber[n]
           /\ StreamIsAt(r)'
  BY <1>1, <1>2, <1>6, PassedAlong DEF InStep
<1>8. PICK r \in Packets : ComparesWith(n, r)'
  BY <1>1, <1>7 DEF ComparesWith
<1>9. NotFarBeyond(n)'
  <2>1. \A k \in Arrived : k <= c + Slack
    BY <1>1, <1>2 DEF Along, NotFarBeyond
  <2>2. \A k \in Arrived' : k <= n + Slack /\ k <= n + Slack + Jump
    BY <1>3, <1>4, <1>5, <2>1
  <2> QED BY <1>1, <2>2 DEF NotFarBeyond
<1>10. WaitsAfter(n)'
  <2>1. \A i \in 1 .. Len(buffered) : c < buffered[i] /\ buffered[i] # n
    BY <1>1, <1>2, <1>3, <1>4 DEF Along, WaitsAfter, Leaving
  <2> QED BY <1>1, <1>4, <1>5, <2>1 DEF WaitsAfter
<1>11. NothingTwice'
  BY <1>1 DEF InStep, NothingTwice
<1> QED BY <1>7, <1>8, <1>9, <1>10, <1>11 DEF InStep, Along

\* Packets received that pass nothing: held back, or flushing the buffer first.
\* None is taken for a repetition.
LEMMA HeldBackInStep ==
  ASSUME ~ParserThrows, NumbersFollowOrder, DeliveredOnce, IInv, BytesInPlace, HistoryIsSound,
         InStep, NEW n \in Packets,
         ProcessDiscontinuity(n) \/ ProcessRepeatedPacket(n) \/ BufferPacket(n)
  PROVE  InStep' /\ ~ProcessRepeatedPacket(n)
<1>1. /\ Deliver(n) /\ pc = "idle" /\ ~isFirstPacket
      /\ UNCHANGED <<streamVars, correctVars, handed>>
  BY DEF ProcessDiscontinuity, ProcessRepeatedPacket, BufferPacket, Deliver
<1>2. PICK c \in Packets, q \in Packets : Along(c, q)
  BY DEF InStep
<1>3. /\ n \notin Arrived /\ Arrived' = Arrived \cup {n} /\ NearBy(c, n)
      /\ n <= c + Slack + Jump /\ \A k \in Arrived : k <= n + MaxDisplacement
  BY <1>1, <1>2, ReceivedAlong
<1>4. /\ c \in Nat /\ n \in Nat /\ \A k \in Packets : k \in Nat
      /\ Slack \in Nat /\ Jump \in Nat /\ Arrived \subseteq Packets /\ MaxDisplacement \in Nat
      /\ MaxCorrectionLength \in Nat /\ MaxCorrectionLength <= Slack
      /\ Slack + Jump <= (SeqModulus - 1) \div 2 /\ (SeqModulus - 1) \div 2 \in Nat
      /\ \A i \in 1 .. Len(buffered) : buffered[i] \in Arrived /\ buffered[i] \in Nat
      /\ c \in Arrived
  BY <1>2, OnceFacts DEF Along, ComparesWith
<1>5. /\ c <= n => Delta(n) = n - c
      /\ n < c => Delta(n) > (SeqModulus - 1) \div 2
  <2>1. Delta(n) = SeqDelta(SeqNumber[n], SeqNumber[c])
    BY <1>2 DEF Delta, Along, ComparesWith
  <2> QED BY <1>3, <2>1, NumbersTellTheOrder
<1>6. Delta(n) # 0
  BY <1>3, <1>4, <1>5
<1>7. ParsedSoFar'
  BY <1>1 DEF streamVars, InStep, ParsedSoFar, ParsedInOrder, ParserNeverJoinsAcrossAGap
<1>8. CASE ProcessDiscontinuity(n)
  <2>1. pc' = "flush" /\ current' = n /\ buffered' = buffered
    BY <1>8 DEF ProcessDiscontinuity, bufferVars
  <2>2. ComparesWith(c, q)'
    BY <1>1, <1>2, <2>1 DEF Along, ComparesWith, StreamIsAt, ClockIsAt, streamVars, correctVars
  <2>3. NotFarBeyond(c)'
    <3>1. n <= n + MaxDisplacement
      BY <1>4
    <3> QED BY <1>2, <1>3, <2>1, <3>1 DEF Along, NotFarBeyond
  <2>4. WaitsAfter(c)'
    BY <1>1, <1>2, <2>1 DEF Along, WaitsAfter, Leaving
  <2>5. NothingTwice'
    BY <2>1 DEF InStep, NothingTwice
  <2> QED BY <1>6, <1>7, <2>2, <2>3, <2>4, <2>5 DEF InStep, Along, ProcessRepeatedPacket
<1>9. CASE BufferPacket(n)
  <2>1. /\ buffered' = Append(buffered, n) /\ pc' \in {"idle", "full"}
        /\ ~(Delta(n) > MaxCorrectionLength)
    BY <1>1, <1>9 DEF BufferPacket, IsDiscontinuity
  <2>2. c < n /\ n <= c + Slack
    <3>1. n # c
      BY <1>3, <1>4
    <3>2. (SeqModulus - 1) \div 2 >= MaxCorrectionLength
      BY <1>4
    <3>3. ~(n < c)
      <4>1. Delta(n) \in Int
        <5>1. SeqNumber[n] \in SeqNumbers /\ previousCorrectSeqNumber \in SeqNumbers
          BY HeaderType DEF IInv, TypeOK, AssemblerTypeOK
        <5>2. Delta(n) \in SeqNumbers
          BY <5>1, SeqDeltaType DEF Delta
        <5> QED BY <5>2, StreamAssumption DEF SeqNumbers
      <4>2. n < c => Delta(n) > MaxCorrectionLength
        BY <1>4, <1>5, <3>2, <4>1
      <4> QED BY <2>1, <4>2
    <3>4. Delta(n) = n - c /\ n - c <= MaxCorrectionLength
      BY <1>4, <1>5, <2>1, <3>3
    <3> QED BY <1>4, <3>1, <3>3, <3>4
  <2>3. /\ Len(buffered') = Len(buffered) + 1 /\ Len(buffered) \in Nat
        /\ \A i \in 1 .. Len(buffered) : buffered'[i] = buffered[i]
        /\ buffered'[Len(buffered) + 1] = n
    BY <2>1, BufferFacts, AppendProperties
  <2>4. \A i \in 1 .. Len(buffered') : i = Len(buffered) + 1 \/ i \in 1 .. Len(buffered)
    BY <2>3
  <2>5. ComparesWith(c, q)'
    BY <1>1, <1>2, <2>1 DEF Along, ComparesWith, StreamIsAt, ClockIsAt, streamVars, correctVars
  <2>6. NotFarBeyond(c)'
    <3>1. \A k \in Arrived' : k <= c + Slack
      BY <1>1, <1>2, <1>3, <2>2 DEF Along, NotFarBeyond
    <3>2. \A k \in Arrived' : k <= c + Slack + Jump
      BY <1>2, <1>3 DEF Along, NotFarBeyond
    <3> QED BY <2>1, <3>1, <3>2 DEF NotFarBeyond
  <2>7. WaitsAfter(c)'
    <3>1. \A i \in 1 .. Len(buffered) : c < buffered[i]
      BY <1>1, <1>2 DEF Along, WaitsAfter, Leaving
    <3> QED BY <2>2, <2>3, <2>4, <3>1 DEF WaitsAfter
  <2>8. NothingTwice'
    <3>1. \A i \in 1 .. Len(buffered) : buffered[i] # n
      BY <1>3, <1>4
    <3>2. \A i, j \in 1 .. Len(buffered) : i # j => buffered[i] # buffered[j]
      BY DEF InStep, NothingTwice
    <3>3. ASSUME NEW i \in 1 .. Len(buffered'), NEW j \in 1 .. Len(buffered'), i # j
          PROVE  buffered'[i] # buffered'[j]
      <4>1. /\ i = Len(buffered) + 1 \/ i \in 1 .. Len(buffered)
            /\ j = Len(buffered) + 1 \/ j \in 1 .. Len(buffered)
        BY <2>4
      <4> QED BY <2>3, <3>1, <3>2, <3>3, <4>1
    <3> QED BY <3>3 DEF NothingTwice
  <2> QED BY <1>6, <1>7, <2>5, <2>6, <2>7, <2>8 DEF InStep, Along, ProcessRepeatedPacket
<1>10. CASE ProcessRepeatedPacket(n)
  BY <1>6, <1>10 DEF ProcessRepeatedPacket
<1> QED BY <1>8, <1>9, <1>10

LEMMA PassNearestInStep ==
  ASSUME ~ParserThrows, NumbersFollowOrder, DeliveredOnce, IInv, BytesInPlace, HistoryIsSound,
         ~isFirstPacket, InStep, PassNearestBufferedPacket
  PROVE  InStep'
<1>1. /\ pc \in {"flush", "full"} /\ arrivals' = arrivals
  BY PassNearestIntact DEF networkVars
<1>2. PICK i \in 1 .. Len(buffered), n \in Packets :
        /\ n = buffered[i] /\ IsNearest(i) /\ PassPacket(n, n) /\ RemoveBuffered(i)
        /\ \/ pc' = "flush" /\ pc = "flush" /\ current' = current
           \/ pc' = "scan" /\ nextSeqNumber' = (SeqNumber[n] + 1) % SeqModulus
  BY PassNearestIntact, BufferFacts DEF BeginProcessBufferedPackets
<1>3. PICK c \in Packets, q \in Packets : Along(c, q)
  BY DEF InStep
<1>4. /\ c \in Nat /\ n \in Nat /\ \A k \in Packets : k \in Nat
      /\ Slack \in Nat /\ Jump \in Nat /\ Arrived \subseteq Packets /\ Arrived' = Arrived
      /\ DOMAIN buffered = 1 .. Len(buffered) /\ Len(buffered) \in Nat
      /\ \A j \in 1 .. Len(buffered) :
           buffered[j] \in Arrived /\ buffered[j] \in Nat /\ buffered[j] \in Packets
  BY <1>1, OnceFacts, BufferFacts DEF Arrived
<1>5. \A j \in 1 .. Len(buffered) :
        c < buffered[j] /\ c <= buffered[j] /\ buffered[j] <= c + Slack + Jump
  BY <1>1, <1>3, <1>4 DEF Along, WaitsAfter, Leaving, NotFarBeyond
<1>6. /\ ParsedSoFar' /\ handed' = handed \cup {n}
      /\ \E r \in Packets :
           /\ n \in handed' /\ r \in handed' /\ n <= r
           /\ previousCorrectSeqNumber' = SeqNumber[n]
           /\ StreamIsAt(r)'
  <2>1. NearBy(q, n)
    BY <1>2, <1>3, <1>5, AlongIsNear
  <2> QED BY <1>2, <1>3, <2>1, PassedAlong DEF InStep
<1>7. PICK r \in Packets : ComparesWith(n, r)'
  BY <1>2, <1>6 DEF ComparesWith
<1>8. ASSUME NEW j \in 1 .. Len(buffered), j # i
      PROVE  n < buffered[j]
  <2>1. ASSUME NEW l \in 1 .. Len(buffered)
        PROVE  Delta(buffered[l]) = buffered[l] - c
    <3>1. buffered[l] - c <= SeqModulus - 1
      BY <1>3, <1>4, <1>5, AlongIsNear
    <3> QED BY <1>3, <1>4, <1>5, <3>1, AheadNumbers DEF Delta, Along, ComparesWith
  <2>2. Delta(buffered[i]) <= Delta(buffered[j])
    BY <1>2, <1>4 DEF IsNearest
  <2>3. buffered[i] # buffered[j]
    BY <1>8 DEF InStep, NothingTwice
  <2>4. Delta(buffered[i]) = n - c /\ Delta(buffered[j]) = buffered[j] - c
    BY <1>2, <2>1
  <2> QED BY <1>2, <1>4, <2>2, <2>3, <2>4
<1>9. /\ Len(buffered') = Len(buffered) - 1
      /\ \A j \in 1 .. Len(buffered) - 1 :
           buffered'[j] = IF j < i THEN buffered[j] ELSE buffered[j + 1]
  BY <1>2, RemovedShifts
<1>10. /\ \A j \in 1 .. Len(buffered') :
            \E l \in 1 .. Len(buffered) : l # i /\ buffered'[j] = buffered[l]
       /\ NothingTwice'
  <2>1. ASSUME NEW j \in 1 .. Len(buffered')
        PROVE  \E l \in 1 .. Len(buffered) : l # i /\ buffered'[j] = buffered[l]
    <3>1. CASE j < i
      BY <1>4, <1>9, <3>1
    <3>2. CASE ~(j < i)
      <4>1. j + 1 \in 1 .. Len(buffered) /\ j + 1 # i
        BY <1>4, <1>9, <3>2
      <4> QED BY <1>9, <3>2, <4>1
    <3> QED BY <3>1, <3>2
  <2>2. ASSUME NEW j \in 1 .. Len(buffered'), NEW l \in 1 .. Len(buffered'), j # l
        PROVE  buffered'[j] # buffered'[l]
    <3> DEFINE a == IF j < i THEN j ELSE j + 1
               b == IF l < i THEN l ELSE l + 1
    <3>1. a \in 1 .. Len(buffered) /\ b \in 1 .. Len(buffered) /\ a # b
      <4>1. /\ j \in 1 .. Len(buffered) - 1 /\ l \in 1 .. Len(buffered) - 1
            /\ Len(buffered) \in Nat
        BY <1>4, <1>9
      <4> QED BY <2>2, <4>1
    <3>2. buffered'[j] = buffered[a] /\ buffered'[l] = buffered[b]
      BY <1>9
    <3> QED BY <3>1, <3>2 DEF InStep, NothingTwice
  <2> QED BY <2>1, <2>2 DEF NothingTwice
<1>11. WaitsAfter(n)'
  BY <1>8, <1>10 DEF WaitsAfter
<1>12. NotFarBeyond(n)'
  <2>1. c <= n
    BY <1>2, <1>5
  <2>2. \A k \in Arrived : k <= c + Slack + Jump
    BY <1>3 DEF Along, NotFarBeyond
  <2>3. \A k \in Arrived : k <= n + Slack + Jump
    BY <1>4, <2>1, <2>2
  <2>4. CASE pc = "flush" /\ pc' = "flush" /\ current' = current
    BY <1>3, <1>4, <2>3, <2>4 DEF Along, NotFarBeyond
  <2>5. CASE pc = "full" /\ pc' = "scan"
    <3>1. \A k \in Arrived : k <= c + Slack
      BY <1>3, <2>5 DEF Along, NotFarBeyond
    <3>2. \A k \in Arrived : k <= n + Slack
      BY <1>4, <2>1, <3>1
    <3> QED BY <1>4, <2>3, <2>5, <3>2 DEF NotFarBeyond
  <2>6. pc' = "scan" => pc = "full"
    BY PassNearestIntact DEF BeginProcessBufferedPackets
  <2> QED BY <1>2, <2>4, <2>5, <2>6
<1> QED BY <1>6, <1>7, <1>10, <1>11, <1>12 DEF InStep, Along

LEMMA FlushEndsInStep ==
  ASSUME NumbersFollowOrder, DeliveredOnce, IInv, BytesInPlace, HistoryIsSound,
         ~isFirstPacket, InStep, FlushEnds
  PROVE  InStep'
<1>1. PICK n \in Packets : n = current
  BY DEF FlushEnds, IInv, TypeOK, AssemblerTypeOK
<1>2. /\ pc = "flush" /\ pc' = "idle" /\ arrivals' = arrivals /\ PassPacket(n, n)
      /\ buffered' = <<>>
  BY <1>1 DEF FlushEnds, Return, Unwind, bufferVars, networkVars
<1>3. PICK c \in Packets, q \in Packets : Along(c, q)
  BY DEF InStep
<1>4. /\ c \in Nat /\ n \in Nat /\ q \in Nat /\ \A k \in Packets : k \in Nat
      /\ Slack \in Nat /\ Jump \in Nat /\ MaxDisplacement \in Nat /\ MaxDisplacement <= Slack
      /\ Slack + Jump <= (SeqModulus - 1) \div 2 /\ (SeqModulus - 1) \div 2 \in Nat
      /\ Arrived \subseteq Packets /\ Arrived' = Arrived /\ handed \subseteq Arrived
      /\ n # NoPacket
  <2>1. \A k \in Packets : k # NoPacket
    BY StreamAssumption DEF NoPacket
  <2> QED BY <1>2, <2>1, OnceFacts DEF Arrived
<1>5. n \in Arrived
  BY <1>1, <1>4 DEF HistoryIsSound
<1>6. /\ \A k \in Arrived : k <= n + MaxDisplacement
      /\ n <= c + Slack + Jump /\ c <= q /\ q \in Arrived
  BY <1>1, <1>2, <1>3, <1>4, <1>5 DEF Along, NotFarBeyond, ComparesWith
<1>7. NearBy(q, n)
  <2>1. q - n <= Slack + Jump /\ n - q <= Slack + Jump
    BY <1>4, <1>6
  <2> QED BY <1>4, <2>1 DEF NearBy
<1>8. /\ ParsedSoFar' /\ handed' = handed \cup {n}
      /\ \E r \in Packets :
           /\ n \in handed' /\ r \in handed' /\ n <= r
           /\ previousCorrectSeqNumber' = SeqNumber[n]
           /\ StreamIsAt(r)'
  BY <1>2, <1>3, <1>7, PassedAlong DEF InStep
<1>9. PICK r \in Packets : ComparesWith(n, r)'
  BY <1>2, <1>8 DEF ComparesWith
<1>10. NotFarBeyond(n)'
  <2>1. \A k \in Arrived : k <= n + Slack /\ k <= n + Slack + Jump
    BY <1>4, <1>6
  <2> QED BY <1>2, <1>4, <2>1 DEF NotFarBeyond
<1>11. WaitsAfter(n)' /\ NothingTwice'
  <2>1. Len(buffered') = 0
    BY <1>2
  <2> QED BY <2>1 DEF WaitsAfter, NothingTwice
<1> QED BY <1>8, <1>9, <1>10, <1>11 DEF InStep, Along

LEMMA ScanHitInStep ==
  ASSUME ~ParserThrows, NumbersFollowOrder, DeliveredOnce, IInv, BytesInPlace, RemovalIsSound,
         HistoryIsSound, ~isFirstPacket, InStep, ScanHit
  PROVE  InStep'
<1>1. pc = "scan" /\ pc' = "scan" /\ buffered' = buffered /\ arrivals' = arrivals
  BY ScanHitPasses DEF ScanHit, networkVars
<1>2. PICK i \in 1 .. Len(buffered), n \in Packets :
        /\ n = buffered[i] /\ SeqNumber[n] = nextSeqNumber /\ ~Leaving(i)
        /\ PassPacket(n, n) /\ nextSeqNumber' = (nextSeqNumber + 1) % SeqModulus
        /\ \A j \in 1 .. Len(buffered) : (j = i \/ Leaving(j)) => Leaving(j)'
  BY ScanHitPasses
<1>3. PICK c \in Packets, q \in Packets : Along(c, q)
  BY DEF InStep
<1>4. /\ c \in Nat /\ n \in Nat /\ \A k \in Packets : k \in Nat
      /\ Slack \in Nat /\ Jump \in Nat /\ Arrived \subseteq Packets /\ Arrived' = Arrived
      /\ \A j \in 1 .. Len(buffered) : buffered[j] \in Arrived /\ buffered[j] \in Nat
  BY <1>1, OnceFacts DEF Arrived
<1>5. c < n /\ c <= n /\ n <= c + Slack + Jump
  BY <1>2, <1>3, <1>4 DEF Along, WaitsAfter, NotFarBeyond
<1>6. n = c + 1
  <2>1. n - c <= SeqModulus - 1
    BY <1>3, <1>5, AlongIsNear
  <2>2. SeqNumber[n] = (SeqNumber[c] + 1) % SeqModulus
    BY <1>1, <1>2, <1>3 DEF Along, ComparesWith
  <2> QED BY <1>5, <2>1, <2>2, AheadNumbers
<1>7. /\ ParsedSoFar' /\ handed' = handed \cup {n}
      /\ \E r \in Packets :
           /\ n \in handed' /\ r \in handed' /\ n <= r
           /\ previousCorrectSeqNumber' = SeqNumber[n]
           /\ StreamIsAt(r)'
  <2>1. NearBy(q, n)
    BY <1>3, <1>5, AlongIsNear
  <2> QED BY <1>2, <1>3, <2>1, PassedAlong DEF InStep
<1>8. PICK r \in Packets : ComparesWith(n, r)'
  BY <1>1, <1>2, <1>7 DEF ComparesWith
<1>9. NotFarBeyond(n)'
  <2>1. \A k \in Arrived : k <= c + Slack
    BY <1>1, <1>3 DEF Along, NotFarBeyond
  <2>2. \A k \in Arrived : k <= n + Slack /\ k <= n + Slack + Jump
    BY <1>4, <1>6, <2>1
  <2> QED BY <1>1, <1>4, <2>2 DEF NotFarBeyond
<1>10. WaitsAfter(n)'
  <2>1. ASSUME NEW j \in 1 .. Len(buffered), ~Leaving(j)'
        PROVE  n < buffered[j]
    <3>1. j # i /\ ~Leaving(j)
      BY <1>2, <2>1
    <3>2. c < buffered[j] /\ buffered[j] # n
      BY <1>2, <1>3, <3>1 DEF Along, WaitsAfter, InStep, NothingTwice
    <3> QED BY <1>4, <1>6, <3>2
  <2> QED BY <1>1, <2>1 DEF WaitsAfter
<1>11. NothingTwice'
  BY <1>1 DEF InStep, NothingTwice
<1> QED BY <1>7, <1>8, <1>9, <1>10, <1>11 DEF InStep, Along

LEMMA QuietInStep ==
  ASSUME IInv, BytesInPlace, RemovalIsSound, InStep,
         ScanAgain \/ ScanEnds \/ RemovePassed \/ RemoveEnds \/ SendReport
  PROVE  InStep'
<1>1. /\ UNCHANGED <<arrivals, handed, correctVars, parsed, joined, parserTail,
                     previousSeqNumber, previousTimestamp, samplesSum, streamIsFirstPacket>>
      /\ totals'.first = totals.first
      /\ pc \in {"idle", "scan", "remove"} /\ pc' \in {"idle", "scan", "remove"}
      /\ pc' = "scan" => pc = "scan" /\ nextSeqNumber' = nextSeqNumber
      /\ OnlyLeaves
  BY QuietStepsOnlyLeave
<1>2. PICK c \in Packets, q \in Packets : Along(c, q)
  BY DEF InStep
<1>3. ParsedSoFar'
  BY <1>1 DEF InStep, ParsedSoFar, ParsedInOrder, ParserNeverJoinsAcrossAGap
<1>4. ComparesWith(c, q)'
  BY <1>1, <1>2 DEF Along, ComparesWith, StreamIsAt, ClockIsAt, correctVars
<1>5. NotFarBeyond(c)'
  <2>1. Arrived' = Arrived
    BY <1>1 DEF Arrived
  <2> QED BY <1>1, <1>2, <2>1 DEF Along, NotFarBeyond
<1>6. PICK old \in [1 .. Len(buffered') -> 1 .. Len(buffered)] :
        /\ \A i, j \in 1 .. Len(buffered') : i # j => old[i] # old[j]
        /\ \A j \in 1 .. Len(buffered') :
             buffered'[j] = buffered[old[j]] /\ (Leaving(old[j]) => Leaving(j)')
  BY <1>1 DEF OnlyLeaves
<1>7. \A j \in 1 .. Len(buffered') : old[j] \in 1 .. Len(buffered)
  BY <1>6
<1>8. WaitsAfter(c)'
  BY <1>2, <1>6, <1>7 DEF Along, WaitsAfter
<1>9. NothingTwice'
  BY <1>6, <1>7 DEF InStep, NothingTwice
<1> QED BY <1>3, <1>4, <1>5, <1>8, <1>9 DEF InStep, Along

LEMMA StepStaysInStep ==
  ASSUME ~ParserThrows, NumbersFollowOrder, DeliveredOnce, IInv, BytesInPlace, RemovalIsSound,
         HistoryIsSound, OnceInv, Next
  PROVE  OnceInv'
<1>1. ASSUME NEW n \in Packets, ProcessPacket(n)
      PROVE  OnceInv'
  <2>1. CASE isFirstPacket
    <3>1. ProcessFirstPacket(n) /\ ~ProcessRepeatedPacket(n)
      BY <1>1, <2>1 DEF ProcessPacket, ProcessNextPacket, ProcessDiscontinuity,
                        ProcessRepeatedPacket, BufferPacket
    <3>2. InStep'
      BY <2>1, <3>1, FirstInStep DEF OnceInv
    <3>3. EverythingIsKept'
      BY <1>1, <3>1, ReceivedIsKept DEF OnceInv
    <3> QED BY <3>2, <3>3 DEF OnceInv, InStep
  <2>2. CASE ~isFirstPacket
    <3>1. /\ InStep
          /\ \/ ProcessNextPacket(n)
             \/ ProcessDiscontinuity(n) \/ ProcessRepeatedPacket(n) \/ BufferPacket(n)
      BY <1>1, <2>2 DEF OnceInv, ProcessPacket, ProcessFirstPacket
    <3>2. InStep'
      BY <3>1, NextInStep, HeldBackInStep
    <3>3. ~ProcessRepeatedPacket(n)
      BY <3>1, HeldBackInStep
    <3>4. EverythingIsKept'
      BY <1>1, <3>3, ReceivedIsKept DEF OnceInv
    <3> QED BY <3>2, <3>4 DEF OnceInv, InStep
  <2> QED BY <2>1, <2>2
<1>2. ASSUME Continue \/ SendReport
      PROVE  OnceInv'
  <2>1. EverythingIsKept'
    BY <1>2, ContinueKeepsEverything DEF OnceInv
  <2>2. isFirstPacket' = isFirstPacket
    BY <1>2 DEF Continue, PassNearestBufferedPacket, FlushEnds, ScanHit, ScanAgain, ScanEnds,
                RemovePassed, RemoveEnds, SendReport
  <2>3. CASE ~isFirstPacket
    <3>1. InStep'
      BY <1>2, <2>3, PassNearestInStep, FlushEndsInStep, ScanHitInStep, QuietInStep
      DEF OnceInv, Continue
    <3> QED BY <2>1, <2>2, <2>3, <3>1 DEF OnceInv
  <2>4. CASE isFirstPacket
    <3>1. SendReport
      BY <1>2, <2>4 DEF Continue, PassNearestBufferedPacket, FlushEnds, ScanHit, ScanAgain,
                        ScanEnds, RemovePassed, RemoveEnds, HistoryIsSound
    <3>2. UNCHANGED <<parsed, joined, parserTail, samplesSum, streamIsFirstPacket>>
      BY <3>1, QuietStepsOnlyLeave
    <3>3. ParsedSoFar'
      BY <2>4, <3>2 DEF OnceInv, ParsedSoFar, ParsedInOrder, ParserNeverJoinsAcrossAGap
    <3> QED BY <2>1, <2>2, <2>4, <3>3 DEF OnceInv
  <2> QED BY <2>3, <2>4
<1> QED BY <1>1, <1>2 DEF Next

LEMMA StaysInStep ==
  ASSUME ~ParserThrows, NumbersFollowOrder, DeliveredOnce
  PROVE  Spec => []OnceInv
<1>1. Init => OnceInv
  <2> SUFFICES ASSUME Init PROVE OnceInv
    OBVIOUS
  <2>1. EverythingIsKept
    BY DEF Init, EverythingIsKept
  <2>2. /\ isFirstPacket /\ parsed = <<>> /\ parserTail = NoPacket /\ joined = {} /\ samplesSum = 0
    BY DEF Init, StreamInit
  <2>3. ParsedSoFar
    BY <2>2 DEF ParsedSoFar, ParsedInOrder, ParserNeverJoinsAcrossAGap
  <2> QED BY <2>1, <2>2, <2>3 DEF OnceInv
<1>2. IInv /\ BytesInPlace /\ RemovalIsSound /\ HistoryIsSound /\ OnceInv /\ [Next]_vars
        => OnceInv'
  <2> SUFFICES ASSUME IInv, BytesInPlace, RemovalIsSound, HistoryIsSound, OnceInv, [Next]_vars
               PROVE  OnceInv'
    OBVIOUS
  <2>1. CASE UNCHANGED vars
    <3>1. UNCHANGED <<arrivals, streamVars, correctVars, handed, pc, nextSeqNumber,
                      buffered, removeList, pending, current, isFirstPacket>>
      BY <2>1 DEF vars, networkVars, scanVars
    <3>2. EverythingIsKept'
      BY <3>1 DEF OnceInv, EverythingIsKept, IsKept
    <3>3. ParsedSoFar => ParsedSoFar'
      BY <3>1 DEF streamVars, ParsedSoFar, ParsedInOrder, ParserNeverJoinsAcrossAGap
    <3>4. NothingTwice => NothingTwice'
      BY <3>1 DEF NothingTwice
    <3>5. ASSUME NEW c \in Packets, NEW q \in Packets, Along(c, q)
          PROVE  Along(c, q)'
      <4>1. ComparesWith(c, q)'
        BY <3>1, <3>5 DEF Along, ComparesWith, StreamIsAt, ClockIsAt, streamVars, correctVars
      <4>2. NotFarBeyond(c)'
        BY <3>1, <3>5 DEF Along, NotFarBeyond, Arrived
      <4>3. WaitsAfter(c)'
        BY <3>1, <3>5 DEF Along, WaitsAfter, Leaving
      <4> QED BY <4>1, <4>2, <4>3 DEF Along
    <3>6. InStep => InStep'
      BY <3>3, <3>4, <3>5 DEF InStep
    <3>7. isFirstPacket' = isFirstPacket
      BY <3>1
    <3> QED BY <3>2, <3>3, <3>6, <3>7 DEF OnceInv
  <2>2. CASE Next
    BY <2>2, StepStaysInStep
  <2> QED BY <2>1, <2>2
<1> QED BY <1>1, <1>2, BytesStayInPlace, RemovalStaysSound, HistoryStaysSound, PTL DEF Spec
-----------------------------------------------------------------------------
(* What the assembler promises *)

\* The numbers are enough to tell the order of the packets: those of the whole
\* stream, or, when the network duplicates none, of what can be on its way.
EnoughNumbers == ShortStream \/ DeliveredOnce

LEMMA OnceKeepsAll ==
  ASSUME IInv, OnceInv
  PROVE  ParsedSoFar /\ NothingForgotten
<1>1. DOMAIN buffered = 1 .. Len(buffered)
  BY DEF IInv, TypeOK, AssemblerTypeOK
<1> QED BY <1>1 DEF OnceInv, InStep, EverythingIsKept, IsKept, NothingForgotten

\* What the parser is given comes in the order the sender sent it
\* (RtpStream.cs:71-74 behind ProcessPacket), whatever the network loses and
\* delays.
THEOREM ParserIsFedInOrder ==
  ASSUME ~ParserThrows, NumbersFollowOrder, EnoughNumbers
  PROVE  Spec => []ParsedInOrder
<1>1. CASE ShortStream
  <2>1. ParserInv => ParsedInOrder
    BY DEF ParserInv, ParsedSoFar
  <2> QED BY <1>1, <2>1, ParserInductive, PTL
<1>2. CASE DeliveredOnce
  <2>1. IInv /\ OnceInv => ParsedInOrder
    BY OnceKeepsAll DEF ParsedSoFar
  <2> QED BY <1>2, <2>1, BytesStayInPlace, StaysInStep, PTL
<1> QED BY <1>1, <1>2 DEF EnoughNumbers

\* The parser never joins payloads that were not adjacent in the sender's stream
\* (RtpStream.cs:76-88), under the same conditions.
THEOREM ParserJoinsOnlyNeighbours ==
  ASSUME ~ParserThrows, NumbersFollowOrder, EnoughNumbers
  PROVE  Spec => []ParserNeverJoinsAcrossAGap
<1>1. CASE ShortStream
  <2>1. ParserInv => ParserNeverJoinsAcrossAGap
    BY DEF ParserInv, ParsedSoFar
  <2> QED BY <1>1, <2>1, ParserInductive, PTL
<1>2. CASE DeliveredOnce
  <2>1. IInv /\ OnceInv => ParserNeverJoinsAcrossAGap
    BY OnceKeepsAll DEF ParsedSoFar
  <2> QED BY <1>2, <2>1, BytesStayInPlace, StaysInStep, PTL
<1> QED BY <1>1, <1>2 DEF EnoughNumbers

\* The assembler only reorders (ProcessPacket as a whole, and the removal by
\* sorted index of RtpSequenceAssembler.cs:154-183): what was received is with
\* RtpStream or in the buffer, for every size of the buffer.
THEOREM NothingIsForgotten ==
  ASSUME ~ParserThrows, NumbersFollowOrder, EnoughNumbers
  PROVE  Spec => []NothingForgotten
<1>1. CASE ShortStream
  BY <1>1, ShortStreamForgetsNothing
<1>2. CASE DeliveredOnce
  <2>1. IInv /\ OnceInv => NothingForgotten
    BY OnceKeepsAll
  <2> QED BY <1>2, <2>1, BytesStayInPlace, StaysInStep, PTL
<1> QED BY <1>1, <1>2 DEF EnoughNumbers

\* The presentation clock is the sender's (RtpStream.cs:93-99): it adds up to the
\* difference of the first and the last packet accepted, for every wrap-around of
\* the time stamps.
THEOREM ClockAlwaysFollows ==
  ASSUME ~ParserThrows, NumbersFollowOrder, EnoughNumbers, ClockAdvances
  PROVE  Spec => []ClockFollowsSender
<1>1. ASSUME NEW q \in Packets, q \in handed, StreamIsAt(q)
      PROVE  ClockFollowsSender
  BY <1>1 DEF StreamIsAt, ClockIsAt, ClockFollowsSender
<1>2. CASE ShortStream
  <2>1. ParserInv => ClockFollowsSender
    BY <1>1 DEF ParserInv, ClockFollowsSender
  <2> QED BY <1>2, <2>1, ParserInductive, PTL
<1>3. CASE DeliveredOnce
  <2>1. IInv /\ HistoryIsSound /\ OnceInv => ClockFollowsSender
    BY <1>1 DEF HistoryIsSound, OnceInv, InStep, Along, ComparesWith, ClockFollowsSender
  <2> QED BY <1>3, <2>1, BytesStayInPlace, HistoryStaysSound, StaysInStep, PTL
<1> QED BY <1>2, <1>3 DEF EnoughNumbers

\* The reordering buffer does what it is for (RtpSequenceAssembler.cs:37-186):
\* nothing is forgotten, order is restored within a frame as far as the buffer
\* outlasts the delay, and the parser is always fed in order.
THEOREM OrderAlwaysRestored ==
  ASSUME ~ParserThrows, NumbersFollowOrder, EnoughNumbers, BufferOutlastsDelay
  PROVE  Spec => []OrderIsRestored
<1>1. NothingForgotten /\ (HeldOnlyBehindAGap /\ RestoredWithinAFrame) /\ ParsedInOrder
        => OrderIsRestored
  BY DEF OrderIsRestored
<1> QED BY <1>1, NothingIsForgotten, FramesAreRestored, ParserIsFedInOrder, PTL
=============================================================================
