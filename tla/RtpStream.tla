------------------------------ MODULE RtpStream ------------------------------
(***************************************************************************)
(* One RTP stream: the statistics RtspClientSharp/Rtp/RtpStream.cs keeps   *)
(* of the packets it accepts, the calls it makes on its payload parser,    *)
(* and the receiver report RtcpReceiverReportsProvider draws from it.      *)
(*                                                                         *)
(* A packet is the natural number of its place in the sender's stream: the *)
(* header fields the code reads are functions of it, and its payload is    *)
(* the number itself.  The two are passed separately, because the sequence *)
(* assembler stores them separately.                                       *)
(***************************************************************************)
EXTENDS Integers, Sequences

CONSTANTS Packets,            \* the packets of the stream, in sending order
          SeqNumber,          \* packet -> RTP sequence number
          Timestamp,          \* packet -> RTP timestamp
          EmptyPackets,       \* the packets without a payload
          SeqModulus,         \* 2^16 in the code
          TimestampModulus,   \* 2^32 in the code
          CyclesModulus,      \* SequenceCycles is a ushort: 2^16 in the code
          MaxCumulativeLost   \* 0x7FFFFF in the code

ASSUME StreamAssumption ==
  /\ Packets \subseteq Nat
  /\ EmptyPackets \subseteq Packets
  /\ SeqModulus \in Nat \ {0, 1, 2, 3}
  /\ TimestampModulus \in Nat \ {0}
  /\ CyclesModulus \in Nat \ {0}
  /\ MaxCumulativeLost \in Nat
  /\ SeqNumber \in [Packets -> 0 .. SeqModulus - 1]
  /\ Timestamp \in [Packets -> 0 .. TimestampModulus - 1]

VARIABLES streamIsFirstPacket,    \* _isFirstPacket
          previousSeqNumber,      \* _previousSeqNumber, HighestSequenceNumberReceived
          previousTimestamp,      \* _previousTimestamp
          samplesSum,             \* _samplesSum
          packetsReceived,        \* PacketsReceivedSinceLastReset
          packetsLost,            \* PacketsLostSinceLastReset
          cumulativePacketLost,   \* CumulativePacketLost
          sequenceCycles,         \* SequenceCycles
          parserTail,             \* the payload the parser's state ends with
          joined,                 \* history: pairs it was fed with no reset between
          parsed,                 \* history: what the parser was given, in order
          totals                  \* history: the first packet, and perfect counters

streamVars == <<streamIsFirstPacket, previousSeqNumber, previousTimestamp, samplesSum,
                packetsReceived, packetsLost, cumulativePacketLost, sequenceCycles,
                parserTail, joined, parsed, totals>>

SeqNumbers == 0 .. SeqModulus - 1

\* What the parser's state ends with after ResetState, and the first packet before
\* there is one.
NoPacket == -1

\* (ushort)(a - b)
SeqDelta(a, b) == (a - b) % SeqModulus

StreamTypeOK ==
  /\ streamIsFirstPacket \in BOOLEAN
  /\ previousSeqNumber \in SeqNumbers
  /\ previousTimestamp \in 0 .. TimestampModulus - 1
  /\ samplesSum \in Nat /\ packetsReceived \in Nat /\ packetsLost \in Nat
  /\ cumulativePacketLost \in 0 .. MaxCumulativeLost
  /\ sequenceCycles \in 0 .. CyclesModulus - 1
  /\ totals \in [first : Packets \cup {NoPacket}, received : Nat, lost : Nat,
                 reportedReceived : Nat, reportedLost : Nat]
  /\ streamIsFirstPacket \/ totals.first \in Packets

StreamInit ==
  /\ streamIsFirstPacket = TRUE
  /\ previousSeqNumber = 0
  /\ previousTimestamp = 0
  /\ samplesSum = 0
  /\ packetsReceived = 0
  /\ packetsLost = 0
  /\ cumulativePacketLost = 0
  /\ sequenceCycles = 0
  /\ parserTail = NoPacket
  /\ joined = {}
  /\ parsed = <<>>
  /\ totals = [first |-> NoPacket, received |-> 0, lost |-> 0,
               reportedReceived |-> 0, reportedLost |-> 0]

\* A duplicate, or a packet from the older half of the sequence space.
IsStale(n) ==
  /\ ~streamIsFirstPacket
  /\ LET delta == SeqDelta(SeqNumber[n], previousSeqNumber)
     IN  delta = 0 \/ delta > (SeqModulus - 1) \div 2

LostCount(n) ==
  IF streamIsFirstPacket THEN 0 ELSE SeqDelta(SeqNumber[n], previousSeqNumber) - 1

\* Parse is the last thing ProcessImmediately does, and only for a payload.
CallsParser(n, payload) == ~IsStale(n) /\ payload \notin EmptyPackets

\* A mutant of CapLost: no cap.
CapLostNever(count) == count

CapLost(count) == IF count > MaxCumulativeLost THEN MaxCumulativeLost ELSE count

\* A mutant of TimestampDelta: signed difference.
TimestampDeltaSigned(n) == Timestamp[n] - previousTimestamp

\* unchecked(timestamp - _previousTimestamp), a uint
TimestampDelta(n) == (Timestamp[n] - previousTimestamp) % TimestampModulus

NextCycles(n) ==
  IF SeqNumber[n] < previousSeqNumber /\ ~streamIsFirstPacket
  THEN (sequenceCycles + 1) % CyclesModulus ELSE sequenceCycles

CountPacket(n) ==
  LET lost == LostCount(n)
  IN  /\ cumulativePacketLost' =
           IF lost = 0 THEN cumulativePacketLost ELSE CapLost(cumulativePacketLost + lost)
      /\ packetsLost' = packetsLost + lost
      /\ sequenceCycles' = NextCycles(n)
      /\ samplesSum' = IF streamIsFirstPacket THEN samplesSum
                       ELSE samplesSum + TimestampDelta(n)
      /\ packetsReceived' = packetsReceived + 1
      /\ totals' = [totals EXCEPT
                      !.first = IF streamIsFirstPacket THEN n ELSE @,
                      !.received = @ + 1,
                      !.lost = @ + lost]

\* A mutant of FeedParser: the parser keeps its state across a gap.
FeedParserNoReset(n, payload) ==
  \/ /\ payload \in EmptyPackets
     /\ UNCHANGED <<parserTail, joined, parsed>>
  \/ /\ payload \notin EmptyPackets
     /\ parserTail' = payload
     /\ joined' = IF parserTail = NoPacket THEN joined
                  ELSE joined \cup {<<parserTail, payload>>}
     /\ parsed' = Append(parsed, payload)

\* ResetState of the parser on a gap, then Parse, which continues what it holds.
FeedParser(n, payload) ==
  LET kept == IF LostCount(n) # 0 THEN NoPacket ELSE parserTail
  IN  \/ /\ payload \in EmptyPackets
         /\ parserTail' = kept
         /\ UNCHANGED <<joined, parsed>>
      \/ /\ payload \notin EmptyPackets
         /\ parserTail' = payload
         /\ joined' = IF kept = NoPacket THEN joined ELSE joined \cup {<<kept, payload>>}
         /\ parsed' = Append(parsed, payload)

ProcessImmediately(n, payload) ==
  \/ /\ IsStale(n)
     /\ UNCHANGED streamVars
  \/ /\ ~IsStale(n)
     /\ CountPacket(n)
     /\ FeedParser(n, payload)
     /\ previousSeqNumber' = SeqNumber[n]
     /\ previousTimestamp' = Timestamp[n]
     /\ streamIsFirstPacket' = FALSE

\* A mutant of CreateReceiverReport: the losses are not reset.
CreateReceiverReportKeepsLost ==
  /\ totals' = [totals EXCEPT !.reportedReceived = @ + packetsReceived,
                              !.reportedLost = @ + packetsLost]
  /\ packetsReceived' = 0
  /\ UNCHANGED <<streamIsFirstPacket, previousSeqNumber, previousTimestamp, samplesSum,
                 packetsLost, cumulativePacketLost, sequenceCycles,
                 parserTail, joined, parsed>>

\* CreateReceiverReport reads the counters, then resets the interval ones.
CreateReceiverReport ==
  /\ totals' = [totals EXCEPT !.reportedReceived = @ + packetsReceived,
                              !.reportedLost = @ + packetsLost]
  /\ packetsReceived' = 0
  /\ packetsLost' = 0
  /\ UNCHANGED <<streamIsFirstPacket, previousSeqNumber, previousTimestamp, samplesSum,
                 cumulativePacketLost, sequenceCycles,
                 parserTail, joined, parsed>>

\* extHighestSequenceNumberReceived of the report
ExtendedHighest == sequenceCycles * SeqModulus + previousSeqNumber
=============================================================================
