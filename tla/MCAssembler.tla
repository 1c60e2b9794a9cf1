----------------------------- MODULE MCAssembler -----------------------------
(***************************************************************************)
(* Small instances of RtpSequenceAssembler.  LastPacket + 1 packets, in    *)
(* frames that share a timestamp; timestamps wrap around after the first   *)
(* frame, sequence numbers after the second packet.                        *)
(***************************************************************************)
EXTENDS RtpSequenceAssembler

CONSTANTS LastPacket,
          FrameStarts,  \* where a new frame begins
          Duplicated    \* the packets the network may deliver twice

MCPackets == 0 .. LastPacket
MCSeqNumber == [n \in MCPackets |-> (n + SeqModulus - 2) % SeqModulus]
MCSenderClock ==
  [n \in MCPackets |->
     Cardinality({start \in FrameStarts : start <= n}) + TimestampModulus - 1]
MCTimestamp == [n \in MCPackets |-> MCSenderClock[n] % TimestampModulus]
MCCopies == [n \in MCPackets |-> IF n \in Duplicated THEN 2 ELSE 1]
MCEmptyPackets == {n \in MCPackets : n % 5 = 3}
=============================================================================
