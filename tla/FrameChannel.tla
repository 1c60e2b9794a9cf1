---------------------------- MODULE FrameChannel ----------------------------
(***************************************************************************)
(* What RawFrameDispatcher promises, whatever the threads do: a bounded    *)
(* first-in first-out channel to one consumer that discards frames only    *)
(* after it was found full, takes nothing once it is closed, and ends only *)
(* when every frame it took was handed over or discarded.                  *)
(***************************************************************************)
EXTENDS Naturals, Sequences

CONSTANTS
  Frame,      \* the frames
  NoFrame,
  Capacity    \* the most frames waiting (RawFrameDispatcher.MaxQueuedFrames)

VARIABLES
  waiting,    \* the frames taken and not yet handed over
  inHand,     \* the frame with the consumer
  flushing,   \* the channel was full and frames are being discarded
  closed,
  ended

channelVars == <<waiting, inHand, flushing, closed, ended>>

Init ==
  /\ waiting = <<>>
  /\ inHand = NoFrame
  /\ flushing = FALSE /\ closed = FALSE /\ ended = FALSE

Accept ==
  /\ ~closed /\ ~flushing
  /\ Len(waiting) < Capacity
  /\ \E f \in Frame : waiting' = Append(waiting, f)
  /\ UNCHANGED <<inHand, flushing, closed, ended>>

Overflow ==
  /\ ~closed /\ ~flushing
  /\ Len(waiting) = Capacity
  /\ flushing' = TRUE
  /\ UNCHANGED <<waiting, inHand, closed, ended>>

Discard ==
  /\ flushing
  /\ waiting # <<>>
  /\ waiting' = Tail(waiting)
  /\ flushing' \in BOOLEAN
  /\ UNCHANGED <<inHand, closed, ended>>

FlushEnds ==
  /\ flushing
  /\ flushing' = FALSE
  /\ UNCHANGED <<waiting, inHand, closed, ended>>

HandOver ==
  /\ inHand = NoFrame
  /\ waiting # <<>>
  /\ inHand' = Head(waiting)
  /\ waiting' = Tail(waiting)
  /\ UNCHANGED <<flushing, closed, ended>>

Handled ==
  /\ inHand # NoFrame
  /\ inHand' = NoFrame
  /\ UNCHANGED <<waiting, flushing, closed, ended>>

Close ==
  /\ ~closed /\ ~flushing
  /\ closed' = TRUE
  /\ UNCHANGED <<waiting, inHand, flushing, ended>>

End ==
  /\ closed
  /\ waiting = <<>> /\ inHand = NoFrame
  /\ ended' = TRUE
  /\ UNCHANGED <<waiting, inHand, flushing, closed>>

Next ==
  \/ Accept \/ Overflow \/ Discard \/ FlushEnds
  \/ HandOver \/ Handled \/ Close \/ End

Spec == Init /\ [][Next]_channelVars
=============================================================================
