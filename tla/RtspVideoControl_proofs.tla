----------------------- MODULE RtspVideoControl_proofs -----------------------
(***************************************************************************)
(* Theorems about RtspVideoControl, for every set of pipeline modes and    *)
(* any number of sessions and calls.                                       *)
(***************************************************************************)
EXTENDS RtspVideoControl, TLAPS

(* What a thread that is `from` is after an operation that leaves its way  *)
(* alone.                                                                  *)
SameWay(f, g) == \A w \in Sessions : g[w].pc = f[w].pc

LEMMA SessionsAreNobodyElse ==
  /\ Nobody \notin Sessions /\ UI \notin Sessions
  /\ Sessions \subseteq 0..UI /\ Nobody \in 0..UI
BY ControlAssumption DEF Sessions, Nobody, UI

LEMMA IdleIsAThread == Idle \in Threads
BY DEF Idle, Threads

(* The operations on the threads.                                          *)
LEMMA OutdateKeepsWays ==
  ASSUME worker \in [Sessions -> Threads]
  PROVE  /\ OutdateFrames(worker) \in [Sessions -> Threads]
         /\ SameWay(worker, OutdateFrames(worker))
BY DEF OutdateFrames, SameWay, Threads

LEMMA RacedKeepsWays ==
  ASSUME worker \in [Sessions -> Threads]
  PROVE  /\ Raced(worker) \in [Sessions -> Threads]
         /\ SameWay(worker, Raced(worker))
<1>1. ASSUME NEW w \in Sessions
      PROVE  /\ Raced(worker)[w] \in Threads
             /\ Raced(worker)[w].pc = worker[w].pc
  <2>1. worker[w] \in Threads
    OBVIOUS
  <2>2. /\ [worker[w] EXCEPT !.raced = TRUE] \in Threads
        /\ [worker[w] EXCEPT !.raced = TRUE].pc = worker[w].pc
    BY <2>1 DEF Threads
  <2> QED
    BY <2>1, <2>2 DEF Raced
<1> QED
  BY <1>1 DEF Raced, SameWay

LEMMA PublishesMovesOne ==
  ASSUME worker \in [Sessions -> Threads], NEW w \in Sessions, Publishes(w)
  PROVE  /\ worker' \in [Sessions -> Threads]
         /\ worker'[w].pc = "publish"
         /\ \A v \in Sessions \ {w} : worker'[v] = worker[v]
<1> DEFINE t == [Idle EXCEPT !.pc = "publish"]
<1>1. worker' = [worker EXCEPT ![w] = t]
  BY DEF Publishes
<1>2. t \in Threads /\ t.pc = "publish"
  BY DEF Threads, Idle
<1> HIDE DEF t
<1> QED
  BY <1>1, <1>2

LEMMA RendersMovesOne ==
  ASSUME worker \in [Sessions -> Threads], NEW w \in Sessions, Renders(w)
  PROVE  /\ worker' \in [Sessions -> Threads]
         /\ worker'[w].pc = "render"
         /\ \A v \in Sessions \ {w} : worker'[v] = worker[v]
<1> DEFINE t == [worker[w] EXCEPT !.pc = "render", !.raced = FALSE]
<1>1. worker' = [worker EXCEPT ![w] = t]
  BY DEF Renders, Threads
<1>2. t \in Threads /\ t.pc = "render"
  BY DEF Threads
<1> QED
  BY <1>1, <1>2

LEMMA EndsMovesOne ==
  ASSUME worker \in [Sessions -> Threads], NEW w \in Sessions, Ends(w)
  PROVE  /\ worker' \in [Sessions -> Threads]
         /\ worker'[w].pc = "idle"
         /\ \A v \in Sessions \ {w} : worker'[v] = worker[v]
BY IdleIsAThread DEF Ends, Idle

LEMMA FallsBackMovesOne ==
  ASSUME worker \in [Sessions -> Threads], NEW w \in Sessions, FallsBack(w)
  PROVE  /\ worker' \in [Sessions -> Threads]
         /\ worker'[w].pc = "fallback"
         /\ \A v \in Sessions \ {w} : worker'[v] = worker[v]
<1> DEFINE t == [worker[w] EXCEPT !.pc = "fallback", !.cause = Cause,
                                  !.raced = FALSE]
<1>1. worker' = [worker EXCEPT ![w] = t]
  BY DEF FallsBack, Threads
<1>2. Cause \in {"failed", "wrong decoder"}
  BY DEF Cause
<1>3. t \in Threads /\ t.pc = "fallback"
  BY <1>2 DEF Threads
<1> QED
  BY <1>1, <1>3

LEMMA CaughtMovesOne ==
  ASSUME worker \in [Sessions -> Threads], NEW w \in Sessions, Caught(w)
  PROVE  /\ worker' \in [Sessions -> Threads]
         /\ worker'[w].pc \in {"idle", "fallback"}
         /\ \A v \in Sessions \ {w} : worker'[v] = worker[v]
BY EndsMovesOne, FallsBackMovesOne DEF Caught

LEMMA FallbackMovesOne ==
  ASSUME worker \in [Sessions -> Threads], NEW w \in Sessions, Fallback(w)
  PROVE  /\ worker' \in [Sessions -> Threads]
         /\ worker'[w].pc = "fallbackDrop"
         /\ \A v \in Sessions \ {w} : worker'[v] = worker[v]
<1> DEFINE t == [worker[w] EXCEPT !.pc = "fallbackDrop", !.cause = "no"]
<1>1. worker' = [worker EXCEPT ![w] = t]
  BY DEF Fallback, Threads
<1>2. t \in Threads /\ t.pc = "fallbackDrop"
  BY DEF Threads
<1> QED
  BY <1>1, <1>2

LEMMA ReceiveMovesOne ==
  ASSUME worker \in [Sessions -> Threads], bitmapNeeded \in BOOLEAN,
         NEW w \in Sessions, NEW key \in BOOLEAN, Receive(w, key)
  PROVE  /\ worker' \in [Sessions -> Threads]
         /\ \/ worker'[w].pc \in {"gpuGate", "cpuGate"}
            \/ worker'[w] = worker[w]
         /\ \A v \in Sessions \ {w} : worker'[v] = worker[v]
<1> DEFINE t(pc) == [pc |-> pc, key |-> key, current |-> TRUE,
                     raced |-> FALSE, recording |-> bitmapNeeded,
                     cause |-> "no"]
<1>1. \A pc \in {"gpuGate", "cpuGate"} : t(pc) \in Threads /\ t(pc).pc = pc
  BY DEF Threads
<1>2. \/ worker' = worker
      \/ \E pc \in {"gpuGate", "cpuGate"} : worker' = [worker EXCEPT ![w] = t(pc)]
  BY DEF Receive
<1> HIDE DEF t
<1> QED
  BY <1>1, <1>2

LEMMA GateMovesOne ==
  ASSUME worker \in [Sessions -> Threads], NEW w \in Sessions, Gate(w)
  PROVE  /\ worker' \in [Sessions -> Threads]
         /\ worker'[w].pc \in {"idle", "gpuLock", "cpuLock"}
         /\ \A v \in Sessions \ {w} : worker'[v] = worker[v]
<1>1. CASE Ends(w)
  BY <1>1, EndsMovesOne
<1>2. CASE ~Ends(w)
  <2> DEFINE t == [worker[w] EXCEPT
                     !.pc = IF @ = "gpuGate" THEN "gpuLock" ELSE "cpuLock",
                     !.raced = Dropping]
  <2>1. worker' = [worker EXCEPT ![w] = t]
    BY <1>2 DEF Gate, Threads
  <2>2. Dropping \in BOOLEAN
    BY DEF Dropping
  <2>3. t \in Threads /\ t.pc \in {"gpuLock", "cpuLock"}
    BY <2>2 DEF Threads
  <2> QED
    BY <2>1, <2>3
<1> QED
  BY <1>1, <1>2

LEMMA FallbackDropMovesOne ==
  ASSUME worker \in [Sessions -> Threads], NEW w \in Sessions,
         FallbackDrop(w)
  PROVE  /\ worker' \in [Sessions -> Threads]
         /\ worker'[w].pc = "fallbackDropEnd"
         /\ \A v \in Sessions \ {w} : worker'[v].pc = worker[v].pc
<1> DEFINE f == Raced(worker)
<1>1. f \in [Sessions -> Threads] /\ SameWay(worker, f)
  BY RacedKeepsWays
<1>2. worker' = [f EXCEPT ![w].pc = "fallbackDropEnd"]
  BY DEF FallbackDrop
<1> HIDE DEF f
<1> DEFINE t == [f[w] EXCEPT !.pc = "fallbackDropEnd"]
<1>3. worker' = [f EXCEPT ![w] = t]
  BY <1>1, <1>2 DEF Threads
<1>4. t \in Threads /\ t.pc = "fallbackDropEnd"
  <2>1. f[w] \in Threads
    BY <1>1
  <2> HIDE DEF f
  <2> QED
    BY <2>1 DEF Threads
<1> HIDE DEF t
<1> QED
  BY <1>1, <1>3, <1>4 DEF SameWay

LEMMA FallbackDropEndMovesOne ==
  ASSUME worker \in [Sessions -> Threads], NEW w \in Sessions,
         FallbackDropEnd(w)
  PROVE  /\ worker' \in [Sessions -> Threads]
         /\ worker'[w].pc \in {"idle", "cpuGate"}
         /\ \A v \in Sessions \ {w} : worker'[v] = worker[v]
<1>1. CASE Ends(w)
  BY <1>1, EndsMovesOne
<1>2. CASE ~Ends(w)
  <2> DEFINE t == [worker[w] EXCEPT !.pc = "cpuGate", !.recording = FALSE]
  <2>1. worker' = [worker EXCEPT ![w] = t]
    BY <1>2 DEF FallbackDropEnd, Threads
  <2>2. t \in Threads /\ t.pc = "cpuGate"
    BY DEF Threads
  <2> QED
    BY <2>1, <2>2
<1> QED
  BY <1>1, <1>2

-----------------------------------------------------------------------------
(***************************************************************************)
(* The type invariant.                                                     *)
(***************************************************************************)

Chains == [of : 0..MaxStarts,
           state : {"whole", "dropped", "hidden", "missed", "excused"}]
DecoderRecords == [by : {"none", "software", "readback", "gpu"},
                   hardware : BOOLEAN]

LEMMA MissKeepsType ==
  ASSUME chain \in Chains, NEW w \in Sessions,
         NEW why \in {"hidden", "missed"}, Miss(w, why)
  PROVE  chain' \in Chains
BY SessionsAreNobodyElse, ControlAssumption DEF Miss, Chains, Sessions

LEMMA FeedKeepsType ==
  ASSUME chain \in Chains, fault \in BOOLEAN, NEW w \in Sessions, Feed(w)
  PROVE  chain' \in Chains /\ fault' \in BOOLEAN
<1>1. Explained(w) \in BOOLEAN
  BY DEF Explained
<1>2. chain' \in Chains
  BY ControlAssumption DEF Feed, Chains, Sessions
<1>3. fault' \in BOOLEAN
  BY <1>1 DEF Feed
<1> QED
  BY <1>2, <1>3

LEMMA DecodersAreRecords ==
  ASSUME decoder \in DecoderRecords, NEW by \in {"software", "readback", "gpu"}
  PROVE  Decoders(by) \subseteq DecoderRecords
BY DEF Decoders, DecoderRecords, NoDecoder

LEMMA Initially == Init => TypeOK
<1> SUFFICES ASSUME Init PROVE TypeOK
  OBVIOUS
<1>1. worker \in [Sessions -> Threads]
  BY IdleIsAThread DEF Init
<1>2. /\ restart \in BOOLEAN /\ playing \in BOOLEAN
      /\ requested \in BOOLEAN /\ bitmapNeeded \in BOOLEAN
      /\ drawImage \in BOOLEAN /\ noVideo \in BOOLEAN
      /\ waitForKey \in BOOLEAN /\ pending \in BOOLEAN
      /\ unseen \in BOOLEAN /\ fault \in BOOLEAN
      /\ cutShort \in BOOLEAN /\ abandoned \in BOOLEAN
      /\ activity \in BOOLEAN
  BY DEF Init
<1>3. /\ chain \in [of : 0..MaxStarts, state : {"whole", "dropped", "hidden",
                                                "missed", "excused"}]
      /\ decoder \in [by : {"none", "software", "readback", "gpu"},
                      hardware : BOOLEAN]
      /\ calls \in 0..MaxCalls
      /\ starts \in 0..MaxStarts /\ source \in 0..MaxStarts /\ lock \in 0..UI
  BY ControlAssumption DEF Init, NoDecoder, Nothing, Nobody, UI
<1>4. failures \in 0..GpuFailures
  BY ControlAssumption DEF Init
<1> QED
  BY <1>1, <1>2, <1>3, <1>4 DEF Init, TypeOK

(* While a Start is under way there is a session left for it.              *)
StartHasRoom ==
  /\ restart => \/ ui = "join"
                \/ ui \in {"drop", "dropEnd", "clear"} /\ next = "stop"
  /\ \/ restart
     \/ ui \in {"start", "run"}
     \/ ui \in {"drop", "dropEnd"} /\ next = "start"
     => starts < MaxStarts

UiAction ==
  \/ Stop \/ Start \/ FindStale \/ SetDrawImage \/ SetBitmapRecording
  \/ \E m \in Modes : SetPipelineMode(m)
  \/ Resize \/ Paint \/ UiStep

LEMMA UiTypeStep ==
  ASSUME TypeOK, StartHasRoom, UiAction
  PROVE  TypeOK'
<1> USE DEF TypeOK, vars, display, bitmap, settings, session, timing, decoding
<1>1. ASSUME NEW again \in BOOLEAN, Call, BeginStop(again)
      PROVE  TypeOK'
  <2>1. restart' \in BOOLEAN /\ playing' \in BOOLEAN
    BY <1>1 DEF BeginStop
  <2>2. worker' \in [Sessions -> Threads]
    BY <1>1, OutdateKeepsWays DEF BeginStop
  <2>3. calls' \in 0..MaxCalls /\ source' \in 0..MaxStarts
    BY <1>1, ControlAssumption DEF Call, BeginStop
  <2> QED
    BY <1>1, <2>1, <2>2, <2>3 DEF BeginStop
<1>2. CASE Stop
  BY <1>1, <1>2 DEF Stop
<1>3. CASE Start
  <2>1. CASE playing
    BY <1>1, <1>3, <2>1 DEF Start
  <2>2. CASE ~playing
    <3>1. calls' \in 0..MaxCalls
      BY <1>3, ControlAssumption DEF Start, Call
    <3> QED
      BY <1>3, <2>2, <3>1 DEF Start
  <2> QED
    BY <2>1, <2>2
<1>4. CASE FindStale
  BY <1>4 DEF FindStale
<1>5. CASE SetDrawImage
  <2>1. /\ drawImage' \in BOOLEAN /\ activity' \in BOOLEAN
        /\ pending' \in BOOLEAN /\ unseen' \in BOOLEAN
        /\ abandoned' \in BOOLEAN
    BY <1>5 DEF SetDrawImage, ClearPresentedFrame, NothingPends
  <2>2. /\ calls' \in 0..MaxCalls
        /\ front' \in {"none", "published", "late"}
    BY <1>5, ControlAssumption DEF SetDrawImage, Call, ClearPresentedFrame
  <2> QED
    BY <1>5, <2>1, <2>2 DEF SetDrawImage
<1>6. CASE SetBitmapRecording
  <2>1. requested' \in BOOLEAN /\ bitmapNeeded' \in BOOLEAN
    BY <1>6 DEF SetBitmapRecording
  <2>2. calls' \in 0..MaxCalls
    BY <1>6, ControlAssumption DEF SetBitmapRecording, Call
  <2> QED
    BY <1>6, <2>1, <2>2 DEF SetBitmapRecording
<1>7. ASSUME NEW m \in Modes, SetPipelineMode(m) PROVE TypeOK'
  BY <1>7, ControlAssumption DEF SetPipelineMode, Call
<1>8. ASSUME ClearPresentedFrame
      PROVE  /\ pending' \in BOOLEAN /\ unseen' \in BOOLEAN
             /\ abandoned' \in BOOLEAN
             /\ front' \in {"none", "published", "late"}
  BY <1>8 DEF ClearPresentedFrame, NothingPends
<1>9. CASE Resize
  <2>1. calls' \in 0..MaxCalls
    BY <1>9, ControlAssumption DEF Resize, Call
  <2> QED
    BY <1>8, <1>9, <2>1 DEF Resize
<1>10. CASE Paint
  <2>1. /\ unseen' \in BOOLEAN /\ pending' \in BOOLEAN
        /\ abandoned' \in BOOLEAN
    BY <1>10 DEF Paint, NothingPends
  <2> QED
    BY <1>10, <2>1 DEF Paint
<1>11. ASSUME NEW late \in BOOLEAN, Waits(late)
       PROVE  outlived' \subseteq Sessions
  BY <1>11 DEF Waits
<1>12. ASSUME NEW late \in BOOLEAN, Joined(late) PROVE TypeOK'
  <2>1. /\ requested' \in BOOLEAN /\ bitmapNeeded' \in BOOLEAN
        /\ noVideo' \in BOOLEAN /\ activity' \in BOOLEAN
    BY <1>12 DEF Joined, StopRecording
  <2>2. outlived' \subseteq Sessions
    BY <1>11, <1>12 DEF Joined
  <2> QED
    BY <1>12, <2>1, <2>2 DEF Joined
<1>19. ASSUME NEW late \in BOOLEAN, StopThrows(late) PROVE TypeOK'
  <2>1. requested' \in BOOLEAN /\ bitmapNeeded' \in BOOLEAN
    BY <1>19 DEF StopThrows, StopRecording
  <2>2. outlived' \subseteq Sessions
    BY <1>11, <1>19 DEF StopThrows
  <2>3. restart' \in BOOLEAN /\ cutShort' \in BOOLEAN
    BY <1>19 DEF StopThrows
  <2> QED
    BY <1>19, <2>1, <2>2, <2>3 DEF StopThrows
<1>13. CASE ResetForStart
  <2>1. /\ waitForKey' \in BOOLEAN /\ noVideo' \in BOOLEAN
        /\ activity' \in BOOLEAN /\ cutShort' \in BOOLEAN
    BY <1>13 DEF ResetForStart
  <2>2. worker' \in [Sessions -> Threads]
    BY <1>13, OutdateKeepsWays DEF ResetForStart
  <2>3. failures' \in 0..GpuFailures
    BY <1>13, ControlAssumption DEF ResetForStart
  <2> QED
    BY <1>8, <1>13, <2>1, <2>2, <2>3 DEF ResetForStart
<1>14. CASE Run
  <2>1. playing' \in BOOLEAN /\ bitmapNeeded' \in BOOLEAN
    BY <1>14 DEF Run
  <2>2. starts' \in 0..MaxStarts /\ source' \in 0..MaxStarts
    BY <1>14, ControlAssumption DEF Run, StartHasRoom
  <2> QED
    BY <1>14, <2>1, <2>2 DEF Run
<1>15. CASE Drop
  BY <1>15, RacedKeepsWays, ControlAssumption DEF Drop, NoDecoder, Nothing
<1>16. CASE DropEnd
  <2>1. waitForKey' \in BOOLEAN
    BY <1>16 DEF DropEnd
  <2>2. /\ ui' \in {"clear", "run", "idle"}
        /\ next' \in {"nothing", "stop", "start", "timeout", "mode"}
    BY <1>16 DEF DropEnd, DropReturns
  <2> QED
    BY <1>16, <2>1, <2>2 DEF DropEnd
<1>17. CASE ClearAfterStop
  <2>1. restart' \in BOOLEAN /\ cutShort' \in BOOLEAN
    BY <1>17 DEF ClearAfterStop
  <2>2. ui' \in {"start", "idle"}
    BY <1>17 DEF ClearAfterStop
  <2> QED
    BY <1>8, <1>17, <2>1, <2>2 DEF ClearAfterStop
<1>20. CASE ClearAfterTimeout
  <2>1. requested' \in BOOLEAN /\ bitmapNeeded' \in BOOLEAN
    BY <1>20 DEF ClearAfterTimeout, StopRecording
  <2> QED
    BY <1>8, <1>20, <2>1 DEF ClearAfterTimeout
<1>18. CASE EnterNoVideo
  <2>1. noVideo' \in BOOLEAN
    BY <1>18 DEF EnterNoVideo
  <2> QED
    BY <1>18, <2>1 DEF EnterNoVideo
<1> QED
  BY <1>2, <1>3, <1>4, <1>5, <1>6, <1>7, <1>9, <1>10, <1>12, <1>13, <1>14,
     <1>15, <1>16, <1>17, <1>18, <1>19, <1>20 DEF UiAction, UiStep

LEMMA WorkerTypeStep ==
  ASSUME TypeOK, NEW w \in Sessions,
         WorkerStep(w) \/ \E key \in BOOLEAN : Receive(w, key)
  PROVE  TypeOK'
<1> USE DEF TypeOK, vars, Quiet, display, bitmap, settings, session, timing,
            decoding, Chains, DecoderRecords
<1>1. ASSUME NEW key \in BOOLEAN, Receive(w, key) PROVE TypeOK'
  <2>1. worker' \in [Sessions -> Threads]
    BY <1>1, ReceiveMovesOne
  <2>2. chain' \in Chains
    BY <1>1, MissKeepsType DEF Receive
  <2> QED
    BY <1>1, <2>1, <2>2 DEF Receive
<1>2. CASE Gate(w)
  <2>1. worker' \in [Sessions -> Threads]
    BY <1>2, GateMovesOne
  <2>2. chain' \in Chains
    BY <1>2, MissKeepsType DEF Gate
  <2> QED
    BY <1>2, <2>1, <2>2 DEF Gate
<1>3. CASE CpuDecode(w)
  <2> USE DEF CpuDecode, CpuFails, CpuDecodes, CpuThrows
  <2>1. requested' \in BOOLEAN /\ bitmapNeeded' \in BOOLEAN
    BY <1>3 DEF RecordingFails, StopRecording
  <2>2. decoder' \in DecoderRecords
    BY <1>3, DecodersAreRecords
  <2>3. chain' \in Chains /\ fault' \in BOOLEAN
    BY <1>3, MissKeepsType, FeedKeepsType
  <2>4. worker' \in [Sessions -> Threads]
    BY <1>3, PublishesMovesOne, EndsMovesOne
  <2>5. /\ waitForKey' \in BOOLEAN /\ noVideo' \in BOOLEAN
        /\ pending' \in BOOLEAN /\ abandoned' \in BOOLEAN
        /\ activity' \in BOOLEAN
    BY <1>3 DEF Decoded
  <2>6. lock' \in 0..UI
    BY <1>3, SessionsAreNobodyElse
  <2> QED
    BY <1>3, <2>1, <2>2, <2>3, <2>4, <2>5, <2>6
<1>4. CASE Publish(w)
  <2>1. worker' \in [Sessions -> Threads]
    BY <1>4, EndsMovesOne DEF Publish
  <2>2. /\ pending' \in BOOLEAN /\ waitForKey' \in BOOLEAN
        /\ unseen' \in BOOLEAN /\ abandoned' \in BOOLEAN
    BY <1>4 DEF Publish, Shows, NothingPends
  <2>3. front' \in {"none", "published", "late"} /\ lock' \in 0..UI
    BY <1>4, SessionsAreNobodyElse DEF Publish, Shows, Exchanged
  <2> QED
    BY <1>4, <2>1, <2>2, <2>3 DEF Publish
<1>5. CASE GpuDecode(w)
  <2>1. decoder' \in DecoderRecords
    BY <1>5, DecodersAreRecords DEF GpuDecode, GpuThrows, GpuFails, GpuDecodes
  <2>2. chain' \in Chains /\ fault' \in BOOLEAN
    BY <1>5, MissKeepsType, FeedKeepsType
    DEF GpuDecode, GpuThrows, GpuFails, GpuDecodes
  <2>3. worker' \in [Sessions -> Threads]
    BY <1>5, RendersMovesOne, EndsMovesOne, FallsBackMovesOne, CaughtMovesOne
    DEF GpuDecode, GpuThrows, GpuFails, GpuDecodes
  <2>4. /\ waitForKey' \in BOOLEAN /\ noVideo' \in BOOLEAN
        /\ activity' \in BOOLEAN
    BY <1>5 DEF GpuDecode, GpuThrows, GpuFails, GpuDecodes, Decoded, Caught
  <2>5. lock' \in 0..UI
    BY <1>5, SessionsAreNobodyElse
    DEF GpuDecode, GpuThrows, GpuFails, GpuDecodes
  <2>6. failures' \in 0..GpuFailures
    BY <1>5, ControlAssumption DEF GpuDecode, GpuThrows, GpuFails, GpuDecodes
  <2> QED
    BY <1>5, <2>1, <2>2, <2>3, <2>4, <2>5, <2>6 DEF GpuDecode
<1>6. CASE Render(w)
  <2>1. worker' \in [Sessions -> Threads]
    BY <1>6, EndsMovesOne, CaughtMovesOne DEF Render
  <2>2. waitForKey' \in BOOLEAN /\ lock' \in 0..UI
    BY <1>6, SessionsAreNobodyElse DEF Render, Caught
  <2> QED
    BY <1>6, <2>1, <2>2 DEF Render
<1>7. CASE Fallback(w)
  <2>1. worker' \in [Sessions -> Threads]
    BY <1>7, FallbackMovesOne
  <2> QED
    BY <1>7, <2>1, ControlAssumption DEF Fallback
<1>8. CASE FallbackDrop(w)
  <2>1. worker' \in [Sessions -> Threads]
    BY <1>8, FallbackDropMovesOne
  <2>2. chain' \in Chains /\ decoder' \in DecoderRecords
    BY <1>8, ControlAssumption DEF FallbackDrop, Nothing, NoDecoder
  <2> QED
    BY <1>8, <2>1, <2>2 DEF FallbackDrop
<1>9. CASE FallbackDropEnd(w)
  <2>1. worker' \in [Sessions -> Threads] /\ waitForKey' \in BOOLEAN
    BY <1>9, FallbackDropEndMovesOne DEF FallbackDropEnd
  <2> QED
    BY <1>9, <2>1 DEF FallbackDropEnd
<1> QED
  BY <1>1, <1>2, <1>3, <1>4, <1>5, <1>6, <1>7, <1>8, <1>9 DEF WorkerStep

-----------------------------------------------------------------------------
(***************************************************************************)
(* The inductive invariant.  A thread that publishes or renders is inside  *)
(* the lock (LockIsHeld), so decoders are not dropped meanwhile.  When the *)
(* timeout sets noVideo, a frame may still be published, until the drop of *)
(* the decoders, which waits for the lock (PublishedBeforeDrop); what was  *)
(* published is then cleared (ShownUntilClear).  A later frame has left    *)
(* the state when it is published.                                         *)
(***************************************************************************)
LockIsHeld ==
  \A w \in Sessions : worker[w].pc \in {"publish", "render"} => lock = w

HiddenIsBlank == ~drawImage => front # "published"

PublishedBeforeDrop ==
  noVideo => \A w \in Sessions :
    worker[w].pc = "publish" => ui = "drop" /\ next = "timeout"

ShownUntilClear ==
  noVideo /\ front = "published"
    => ui \in {"drop", "dropEnd", "clear"} /\ next = "timeout"

IInv ==
  /\ TypeOK /\ StartHasRoom
  /\ LockIsHeld /\ HiddenIsBlank /\ PublishedBeforeDrop /\ ShownUntilClear
  /\ PendingIsVisible

LEMMA UiKeepsWays ==
  ASSUME TypeOK, UiAction
  PROVE  /\ \A w \in Sessions : worker'[w].pc = worker[w].pc
         /\ lock' = lock
<1> USE DEF display, bitmap, settings, session, timing, decoding
<1>1. worker \in [Sessions -> Threads]
  BY DEF TypeOK
<1>2. /\ lock' = lock
      /\ worker' \in {worker, OutdateFrames(worker), Raced(worker)}
  <2>1. CASE Stop \/ Start
    BY <2>1 DEF Stop, Start, BeginStop
  <2>2. CASE \/ FindStale \/ SetDrawImage \/ SetBitmapRecording \/ Resize
             \/ Paint \/ \E m \in Modes : SetPipelineMode(m)
    BY <2>2 DEF FindStale, SetDrawImage, SetBitmapRecording, Resize, Paint,
                SetPipelineMode
  <2>3. CASE UiStep
    BY <2>3 DEF UiStep, Joined, StopThrows, ResetForStart, Run, Drop, DropEnd,
                ClearAfterStop, ClearAfterTimeout, EnterNoVideo
  <2> QED
    BY <2>1, <2>2, <2>3 DEF UiAction
<1> QED
  BY <1>1, <1>2, OutdateKeepsWays, RacedKeepsWays DEF SameWay

(* What the UI thread does to what is shown.                               *)
LEMMA UiStepKeeps ==
  ASSUME IInv, UiAction
  PROVE  /\ StartHasRoom' /\ LockIsHeld' /\ HiddenIsBlank'
         /\ PublishedBeforeDrop' /\ ShownUntilClear' /\ PendingIsVisible'
<1> DEFINE Goal == /\ StartHasRoom' /\ HiddenIsBlank' /\ PublishedBeforeDrop'
                   /\ ShownUntilClear' /\ PendingIsVisible'
<1>1. /\ \A w \in Sessions : worker'[w].pc = worker[w].pc
      /\ lock' = lock
  BY UiKeepsWays DEF IInv
<1>2. LockIsHeld'
  BY <1>1 DEF IInv, LockIsHeld
<1> USE DEF display, bitmap, settings, session, timing, decoding,
            IInv, StartHasRoom, HiddenIsBlank, PublishedBeforeDrop,
            ShownUntilClear, PendingIsVisible
<1>3. ASSUME Stop \/ Start PROVE Goal
  BY <1>1, <1>3 DEF Stop, Start, BeginStop, Call
<1>4. ASSUME FindStale PROVE Goal
  BY <1>1, <1>4 DEF FindStale
<1>5. ASSUME SetDrawImage PROVE Goal
  BY <1>1, <1>5 DEF SetDrawImage, Call, ClearPresentedFrame, NothingPends
<1>6. ASSUME SetBitmapRecording PROVE Goal
  BY <1>1, <1>6 DEF SetBitmapRecording, Call
<1>7. ASSUME NEW m \in Modes, SetPipelineMode(m) PROVE Goal
  BY <1>1, <1>7 DEF SetPipelineMode, Call
<1>8. ASSUME Resize PROVE Goal
  BY <1>1, <1>8 DEF Resize, Call, ClearPresentedFrame, NothingPends
<1>9. ASSUME Paint PROVE Goal
  BY <1>1, <1>9 DEF Paint, NothingPends
<1>10. ASSUME NEW late \in BOOLEAN, StopThrows(late) PROVE Goal
  BY <1>1, <1>10 DEF StopThrows
<1>11. ASSUME NEW late \in BOOLEAN, Joined(late) PROVE Goal
  BY <1>1, <1>11 DEF Joined
<1>12. ASSUME ResetForStart PROVE Goal
  BY <1>1, <1>12 DEF ResetForStart, ClearPresentedFrame, NothingPends
<1>13. ASSUME Run PROVE Goal
  BY <1>1, <1>13 DEF Run
<1>14. ASSUME Drop PROVE Goal
  BY <1>1, <1>14, SessionsAreNobodyElse DEF Drop, LockIsHeld
<1>15. ASSUME DropEnd PROVE Goal
  <2>1. /\ ui = "dropEnd" /\ drawImage' = drawImage
        /\ restart' = restart /\ starts' = starts /\ noVideo' = noVideo
        /\ front' = front /\ pending' = pending /\ unseen' = unseen
        /\ abandoned' = abandoned
    BY <1>15 DEF DropEnd
  <2>2. /\ next \in {"stop", "timeout"} => ui' = "clear" /\ next' = next
        /\ next = "start" => ui' = "run" /\ next' = next
        /\ next \notin {"stop", "start", "timeout"} =>
             ui' = "idle" /\ next' = "nothing"
    BY <1>15 DEF DropEnd, DropReturns
  <2> QED
    BY <1>1, <2>1, <2>2
<1>16. ASSUME ClearAfterStop PROVE Goal
  BY <1>1, <1>16 DEF ClearAfterStop, ClearPresentedFrame, NothingPends
<1>18. ASSUME ClearAfterTimeout PROVE Goal
  BY <1>1, <1>18 DEF ClearAfterTimeout, ClearPresentedFrame, NothingPends
<1>17. ASSUME EnterNoVideo PROVE Goal
  BY <1>1, <1>17 DEF EnterNoVideo
<1> QED
  BY <1>2, <1>3, <1>4, <1>5, <1>6, <1>7, <1>8, <1>9, <1>10, <1>11, <1>12,
     <1>13, <1>14, <1>15, <1>16, <1>17, <1>18 DEF UiAction, UiStep

(* A step of a thread that neither publishes nor begins to, and does not   *)
(* touch what is shown.                                                    *)
LEMMA UnseenStep ==
  ASSUME IInv, NEW w \in Sessions,
         worker[w].pc # "publish", worker'[w].pc # "publish",
         \A v \in Sessions \ {w} : worker'[v].pc = worker[v].pc,
         noVideo' => noVideo,
         UNCHANGED <<ui, next, restart, starts, drawImage, front, unseen>>,
         pending' => (pending /\ (abandoned => abandoned')) \/ abandoned'
  PROVE  /\ StartHasRoom' /\ HiddenIsBlank'
         /\ PublishedBeforeDrop' /\ ShownUntilClear' /\ PendingIsVisible'
<1> USE DEF IInv
<1>1. \A v \in Sessions :
        /\ worker'[v].pc = "publish" => worker[v].pc = "publish"
        /\ worker[v].pc = "publish" => worker'[v].pc = "publish"
  OBVIOUS
<1>2. StartHasRoom' /\ HiddenIsBlank' /\ ShownUntilClear'
  BY DEF StartHasRoom, HiddenIsBlank, ShownUntilClear
<1>3. PublishedBeforeDrop'
  BY <1>1 DEF PublishedBeforeDrop
<1>4. PendingIsVisible'
  BY <1>1 DEF PendingIsVisible
<1> QED
  BY <1>2, <1>3, <1>4

LEMMA WorkerStepKeeps ==
  ASSUME IInv, NEW w \in Sessions,
         WorkerStep(w) \/ \E key \in BOOLEAN : Receive(w, key)
  PROVE  /\ StartHasRoom' /\ LockIsHeld' /\ HiddenIsBlank'
         /\ PublishedBeforeDrop' /\ ShownUntilClear' /\ PendingIsVisible'
<1> DEFINE Goal == /\ StartHasRoom' /\ LockIsHeld' /\ HiddenIsBlank'
                   /\ PublishedBeforeDrop' /\ ShownUntilClear'
                   /\ PendingIsVisible'
<1> USE DEF Quiet, display, bitmap, settings, session, timing, decoding
<1>0. /\ worker \in [Sessions -> Threads] /\ bitmapNeeded \in BOOLEAN
      /\ \A v \in Sessions :
           worker[v].pc \in {"publish", "render"} => lock = v
  BY DEF IInv, TypeOK, LockIsHeld
<1>1. ASSUME NEW key \in BOOLEAN, Receive(w, key) PROVE Goal
  <2>1. /\ \/ worker'[w].pc \in {"gpuGate", "cpuGate"}
           \/ worker'[w] = worker[w]
        /\ \A v \in Sessions \ {w} : worker'[v] = worker[v]
    BY <1>0, <1>1, ReceiveMovesOne
  <2>2. /\ worker[w].pc = "idle" /\ lock' = lock
        /\ UNCHANGED <<noVideo, ui, next, restart, starts, drawImage, front,
                       pending, unseen, abandoned>>
    BY <1>1 DEF Receive
  <2>3. LockIsHeld'
    BY <1>0, <2>1, <2>2 DEF LockIsHeld
  <2> QED
    BY <2>1, <2>2, <2>3, UnseenStep
<1>2. ASSUME Gate(w) PROVE Goal
  <2>1. /\ worker'[w].pc \in {"idle", "gpuLock", "cpuLock"}
        /\ \A v \in Sessions \ {w} : worker'[v] = worker[v]
    BY <1>0, <1>2, GateMovesOne
  <2>2. /\ worker[w].pc \in {"gpuGate", "cpuGate"} /\ lock' = lock
        /\ UNCHANGED <<noVideo, ui, next, restart, starts, drawImage, front,
                       pending, unseen, abandoned>>
    BY <1>2 DEF Gate
  <2>3. LockIsHeld'
    BY <1>0, <2>1, <2>2 DEF LockIsHeld
  <2> QED
    BY <2>1, <2>2, <2>3, UnseenStep
<1>3. ASSUME CpuDecode(w) PROVE Goal
  <2>1. /\ lock = Nobody /\ worker[w].pc = "cpuLock"
        /\ \A v \in Sessions : worker[v].pc \notin {"publish", "render"}
    BY <1>0, <1>3, SessionsAreNobodyElse DEF CpuDecode
  <2>2. UNCHANGED <<ui, next, restart, starts, drawImage, front, unseen>>
    BY <1>3 DEF CpuDecode
  <2>3. CASE Ends(w)
    <3>1. /\ worker'[w].pc = "idle"
          /\ \A v \in Sessions \ {w} : worker'[v] = worker[v]
      BY <1>0, <2>3, EndsMovesOne
    <3>2. /\ lock' = lock /\ (noVideo' => noVideo)
          /\ pending' => (pending /\ (abandoned => abandoned')) \/ abandoned'
      <4>1. ~Publishes(w)
        BY <1>0, <3>1, PublishesMovesOne
      <4>2. CASE CpuFails(w) \/ CpuDecodes(w)
        BY <4>1, <4>2 DEF CpuFails, CpuDecodes, Decoded
      <4>3. CASE CpuThrows(w)
        <5>1. lock' = lock /\ noVideo' = FALSE
          BY <4>3 DEF CpuThrows
        <5>2. \/ pending' = pending /\ abandoned' = abandoned
              \/ /\ pending' = (pending \/ drawImage)
                 /\ abandoned' = (abandoned \/ (drawImage /\ ~pending))
          BY <4>3 DEF CpuThrows
        <5>3. /\ pending \in BOOLEAN /\ abandoned \in BOOLEAN
              /\ drawImage \in BOOLEAN
          BY DEF IInv, TypeOK
        <5> QED
          BY <5>1, <5>2, <5>3
      <4> QED
        BY <1>3, <4>2, <4>3 DEF CpuDecode
    <3>3. LockIsHeld'
      BY <2>1, <3>1 DEF LockIsHeld
    <3> QED
      BY <2>1, <2>2, <3>1, <3>2, <3>3, UnseenStep
  <2>4. CASE ~Ends(w)
    <3>1. lock' = w /\ Publishes(w) /\ noVideo' = FALSE /\ drawImage
      BY <1>3, <2>4 DEF CpuDecode, CpuFails, CpuDecodes, CpuThrows, Decoded
    <3>2. /\ worker'[w].pc = "publish"
          /\ \A v \in Sessions \ {w} : worker'[v] = worker[v]
      BY <1>0, <3>1, PublishesMovesOne
    <3>3. LockIsHeld'
      BY <2>1, <3>1, <3>2 DEF LockIsHeld
    <3>4. StartHasRoom' /\ HiddenIsBlank'
      BY <2>2 DEF IInv, StartHasRoom, HiddenIsBlank
    <3>5. PublishedBeforeDrop' /\ ShownUntilClear'
      BY <3>1 DEF PublishedBeforeDrop, ShownUntilClear
    <3>6. PendingIsVisible'
      BY <3>2 DEF PendingIsVisible
    <3> QED
      BY <3>3, <3>4, <3>5, <3>6
  <2> QED
    BY <2>3, <2>4
<1>4. ASSUME Publish(w) PROVE Goal
  <2>1. /\ worker'[w].pc = "idle"
        /\ \A v \in Sessions \ {w} : worker'[v] = worker[v]
    BY <1>0, <1>4, EndsMovesOne DEF Publish
  <2>2. /\ worker[w].pc = "publish"
        /\ \A v \in Sessions \ {w} : worker[v].pc \notin {"publish", "render"}
    BY <1>0, <1>4 DEF Publish
  <2>3. /\ UNCHANGED <<ui, next, restart, starts, drawImage, noVideo>>
        /\ front' \in {front, IF drawImage THEN "published" ELSE "late"}
        /\ unseen' \/ ~pending'
    BY <1>4 DEF Publish, Shows, Exchanged, NothingPends
  <2>4. LockIsHeld' /\ PublishedBeforeDrop'
    BY <2>1, <2>2 DEF LockIsHeld, PublishedBeforeDrop
  <2>5. StartHasRoom' /\ HiddenIsBlank'
    BY <2>3 DEF IInv, StartHasRoom, HiddenIsBlank
  <2>6. ShownUntilClear'
    BY <2>2, <2>3 DEF IInv, ShownUntilClear, PublishedBeforeDrop
  <2>7. PendingIsVisible'
    BY <2>3 DEF PendingIsVisible
  <2> QED
    BY <2>4, <2>5, <2>6, <2>7
<1>5. ASSUME GpuDecode(w) PROVE Goal
  <2>1. /\ lock = Nobody /\ worker[w].pc = "gpuLock"
        /\ \A v \in Sessions : worker[v].pc \notin {"publish", "render"}
    BY <1>0, <1>5, SessionsAreNobodyElse DEF GpuDecode
  <2>2. /\ UNCHANGED <<ui, next, restart, starts, drawImage, front, pending,
                       unseen, abandoned>>
        /\ noVideo' => noVideo
    BY <1>5 DEF GpuDecode, GpuThrows, GpuFails, GpuDecodes, Decoded
  <2>3. /\ \/ worker'[w].pc \in {"idle", "fallback"}
           \/ worker'[w].pc = "render" /\ lock' = w
        /\ \A v \in Sessions \ {w} : worker'[v] = worker[v]
    BY <1>0, <1>5, RendersMovesOne, EndsMovesOne, FallsBackMovesOne,
       CaughtMovesOne
    DEF GpuDecode, GpuThrows, GpuFails, GpuDecodes
  <2>4. LockIsHeld'
    BY <2>1, <2>3 DEF LockIsHeld
  <2> QED
    BY <2>1, <2>2, <2>3, <2>4, UnseenStep
<1>6. ASSUME Render(w) PROVE Goal
  <2>1. /\ worker[w].pc = "render"
        /\ UNCHANGED <<noVideo, ui, next, restart, starts, drawImage, front,
                       pending, unseen, abandoned>>
    BY <1>6 DEF Render
  <2>2. /\ worker'[w].pc \in {"idle", "fallback"}
        /\ \A v \in Sessions \ {w} : worker'[v] = worker[v]
    BY <1>0, <1>6, EndsMovesOne, CaughtMovesOne DEF Render
  <2>3. LockIsHeld'
    BY <1>0, <2>1, <2>2 DEF LockIsHeld
  <2> QED
    BY <2>1, <2>2, <2>3, UnseenStep
<1>7. ASSUME Fallback(w) PROVE Goal
  <2>1. /\ worker[w].pc = "fallback" /\ lock' = lock
        /\ UNCHANGED <<noVideo, ui, next, restart, starts, drawImage, front,
                       pending, unseen, abandoned>>
    BY <1>7 DEF Fallback
  <2>2. /\ worker'[w].pc = "fallbackDrop"
        /\ \A v \in Sessions \ {w} : worker'[v] = worker[v]
    BY <1>0, <1>7, FallbackMovesOne
  <2>3. LockIsHeld'
    BY <1>0, <2>1, <2>2 DEF LockIsHeld
  <2> QED
    BY <2>1, <2>2, <2>3, UnseenStep
<1>8. ASSUME FallbackDrop(w) PROVE Goal
  <2>1. /\ worker[w].pc = "fallbackDrop" /\ lock' = lock
        /\ UNCHANGED <<noVideo, ui, next, restart, starts, drawImage, front,
                       pending, unseen, abandoned>>
    BY <1>8 DEF FallbackDrop
  <2>2. /\ worker'[w].pc = "fallbackDropEnd"
        /\ \A v \in Sessions \ {w} : worker'[v].pc = worker[v].pc
    BY <1>0, <1>8, FallbackDropMovesOne
  <2>3. LockIsHeld'
    BY <1>0, <2>1, <2>2 DEF LockIsHeld
  <2> QED
    BY <2>1, <2>2, <2>3, UnseenStep
<1>9. ASSUME FallbackDropEnd(w) PROVE Goal
  <2>1. /\ worker[w].pc = "fallbackDropEnd" /\ lock' = lock
        /\ UNCHANGED <<noVideo, ui, next, restart, starts, drawImage, front,
                       pending, unseen, abandoned>>
    BY <1>9 DEF FallbackDropEnd
  <2>2. /\ worker'[w].pc \in {"idle", "cpuGate"}
        /\ \A v \in Sessions \ {w} : worker'[v] = worker[v]
    BY <1>0, <1>9, FallbackDropEndMovesOne
  <2>3. LockIsHeld'
    BY <1>0, <2>1, <2>2 DEF LockIsHeld
  <2> QED
    BY <2>1, <2>2, <2>3, UnseenStep
<1> QED
  BY <1>1, <1>2, <1>3, <1>4, <1>5, <1>6, <1>7, <1>8, <1>9 DEF WorkerStep

LEMMA InitInvariant == Init => IInv
<1> SUFFICES ASSUME Init PROVE IInv
  OBVIOUS
<1>1. TypeOK
  BY Initially
<1>2. \A w \in Sessions : worker[w].pc = "idle"
  BY DEF Init, Idle
<1> QED
  BY <1>1, <1>2
  DEF Init, IInv, StartHasRoom, LockIsHeld, HiddenIsBlank,
      PublishedBeforeDrop, ShownUntilClear, PendingIsVisible

LEMMA StepInvariant == IInv /\ [Next]_vars => IInv'
<1> SUFFICES ASSUME IInv, [Next]_vars PROVE IInv'
  OBVIOUS
<1>1. CASE UiAction
  <2>1. TypeOK'
    BY <1>1, UiTypeStep DEF IInv
  <2> QED
    BY <1>1, <2>1, UiStepKeeps DEF IInv
<1>2. ASSUME NEW w \in Sessions,
             WorkerStep(w) \/ \E key \in BOOLEAN : Receive(w, key)
      PROVE  IInv'
  <2>1. TypeOK'
    BY <1>2, WorkerTypeStep DEF IInv
  <2> QED
    BY <1>2, <2>1, WorkerStepKeeps DEF IInv
<1>3. CASE UNCHANGED vars
  BY <1>3
  DEF vars, display, bitmap, settings, session, timing, decoding, IInv,
      TypeOK, StartHasRoom, LockIsHeld, HiddenIsBlank, PublishedBeforeDrop,
      ShownUntilClear, PendingIsVisible
<1> QED
  BY <1>1, <1>2, <1>3 DEF Next, UiAction

(* Every variable of the control keeps its type.                           *)
THEOREM TypeCorrect == Spec => []TypeOK
<1>1. IInv => TypeOK
  BY DEF IInv
<1> QED
  BY <1>1, InitInvariant, StepInvariant, PTL DEF Spec

(* Once a timeout was handled no bitmap of a frame is left to paint,       *)
(* whatever thread is about to publish when it is handled                  *)
(* (RtspVideoControl.cs:1692-1732), but one that was put there after the   *)
(* image was hidden (1711).                                                *)
THEOREM AlwaysBlankWithoutVideo == Spec => []NoVideoMeansBlank
<1>1. IInv => NoVideoMeansBlank
  BY DEF IInv, TypeOK, ShownUntilClear, NoVideoMeansBlank
<1> QED
  BY <1>1, InitInvariant, StepInvariant, PTL DEF Spec

(* A frame that keeps others from being published is being scaled or is    *)
(* there for the next paint (RtspVideoControl.cs:1376-1377, 1008), or was  *)
(* lost between the failure of its recording and that of stopping it       *)
(* (1379-1395).                                                            *)
THEOREM PendingAlwaysVisible == Spec => []PendingIsVisible
<1>1. IInv => PendingIsVisible
  BY DEF IInv
<1> QED
  BY <1>1, InitInvariant, StepInvariant, PTL DEF Spec

-----------------------------------------------------------------------------
(***************************************************************************)
(* What is left after Stop, and what the decoder is fed.  Outside Stop's   *)
(* wait, a thread that is under way is the playing session's or was not    *)
(* waited for (UnderWay): so nothing decodes after a Stop that waited.     *)
(***************************************************************************)
PlayingWhere ==
  /\ playing => \/ ui \in {"idle", "timeout"}
                \/ ui \in {"drop", "dropEnd", "clear"}
                     /\ next \in {"timeout", "mode"}
  /\ \/ ui = "timeout"
     \/ ui \in {"drop", "dropEnd", "clear"} /\ next = "timeout"
     => playing
  /\ ui = "clear" => next \in {"stop", "timeout"}
  /\ ui \in {"drop", "dropEnd"} => next # "nothing"

UnderWay ==
  \A w \in Sessions :
    worker[w].pc # "idle" =>
      w \in outlived \/ ui = "join" \/ (playing /\ source = w)

OneUnderWay ==
  \A v, w \in Sessions :
    worker[v].pc # "idle" /\ worker[w].pc # "idle" /\ v # w =>
      v \in outlived \/ w \in outlived

CurrentPlays ==
  \A w \in Sessions : worker[w].current => playing /\ source = w

StoppedKeepsNothing ==
  ~playing /\ outlived = {} =>
    /\ \/ ui = "idle"
       \/ ui \in {"drop", "dropEnd"} /\ next = "mode"
       => cutShort \/ (decoder = NoDecoder /\ front = "none")
    /\ ui \in {"dropEnd", "clear"} /\ next = "stop" => decoder = NoDecoder
    /\ ui \in {"drop", "dropEnd"} /\ next = "start" => front = "none"
    /\ ui = "dropEnd" /\ next = "start" => decoder = NoDecoder
    /\ ui = "run" => decoder = NoDecoder /\ front = "none"

PlayInv ==
  PlayingWhere /\ UnderWay /\ OneUnderWay /\ CurrentPlays
    /\ StoppedKeepsNothing

(***************************************************************************)
(* The decoder's chain.  A frame that is no key frame passes the gate only *)
(* while no key frame is waited for, and then the decoder has all before   *)
(* it (GateIsGood); what happens to the chain before the frame gets the    *)
(* lock is marked on the frame or on the chain (LockedIsGood).             *)
(***************************************************************************)
OfOther == chain.state \in {"hidden", "excused"} \/ chain.of \in outlived

Good(w) == chain = [of |-> w, state |-> "whole"] \/ OfOther \/ w \in outlived

GateIsGood ==
  playing /\ ~waitForKey /\ ~Dropping =>
    \/ Good(source)
    \/ \E w \in Sessions :
         w = source /\ worker[w].pc \in {"fallback", "fallbackDrop"}

RunIsGood == ui = "run" /\ ~waitForKey /\ ~Dropping => OfOther

LockedIsGood ==
  \A w \in Sessions :
    worker[w].pc \in {"gpuLock", "cpuLock"} /\ ~worker[w].key /\ ~worker[w].raced
      => Good(w)

ChainInv == GateIsGood /\ RunIsGood /\ LockedIsGood /\ FedInOrder

LEMMA OutdateEffect ==
  ASSUME worker \in [Sessions -> Threads], NEW w \in Sessions
  PROVE  LET t == OutdateFrames(worker)[w]
         IN  /\ t.pc = worker[w].pc /\ t.current = FALSE
             /\ t.key = worker[w].key /\ t.raced = worker[w].raced
BY DEF OutdateFrames, Threads

LEMMA RacedEffect ==
  ASSUME worker \in [Sessions -> Threads], NEW w \in Sessions
  PROVE  LET t == Raced(worker)[w]
         IN  /\ t.pc = worker[w].pc /\ t.current = worker[w].current
             /\ t.key = worker[w].key
             /\ t.raced =
                  (worker[w].raced \/ worker[w].pc \in {"gpuLock", "cpuLock"})
BY DEF Raced, Threads

(* What the steps of one thread do to the threads.                         *)
LEMMA WorkerMoves ==
  ASSUME TypeOK, NEW w \in Sessions, WorkerStep(w)
  PROVE  /\ worker[w].pc # "idle"
         /\ worker'[w].current => worker[w].current
         /\ worker'[w].pc \in {"gpuLock", "cpuLock"} =>
              /\ Gate(w) /\ ~Ends(w)
              /\ worker'[w].key = worker[w].key
              /\ worker'[w].raced = Dropping
         /\ \A v \in Sessions \ {w} :
              /\ worker'[v].pc = worker[v].pc
              /\ worker'[v].current = worker[v].current
              /\ worker'[v].key = worker[v].key
              /\ worker[v].raced => worker'[v].raced
<1> DEFINE Goal ==
      /\ worker[w].pc # "idle"
      /\ worker'[w].current => worker[w].current
      /\ worker'[w].pc \in {"gpuLock", "cpuLock"} =>
           /\ Gate(w) /\ ~Ends(w)
           /\ worker'[w].key = worker[w].key
           /\ worker'[w].raced = Dropping
      /\ \A v \in Sessions \ {w} :
           /\ worker'[v].pc = worker[v].pc
           /\ worker'[v].current = worker[v].current
           /\ worker'[v].key = worker[v].key
           /\ worker[v].raced => worker'[v].raced
<1>0. worker \in [Sessions -> Threads] /\ worker[w] \in Threads
  BY DEF TypeOK
<1>1. ASSUME NEW t, worker[w].pc # "idle", t.current => worker[w].current,
             t.pc \notin {"gpuLock", "cpuLock"},
             worker' = [worker EXCEPT ![w] = t]
      PROVE  Goal
  BY <1>0, <1>1
<1>2. ASSUME worker[w].pc # "idle", Ends(w) PROVE Goal
  BY <1>1, <1>2 DEF Ends, Idle
<1>3. ASSUME worker[w].pc # "idle", Renders(w) PROVE Goal
  <2> DEFINE t == [worker[w] EXCEPT !.pc = "render", !.raced = FALSE]
  <2>1. worker' = [worker EXCEPT ![w] = t]
    BY <1>0, <1>3 DEF Renders, Threads
  <2>2. t.current = worker[w].current /\ t.pc = "render"
    BY <1>0 DEF Threads
  <2> HIDE DEF t
  <2> QED
    BY <1>1, <1>3, <2>1, <2>2
<1>13. ASSUME worker[w].pc # "idle", Publishes(w) PROVE Goal
  <2> DEFINE t == [Idle EXCEPT !.pc = "publish"]
  <2>1. worker' = [worker EXCEPT ![w] = t]
    BY <1>13 DEF Publishes
  <2>2. t.current = FALSE /\ t.pc = "publish"
    BY DEF Idle
  <2> HIDE DEF t
  <2> QED
    BY <1>1, <1>13, <2>1, <2>2
<1>4. ASSUME worker[w].pc # "idle", FallsBack(w) PROVE Goal
  <2> DEFINE t == [worker[w] EXCEPT !.pc = "fallback", !.cause = Cause,
                                    !.raced = FALSE]
  <2>1. worker' = [worker EXCEPT ![w] = t]
    BY <1>0, <1>4 DEF FallsBack, Threads
  <2>2. t.current = worker[w].current /\ t.pc = "fallback"
    BY <1>0 DEF Threads
  <2> HIDE DEF t
  <2> QED
    BY <1>1, <1>4, <2>1, <2>2
<1>5. CASE Gate(w)
  <2>1. worker[w].pc # "idle"
    BY <1>5 DEF Gate
  <2>2. CASE Ends(w)
    BY <1>2, <2>1, <2>2
  <2>3. CASE ~Ends(w)
    <3> DEFINE t == [worker[w] EXCEPT
                       !.pc = IF @ = "gpuGate" THEN "gpuLock" ELSE "cpuLock",
                       !.raced = Dropping]
    <3>1. worker' = [worker EXCEPT ![w] = t]
      BY <1>0, <1>5, <2>3 DEF Gate, Threads
    <3>2. /\ t.current = worker[w].current /\ t.key = worker[w].key
          /\ t.raced = Dropping
      BY <1>0 DEF Threads
    <3> HIDE DEF t
    <3> QED
      BY <1>0, <1>5, <2>1, <2>3, <3>1, <3>2
  <2> QED
    BY <2>2, <2>3
<1>6. CASE CpuDecode(w)
  BY <1>2, <1>6, <1>13 DEF CpuDecode, CpuFails, CpuDecodes, CpuThrows
<1>7. CASE Publish(w)
  BY <1>2, <1>7 DEF Publish
<1>8. CASE GpuDecode(w)
  BY <1>2, <1>3, <1>4, <1>8
  DEF GpuDecode, GpuThrows, GpuFails, GpuDecodes, Caught
<1>9. CASE Render(w)
  BY <1>2, <1>4, <1>9 DEF Render, Caught
<1>10. CASE Fallback(w)
  <2> DEFINE t == [worker[w] EXCEPT !.pc = "fallbackDrop", !.cause = "no"]
  <2>1. worker' = [worker EXCEPT ![w] = t] /\ worker[w].pc # "idle"
    BY <1>0, <1>10 DEF Fallback, Threads
  <2>2. t.current = worker[w].current /\ t.pc = "fallbackDrop"
    BY <1>0 DEF Threads
  <2> HIDE DEF t
  <2> QED
    BY <1>1, <2>1, <2>2
<1>11. CASE FallbackDrop(w)
  <2> DEFINE f == Raced(worker)
             t == [f[w] EXCEPT !.pc = "fallbackDropEnd"]
  <2>1. f \in [Sessions -> Threads]
    BY <1>0, RacedKeepsWays
  <2>2. \A v \in Sessions :
          /\ f[v].pc = worker[v].pc /\ f[v].current = worker[v].current
          /\ f[v].key = worker[v].key
          /\ worker[v].raced => f[v].raced
    BY <1>0, RacedEffect
  <2>3. worker' = [f EXCEPT ![w].pc = "fallbackDropEnd"]
    BY <1>11 DEF FallbackDrop
  <2> HIDE DEF f
  <2>4. worker' = [f EXCEPT ![w] = t]
    BY <2>1, <2>3 DEF Threads
  <2>5. t.pc = "fallbackDropEnd" /\ t.current = f[w].current
    <3>1. f[w] \in Threads
      BY <2>1
    <3> QED
      BY <3>1 DEF Threads
  <2> HIDE DEF t
  <2>6. worker[w].pc # "idle"
    BY <1>11 DEF FallbackDrop
  <2> QED
    BY <2>1, <2>2, <2>4, <2>5, <2>6
<1>12. CASE FallbackDropEnd(w)
  <2> DEFINE t == [worker[w] EXCEPT !.pc = "cpuGate", !.recording = FALSE]
  <2>1. worker[w].pc # "idle" /\ (Ends(w) \/ worker' = [worker EXCEPT ![w] = t])
    BY <1>0, <1>12 DEF FallbackDropEnd, Threads
  <2>2. t.current = worker[w].current /\ t.pc = "cpuGate"
    BY <1>0 DEF Threads
  <2> HIDE DEF t
  <2> QED
    BY <1>1, <1>2, <2>1, <2>2
<1> QED
  BY <1>5, <1>6, <1>7, <1>8, <1>9, <1>10, <1>11, <1>12 DEF WorkerStep

(* A frame that comes is the playing session's.                            *)
LEMMA ReceiveMoves ==
  ASSUME TypeOK, NEW w \in Sessions, NEW key \in BOOLEAN, Receive(w, key)
  PROVE  /\ worker[w].pc = "idle" /\ playing /\ source = w
         /\ worker'[w].pc \in {"idle", "gpuGate", "cpuGate"}
         /\ \A v \in Sessions \ {w} : worker'[v] = worker[v]
<1>1. worker[w].pc = "idle" /\ playing /\ source = w
  BY DEF Receive
<1> QED
  BY <1>1, ReceiveMovesOne DEF TypeOK

LEMMA WorkerLeavesUi ==
  ASSUME NEW w \in Sessions,
         WorkerStep(w) \/ \E key \in BOOLEAN : Receive(w, key)
  PROVE  UNCHANGED <<ui, next, playing, source, cutShort, outlived>>
BY DEF WorkerStep, Receive, Gate, CpuDecode, Publish, GpuDecode, Render,
       Fallback, FallbackDrop, FallbackDropEnd, Quiet, session

LEMMA PlayFirst == Init => PlayInv
<1> SUFFICES ASSUME Init PROVE PlayInv
  OBVIOUS
<1>1. \A w \in Sessions : worker[w] = Idle
  BY DEF Init
<1> QED
  BY <1>1
  DEF Init, PlayInv, PlayingWhere, UnderWay, OneUnderWay, CurrentPlays,
      StoppedKeepsNothing, Idle

LEMMA UiKeepsPlay ==
  ASSUME IInv, PlayInv, UiAction
  PROVE  PlayInv'
<1> DEFINE Goal == PlayInv'
           Kept(f) == \A w \in Sessions :
                        /\ f[w].pc = worker[w].pc
                        /\ f[w].current => worker[w].current
<1>0. worker \in [Sessions -> Threads]
  BY DEF IInv, TypeOK
<1>1. /\ \A w \in Sessions : OutdateFrames(worker)[w].pc = worker[w].pc
      /\ \A w \in Sessions : ~OutdateFrames(worker)[w].current
  BY <1>0, OutdateEffect
<1>2. \A w \in Sessions :
        /\ Raced(worker)[w].pc = worker[w].pc
        /\ Raced(worker)[w].current = worker[w].current
  BY <1>0, RacedEffect
<1> USE DEF display, bitmap, settings, session, timing, decoding, PlayInv,
            PlayingWhere, UnderWay, OneUnderWay, CurrentPlays,
            StoppedKeepsNothing
<1>3. ASSUME NEW again, ui = "idle", BeginStop(again) PROVE Goal
  BY <1>1, <1>3 DEF BeginStop
<1>4. ASSUME Stop \/ Start PROVE Goal
  <2>1. CASE ui' = "start" /\ ~playing
    BY <1>4, <2>1 DEF Stop, Start, BeginStop, Call
  <2>2. CASE ~(ui' = "start" /\ ~playing)
    BY <1>3, <1>4, <2>2 DEF Stop, Start, Call
  <2> QED
    BY <2>1, <2>2
<1>5. ASSUME FindStale \/ Paint \/ SetBitmapRecording PROVE Goal
  BY <1>5 DEF FindStale, Paint, SetBitmapRecording, Call
<1>6. ASSUME SetDrawImage PROVE Goal
  BY <1>6 DEF SetDrawImage, Call, ClearPresentedFrame
<1>7. ASSUME NEW m \in Modes, SetPipelineMode(m) PROVE Goal
  BY <1>7 DEF SetPipelineMode, Call
<1>8. ASSUME Resize PROVE Goal
  BY <1>8 DEF Resize, Call, ClearPresentedFrame, NothingPends
<1>16. ASSUME NEW late \in BOOLEAN, Waits(late)
       PROVE  /\ outlived \subseteq outlived'
              /\ \A w \in Sessions : worker[w].pc # "idle" => w \in outlived'
  BY <1>16 DEF Waits
<1>9. ASSUME NEW late \in BOOLEAN, Joined(late) PROVE Goal
  <2>1. /\ ui = "join" /\ ui' = "drop" /\ next' = "stop" /\ ~playing
        /\ UNCHANGED <<playing, source, worker>> /\ outlived \subseteq outlived'
        /\ \A w \in Sessions : worker[w].pc # "idle" => w \in outlived'
    BY <1>9, <1>16 DEF Joined
  <2> QED
    BY <2>1
<1>17. ASSUME NEW late \in BOOLEAN, StopThrows(late) PROVE Goal
  <2>1. /\ ui = "join" /\ ui' = "idle" /\ cutShort' /\ ~playing
        /\ UNCHANGED <<playing, source, worker>> /\ outlived \subseteq outlived'
        /\ \A w \in Sessions : worker[w].pc # "idle" => w \in outlived'
    BY <1>16, <1>17 DEF StopThrows
  <2> QED
    BY <2>1
<1>10. ASSUME ResetForStart PROVE Goal
  BY <1>1, <1>10 DEF ResetForStart, ClearPresentedFrame
<1>11. ASSUME Run PROVE Goal
  BY <1>11 DEF Run
<1>12. ASSUME Drop PROVE Goal
  BY <1>2, <1>12 DEF Drop
<1>13. ASSUME DropEnd PROVE Goal
  <2>1. /\ next \in {"stop", "timeout"} => ui' = "clear" /\ next' = next
        /\ next = "start" => ui' = "run" /\ next' = next
        /\ next \notin {"stop", "start", "timeout"} =>
             ui' = "idle" /\ next' = "nothing"
    BY <1>13 DEF DropEnd, DropReturns
  <2>2. /\ ui = "dropEnd"
        /\ UNCHANGED <<playing, source, worker, cutShort, outlived, decoder,
                       front>>
    BY <1>13 DEF DropEnd
  <2>3. ~playing => next \in {"stop", "start", "mode"}
    BY <2>2 DEF IInv, TypeOK
  <2> QED
    BY <2>1, <2>2, <2>3
<1>14. ASSUME ClearAfterStop \/ ClearAfterTimeout PROVE Goal
  BY <1>14 DEF ClearAfterStop, ClearAfterTimeout, ClearPresentedFrame
<1>15. ASSUME EnterNoVideo PROVE Goal
  BY <1>15 DEF EnterNoVideo
<1> QED
  BY <1>4, <1>5, <1>6, <1>7, <1>8, <1>9, <1>10, <1>11, <1>12, <1>13, <1>14,
     <1>15, <1>17 DEF UiAction, UiStep

LEMMA WorkerKeepsPlay ==
  ASSUME IInv, PlayInv, NEW w \in Sessions,
         WorkerStep(w) \/ \E key \in BOOLEAN : Receive(w, key)
  PROVE  PlayInv'
<1>1. UNCHANGED <<ui, next, playing, source, cutShort, outlived>>
  BY WorkerLeavesUi
<1>2. PlayingWhere'
  BY <1>1 DEF PlayInv, PlayingWhere
<1>3. CASE WorkerStep(w)
  <2>1. /\ worker[w].pc # "idle"
        /\ worker'[w].current => worker[w].current
        /\ \A v \in Sessions \ {w} :
             /\ worker'[v].pc = worker[v].pc
             /\ worker'[v].current = worker[v].current
    BY <1>3, WorkerMoves DEF IInv
  <2>2. UnderWay' /\ OneUnderWay' /\ CurrentPlays'
    BY <1>1, <2>1 DEF PlayInv, UnderWay, OneUnderWay, CurrentPlays
  <2>3. StoppedKeepsNothing'
    BY <1>1, <2>1 DEF PlayInv, UnderWay, StoppedKeepsNothing
  <2> QED
    BY <1>2, <2>2, <2>3 DEF PlayInv
<1>4. ASSUME NEW key \in BOOLEAN, Receive(w, key) PROVE PlayInv'
  <2>1. /\ worker[w].pc = "idle" /\ playing /\ source = w
        /\ \A v \in Sessions \ {w} : worker'[v] = worker[v]
    BY <1>4, ReceiveMoves DEF IInv
  <2>2. UnderWay' /\ CurrentPlays' /\ StoppedKeepsNothing'
    BY <1>1, <2>1 DEF PlayInv, UnderWay, CurrentPlays, StoppedKeepsNothing
  <2>3. \A v \in Sessions \ {w} : worker[v].pc # "idle" => v \in outlived
    BY <2>1 DEF PlayInv, UnderWay, PlayingWhere
  <2>4. OneUnderWay'
    BY <1>1, <2>1, <2>3 DEF PlayInv, OneUnderWay
  <2> QED
    BY <1>2, <2>2, <2>4 DEF PlayInv
<1> QED
  BY <1>3, <1>4

LEMMA PlayInductive == IInv /\ PlayInv /\ [Next]_vars => PlayInv'
<1> SUFFICES ASSUME IInv, PlayInv, [Next]_vars PROVE PlayInv'
  OBVIOUS
<1>1. CASE UNCHANGED vars
  BY <1>1
  DEF vars, display, session, decoding, PlayInv, PlayingWhere, UnderWay,
      OneUnderWay, CurrentPlays, StoppedKeepsNothing
<1> QED
  BY <1>1, UiKeepsPlay, WorkerKeepsPlay DEF Next, UiAction

(* A control that was stopped holds no decoder and no picture, unless some *)
(* Stop did not wait for a frame under way or an exception ended the last  *)
(* one early: no frame that is still on its way after Stop, no Start that  *)
(* fails, no change of the pipeline mode or of the image's visibility      *)
(* brings one back (RtspVideoControl.cs:552-596).                          *)
THEOREM StopLeavesNothing == Spec => []StoppedIsEmpty
<1>1. PlayInv => StoppedIsEmpty
  BY DEF PlayInv, StoppedKeepsNothing, StoppedIsEmpty
<1> QED
  BY <1>1, InitInvariant, StepInvariant, PlayFirst, PlayInductive, PTL DEF Spec

-----------------------------------------------------------------------------
(* What the steps of one thread do to the decoder's chain.                 *)
LEMMA WorkerChain ==
  ASSUME NEW w \in Sessions, WorkerStep(w), ~FallbackDrop(w)
  PROVE  \/ UNCHANGED <<chain, fault>> /\ (waitForKey => waitForKey')
         \/ Miss(w, "missed") /\ UNCHANGED fault /\ (waitForKey => waitForKey')
              /\ (waitForKey' \/ FallsBack(w))
         \/ /\ Feed(w) /\ worker[w].pc \in {"gpuLock", "cpuLock"}
            /\ waitForKey => waitForKey' \/ worker[w].key
<1> USE DEF decoding
<1>1. CASE Gate(w)
  BY <1>1 DEF Gate
<1>2. CASE CpuDecode(w)
  BY <1>2 DEF CpuDecode, CpuFails, CpuDecodes, CpuThrows, Decoded
<1>3. CASE Publish(w)
  BY <1>3 DEF Publish
<1>4. CASE GpuDecode(w)
  BY <1>4 DEF GpuDecode, GpuThrows, GpuFails, GpuDecodes, Decoded, Caught
<1>5. CASE Render(w)
  BY <1>5 DEF Render, Caught
<1>6. CASE Fallback(w)
  BY <1>6 DEF Fallback
<1>7. CASE FallbackDropEnd(w)
  BY <1>7 DEF FallbackDropEnd
<1> QED
  BY <1>1, <1>2, <1>3, <1>4, <1>5, <1>6, <1>7 DEF WorkerStep

LEMMA MissedChain ==
  ASSUME TypeOK, NEW w \in Sessions, NEW why, Miss(w, why)
  PROVE  \/ chain' = chain
         \/ chain'.of = w /\ chain'.state = why
BY DEF Miss

LEMMA FedChain ==
  ASSUME TypeOK, NEW w \in Sessions, Feed(w)
  PROVE  /\ chain'.of = w
         /\ \/ chain' = [of |-> w, state |-> "whole"]
            \/ chain'.state = "excused"
         /\ worker[w].key => chain' = [of |-> w, state |-> "whole"]
BY DEF Feed

LEMMA ChainFirst == Init => ChainInv
<1> SUFFICES ASSUME Init PROVE ChainInv
  OBVIOUS
<1>1. \A w \in Sessions : worker[w].pc = "idle"
  BY DEF Init, Idle
<1> QED
  BY <1>1 DEF Init, ChainInv, GateIsGood, RunIsGood, LockedIsGood, FedInOrder

LEMMA UiKeepsChain ==
  ASSUME IInv, PlayInv, ChainInv, UiAction
  PROVE  ChainInv'
<1> DEFINE Kept(f) == \A w \in Sessions :
                        /\ f[w].pc = worker[w].pc
                        /\ f[w].key = worker[w].key
                        /\ worker[w].raced => f[w].raced
<1>0. worker \in [Sessions -> Threads]
  BY DEF IInv, TypeOK
<1>1. Kept(worker) /\ Kept(OutdateFrames(worker)) /\ Kept(Raced(worker))
  BY <1>0, OutdateEffect, RacedEffect
<1>2. \A w \in Sessions : worker[w].pc \in {"gpuLock", "cpuLock"} =>
                            Raced(worker)[w].raced
  BY <1>0, RacedEffect
<1>3. ASSUME UNCHANGED <<chain, fault>>, outlived \subseteq outlived',
             Kept(worker'),
             playing' => /\ playing /\ source' = source
                         /\ waitForKey' \/ (~waitForKey /\ ui # "dropEnd"),
             ui' = "run" => waitForKey' \/ (ui = "run" /\ ~waitForKey)
      PROVE  ChainInv'
  <2>1. OfOther => OfOther'
    BY <1>3 DEF OfOther
  <2>2. \A w \in Sessions \cup {source} : Good(w) => Good(w)'
    BY <1>3, <2>1 DEF Good
  <2>3. LockedIsGood' /\ FedInOrder'
    BY <1>3, <2>2 DEF ChainInv, LockedIsGood, FedInOrder
  <2>4. GateIsGood'
    <3> SUFFICES ASSUME playing', ~waitForKey', ~Dropping'
                 PROVE  \/ Good(source)'
                        \/ \E w \in Sessions :
                             /\ w = source'
                             /\ worker'[w].pc \in {"fallback", "fallbackDrop"}
      BY DEF GateIsGood
    <3>1. playing /\ source' = source /\ ~waitForKey /\ ~Dropping
      BY <1>3 DEF Dropping
    <3>2. CASE Good(source)
      BY <2>2, <3>1, <3>2 DEF Good
    <3> QED
      BY <1>3, <3>1, <3>2 DEF ChainInv, GateIsGood
  <2>5. RunIsGood'
    BY <1>3, <2>1 DEF ChainInv, RunIsGood, Dropping
  <2> QED
    BY <2>3, <2>4, <2>5 DEF ChainInv
<1> HIDE DEF Kept
<1> USE DEF display, bitmap, settings, session, timing, decoding
<1>4. CASE Stop \/ Start
  BY <1>1, <1>3, <1>4 DEF Stop, Start, BeginStop, Call
<1>5. CASE \/ FindStale \/ SetDrawImage \/ SetBitmapRecording \/ Resize
           \/ Paint \/ \E m \in Modes : SetPipelineMode(m)
  <2>1. /\ UNCHANGED <<chain, fault, outlived, worker, playing, source,
                       waitForKey>>
        /\ ui' # "run" /\ ui # "dropEnd"
    BY <1>5 DEF FindStale, SetDrawImage, SetBitmapRecording, Resize, Paint,
                SetPipelineMode, Call
  <2> QED
    BY <1>1, <1>3, <2>1
<1>6. ASSUME NEW late \in BOOLEAN, Joined(late) \/ StopThrows(late)
      PROVE  ChainInv'
  <2>1. /\ UNCHANGED <<chain, fault, worker, playing, source, waitForKey>>
        /\ outlived \subseteq outlived'
        /\ ui = "join" /\ ui' \in {"drop", "idle"}
    BY <1>6 DEF Joined, StopThrows, Waits
  <2> QED
    BY <1>1, <1>3, <2>1
<1>7. CASE ResetForStart
  <2>1. ~playing
    BY <1>7 DEF ResetForStart, PlayInv, PlayingWhere
  <2> QED
    BY <1>1, <1>3, <1>7, <2>1 DEF ResetForStart
<1>8. CASE Run
  <2>1. /\ OfOther' <=> OfOther
        /\ Dropping' <=> Dropping
        /\ \A w \in Sessions : Good(w)' <=> Good(w)
    BY <1>8 DEF Run, OfOther, Dropping, Good
  <2>2. LockedIsGood' /\ FedInOrder' /\ RunIsGood'
    BY <1>8, <2>1 DEF Run, ChainInv, LockedIsGood, FedInOrder, RunIsGood
  <2>3. ~waitForKey' /\ ~Dropping' => OfOther'
    BY <1>8, <2>1 DEF Run, ChainInv, RunIsGood
  <2>4. GateIsGood'
    BY <2>3 DEF GateIsGood, Good
  <2> QED
    BY <2>2, <2>4 DEF ChainInv
<1>9. CASE Drop
  <2>1. Dropping'
    BY <1>9 DEF Drop, Dropping
  <2>2. LockedIsGood'
    BY <1>1, <1>2, <1>9 DEF Drop, LockedIsGood, Kept
  <2> QED
    BY <1>9, <2>1, <2>2
    DEF Drop, ChainInv, GateIsGood, RunIsGood, FedInOrder
<1>10. CASE DropEnd
  BY <1>1, <1>3, <1>10 DEF DropEnd
<1>11. CASE ClearAfterStop \/ ClearAfterTimeout
  <2>1. /\ UNCHANGED <<chain, fault, outlived, worker, playing, source,
                       waitForKey>>
        /\ ui = "clear" /\ ui' \in {"start", "idle"}
    BY <1>11 DEF ClearAfterStop, ClearAfterTimeout
  <2> QED
    BY <1>1, <1>3, <2>1
<1>12. CASE EnterNoVideo
  BY <1>1, <1>3, <1>12 DEF EnterNoVideo
<1> QED
  BY <1>4, <1>5, <1>6, <1>7, <1>8, <1>9, <1>10, <1>11, <1>12
  DEF UiAction, UiStep

(* The two ways of a step that are seen at the gate: a thread that dropped *)
(* the decoders asks for a key frame next, and one that falls back drops   *)
(* them.                                                                   *)
LEMMA WorkerDrops ==
  ASSUME TypeOK, NEW w \in Sessions, WorkerStep(w)
  PROVE  /\ Dropping /\ ~Dropping' => waitForKey'
         /\ worker[w].pc \in {"fallback", "fallbackDrop"} /\ ~FallbackDrop(w)
              => worker'[w].pc = "fallbackDrop"
         /\ FallbackDrop(w) => Dropping'
<1>0. worker \in [Sessions -> Threads]
  BY DEF TypeOK
<1>1. worker[w].pc = "fallbackDropEnd" => FallbackDropEnd(w)
  BY DEF WorkerStep, Gate, CpuDecode, Publish, GpuDecode, Render, Fallback,
         FallbackDrop
<1>2. worker[w].pc = "fallback" => Fallback(w)
  BY DEF WorkerStep, Gate, CpuDecode, Publish, GpuDecode, Render, FallbackDrop,
         FallbackDropEnd
<1>3. worker[w].pc = "fallbackDrop" => FallbackDrop(w)
  BY DEF WorkerStep, Gate, CpuDecode, Publish, GpuDecode, Render, Fallback,
         FallbackDropEnd
<1>4. FallbackDropEnd(w) => waitForKey'
  BY DEF FallbackDropEnd
<1>5. Fallback(w) => worker'[w].pc = "fallbackDrop"
  BY <1>0, FallbackMovesOne
<1>6. FallbackDrop(w) => worker'[w].pc = "fallbackDropEnd"
  BY <1>0, FallbackDropMovesOne
<1>7. ui' = ui
  BY WorkerLeavesUi
<1>8. \A v \in Sessions \ {w} : worker'[v].pc = worker[v].pc
  BY WorkerMoves
<1>9. Dropping /\ ~Dropping' => worker[w].pc = "fallbackDropEnd"
  BY <1>7, <1>8 DEF Dropping
<1>10. FallbackDrop(w) => Dropping'
  BY <1>6 DEF Dropping
<1> QED
  BY <1>1, <1>2, <1>3, <1>4, <1>5, <1>9, <1>10

(* Who is under way: the playing session's thread or one not waited for.   *)
LEMMA StrayIsOutlived ==
  ASSUME PlayInv, NEW w \in Sessions, worker[w].pc # "idle"
  PROVE  /\ playing /\ source # w => w \in outlived
         /\ ui = "run" => w \in outlived /\ ~playing
         /\ \A v \in Sessions \ {w} :
              worker[v].pc # "idle" => v \in outlived \/ w \in outlived
<1>1. /\ playing => ui # "join"
      /\ ui = "run" => ~playing
  BY DEF PlayInv, PlayingWhere
<1> QED
  BY <1>1 DEF PlayInv, UnderWay, OneUnderWay

LEMMA WorkerStepKeepsChain ==
  ASSUME IInv, PlayInv, ChainInv, NEW w \in Sessions, WorkerStep(w)
  PROVE  ChainInv'
<1>0. TypeOK /\ worker \in [Sessions -> Threads]
  BY DEF IInv, TypeOK
<1>1. UNCHANGED <<ui, next, playing, source, outlived>>
  BY WorkerLeavesUi
<1>2. /\ worker[w].pc # "idle"
      /\ worker'[w].pc \in {"gpuLock", "cpuLock"} =>
           /\ Gate(w) /\ ~Ends(w)
           /\ worker'[w].key = worker[w].key
           /\ worker'[w].raced = Dropping
      /\ \A v \in Sessions \ {w} :
           /\ worker'[v].pc = worker[v].pc
           /\ worker'[v].key = worker[v].key
           /\ worker[v].raced => worker'[v].raced
  BY <1>0, WorkerMoves
<1>3. /\ Dropping /\ ~Dropping' => waitForKey'
      /\ worker[w].pc \in {"fallback", "fallbackDrop"} /\ ~FallbackDrop(w)
           => worker'[w].pc = "fallbackDrop"
      /\ FallbackDrop(w) => Dropping'
  BY <1>0, WorkerDrops
<1>4. /\ playing /\ source # w => w \in outlived
      /\ ui = "run" => w \in outlived /\ ~playing
      /\ \A v \in Sessions \ {w} :
           worker[v].pc # "idle" => v \in outlived \/ w \in outlived
  BY <1>2, StrayIsOutlived
<1>5. CASE FallbackDrop(w)
  <2> DEFINE f == Raced(worker)
  <2>1. /\ f \in [Sessions -> Threads]
        /\ \A v \in Sessions : worker[v].pc \in {"gpuLock", "cpuLock"} =>
                                 f[v].raced
    BY <1>0, RacedKeepsWays, RacedEffect
  <2>2. worker' = [f EXCEPT ![w].pc = "fallbackDropEnd"] /\ fault' = fault
    BY <1>5 DEF FallbackDrop
  <2> HIDE DEF f
  <2>3. /\ worker'[w].pc = "fallbackDropEnd"
        /\ \A v \in Sessions \ {w} : worker'[v] = f[v]
    BY <1>0, <1>5, <2>1, <2>2, FallbackDropMovesOne
  <2>4. LockedIsGood'
    BY <1>2, <2>1, <2>3 DEF LockedIsGood
  <2> QED
    BY <1>3, <1>5, <2>2, <2>4
    DEF ChainInv, GateIsGood, RunIsGood, FedInOrder
<1>6. CASE ~FallbackDrop(w)
  <2>1. \/ UNCHANGED <<chain, fault>> /\ (waitForKey => waitForKey')
        \/ Miss(w, "missed") /\ UNCHANGED fault /\ (waitForKey => waitForKey')
             /\ (waitForKey' \/ FallsBack(w))
        \/ /\ Feed(w) /\ worker[w].pc \in {"gpuLock", "cpuLock"}
           /\ waitForKey => waitForKey' \/ worker[w].key
    BY <1>6, WorkerChain
  <2>2. FedInOrder'
    <3>1. CASE UNCHANGED fault
      BY <3>1 DEF ChainInv, FedInOrder
    <3>2. CASE Feed(w) /\ worker[w].pc \in {"gpuLock", "cpuLock"}
      <4>1. Explained(w)
        BY <3>2 DEF ChainInv, LockedIsGood, Good, OfOther, Explained
      <4> QED
        BY <3>2, <4>1 DEF Feed, ChainInv, FedInOrder
    <3> QED
      BY <2>1, <3>1, <3>2
  <2>3. CASE w \in outlived
    <3>1. CASE OfOther'
      BY <2>2, <3>1
      DEF ChainInv, GateIsGood, RunIsGood, LockedIsGood, Good
    <3>2. CASE ~OfOther'
      <4>1. chain'.of # w
        BY <1>1, <2>3, <3>2 DEF OfOther
      <4>2. chain' = chain /\ (waitForKey => waitForKey')
        BY <1>0, <2>1, <4>1, MissedChain, FedChain
      <4>3. /\ OfOther <=> OfOther'
            /\ \A v \in Sessions \cup {source} : Good(v) => Good(v)'
        BY <1>1, <4>2 DEF OfOther, Good
      <4>4. GateIsGood'
        <5> SUFFICES ASSUME playing', ~waitForKey', ~Dropping'
                     PROVE  \/ Good(source)'
                            \/ \E v \in Sessions :
                                 /\ v = source'
                                 /\ worker'[v].pc \in {"fallback", "fallbackDrop"}
          BY DEF GateIsGood
        <5>1. playing /\ ~waitForKey /\ ~Dropping /\ source' = source
          BY <1>1, <1>3, <4>2
        <5>2. CASE Good(source)
          BY <4>3, <5>1, <5>2 DEF Good
        <5> QED
          BY <1>2, <1>3, <1>6, <5>1, <5>2 DEF ChainInv, GateIsGood
      <4>5. RunIsGood'
        BY <1>1, <1>3, <4>2, <4>3 DEF ChainInv, RunIsGood
      <4>6. LockedIsGood'
        <5>1. Good(w)'
          BY <1>1, <2>3 DEF Good
        <5> QED
          BY <1>2, <4>3, <5>1 DEF ChainInv, LockedIsGood
      <4> QED
        BY <2>2, <4>4, <4>5, <4>6 DEF ChainInv
    <3> QED
      BY <3>1, <3>2
  <2>4. CASE w \notin outlived
    <3>1. RunIsGood'
      BY <1>1, <1>4, <2>4 DEF RunIsGood
    <3>2. ASSUME worker'[w].pc \in {"gpuLock", "cpuLock"},
                 ~worker'[w].key, ~worker'[w].raced
          PROVE  Good(w)'
      <4>1. Gate(w) /\ ~Ends(w) /\ ~worker[w].key /\ ~Dropping
        BY <1>2, <3>2
      <4>2. /\ playing /\ worker[w].current /\ ~waitForKey /\ chain' = chain
            /\ worker[w].pc \in {"gpuGate", "cpuGate"}
        BY <4>1 DEF Gate
      <4>3. source = w
        BY <4>2 DEF PlayInv, CurrentPlays
      <4>4. Good(w)
        BY <4>1, <4>2, <4>3 DEF ChainInv, GateIsGood
      <4> QED
        BY <1>1, <4>2, <4>4 DEF Good, OfOther
    <3>3. LockedIsGood'
      <4>1. \A v \in Sessions \ {w} : worker[v].pc # "idle" => Good(v)'
        BY <1>1, <1>4, <2>4 DEF Good
      <4> QED
        BY <1>2, <3>2, <4>1 DEF LockedIsGood
    <3>4. GateIsGood'
      <4> SUFFICES ASSUME playing', ~waitForKey', ~Dropping'
                   PROVE  \/ Good(source)'
                          \/ worker'[w].pc \in {"fallback", "fallbackDrop"}
        BY <1>1, <1>4, <2>4 DEF GateIsGood
      <4>1. playing /\ source = w /\ source' = w /\ ~Dropping
        BY <1>1, <1>3, <1>4, <2>4
      <4>2. CASE UNCHANGED chain /\ (waitForKey => waitForKey')
        <5>1. CASE Good(source)
          BY <1>1, <4>2, <5>1 DEF Good, OfOther
        <5>2. CASE ~Good(source)
          <6>1. worker[w].pc \in {"fallback", "fallbackDrop"}
            BY <4>1, <4>2, <5>2 DEF ChainInv, GateIsGood
          <6> QED
            BY <1>3, <1>6, <6>1
        <5> QED
          BY <5>1, <5>2
      <4>3. CASE FallsBack(w)
        BY <1>0, <4>3, FallsBackMovesOne
      <4>4. CASE Feed(w)
        BY <1>0, <4>1, <4>4, FedChain DEF Good, OfOther
      <4> QED
        BY <2>1, <4>2, <4>3, <4>4
    <3> QED
      BY <2>2, <3>1, <3>3, <3>4 DEF ChainInv
  <2> QED
    BY <2>3, <2>4
<1> QED
  BY <1>5, <1>6

LEMMA ReceiveKeepsChain ==
  ASSUME IInv, PlayInv, ChainInv, NEW w \in Sessions,
         NEW key \in BOOLEAN, Receive(w, key)
  PROVE  ChainInv'
<1>0. TypeOK
  BY DEF IInv
<1>1. UNCHANGED <<ui, next, playing, source, outlived>>
  BY WorkerLeavesUi
<1>2. /\ worker[w].pc = "idle"
      /\ worker'[w].pc \in {"idle", "gpuGate", "cpuGate"}
      /\ \A v \in Sessions \ {w} : worker'[v] = worker[v]
  BY <1>0, ReceiveMoves
<1>3. UNCHANGED <<fault, waitForKey>> /\ (Miss(w, "hidden") \/ chain' = chain)
  BY DEF Receive
<1>4. chain' = chain \/ chain'.state = "hidden"
  BY <1>0, <1>3, MissedChain
<1>5. FedInOrder'
  BY <1>3 DEF ChainInv, FedInOrder
<1>6. CASE OfOther'
  BY <1>5, <1>6 DEF ChainInv, GateIsGood, RunIsGood, LockedIsGood, Good
<1>7. CASE chain' = chain
  <2>1. /\ OfOther' <=> OfOther
        /\ \A v \in Sessions : Good(v)' <=> Good(v)
        /\ Good(source)' <=> Good(source)
        /\ Dropping' <=> Dropping
    BY <1>1, <1>2, <1>7 DEF OfOther, Good, Dropping
  <2> QED
    BY <1>1, <1>2, <1>3, <1>5, <2>1
    DEF ChainInv, GateIsGood, RunIsGood, LockedIsGood
<1> QED
  BY <1>4, <1>6, <1>7 DEF OfOther

LEMMA ChainInductive == IInv /\ PlayInv /\ ChainInv /\ [Next]_vars => ChainInv'
<1> SUFFICES ASSUME IInv, PlayInv, ChainInv, [Next]_vars PROVE ChainInv'
  OBVIOUS
<1>1. CASE UNCHANGED vars
  BY <1>1
  DEF vars, session, decoding, ChainInv, GateIsGood, RunIsGood, LockedIsGood,
      FedInOrder, Good, OfOther, Dropping
<1> QED
  BY <1>1, UiKeepsChain, WorkerStepKeepsChain, ReceiveKeepsChain
  DEF Next, UiAction

(* The decoder gets a key frame or the successor of the frame it got last, *)
(* unless the image was hidden, the frame had passed the gate when         *)
(* decoders were dropped, or a session that Stop did not wait for came     *)
(* between: no order of the threads, of the drops of the decoders, of      *)
(* failures and of the fallback shows it another frame                     *)
(* (RtspVideoControl.cs:1373-1374, 1652, 1813).                            *)
THEOREM AlwaysFedInOrder == Spec => []FedInOrder
<1>1. ChainInv => FedInOrder
  BY DEF ChainInv
<1> QED
  BY <1>1, InitInvariant, StepInvariant, PlayFirst, PlayInductive, ChainFirst,
     ChainInductive, PTL DEF Spec
=============================================================================
