---------------------- MODULE CompressedRecording_proofs ----------------------
(***************************************************************************)
(* Theorems about CompressedRecording, for every length of the window and  *)
(* any frames.                                                             *)
(***************************************************************************)
EXTENDS CompressedRecording, SequenceTheorems, WellFoundedInduction, TLAPS

(* What Min and Max are.                                                   *)
LEMMA SmallestOf ==
  ASSUME NEW S, S \subseteq Nat, S # {}
  PROVE  Min(S) \in S /\ \A x \in S : Min(S) <= x
<1>1. PICK m \in S : \A x \in S : <<x, m>> \notin OpToRel(<, Nat)
  BY NatLessThanWellFounded, WFMin
<1>2. \A x \in S : m <= x
  <2> TAKE x \in S
  <2>1. ~(x < m)
    BY <1>1, Zenon DEF OpToRel
  <2> QED
    BY <2>1
<1> QED
  BY <1>2 DEF Min

LEMMA LargestOf ==
  ASSUME NEW n \in Nat, NEW S, S \subseteq 0..n, S # {}
  PROVE  Max(S) \in S /\ \A x \in S : x <= Max(S)
<1> DEFINE T == { n - x : x \in S }
<1>1. T \subseteq Nat /\ T # {}
  <2>1. \A x \in S : n - x \in Nat
    OBVIOUS
  <2> QED
    BY <2>1, Zenon
<1>2. PICK m \in T : \A y \in T : m <= y
  BY <1>1, SmallestOf
<1>3. PICK x \in S : m = n - x
  BY <1>2
<1>4. \A y \in S : x >= y
  <2> TAKE y \in S
  <2>1. m <= n - y
    BY <1>2
  <2> QED
    BY <1>3, <2>1
<1> QED
  BY <1>3, <1>4 DEF Max

(* The first frame that is kept is as far back as the window asks for, and *)
(* no key frame before it is given up unless it is one.                    *)
LEMMA PrunedKeepsAKey ==
  ASSUME NEW fs \in Seq(Frames), NEW from \in 1..Len(fs), NEW cutoff \in Int,
         fs[Len(fs)].time >= cutoff
  PROVE  /\ Pruned(fs, from, cutoff) \in from..Len(fs)
         /\ \/ \A i \in from..(Pruned(fs, from, cutoff) - 1) : ~fs[i].key
            \/ /\ fs[Pruned(fs, from, cutoff)].key
               /\ fs[Pruned(fs, from, cutoff)].time < cutoff
<1> DEFINE window == { i \in from..Len(fs) : fs[i].time >= cutoff }
           inside == Min(window)
           before == KeysIn(fs, from, inside - 1)
<1>0. Len(fs) \in Nat
  OBVIOUS
<1>1. window \subseteq Nat /\ window # {}
  <2>1. Len(fs) \in window
    BY <1>0
  <2> QED
    BY <1>0, <2>1
<1>2. inside \in window /\ \A i \in window : inside <= i
  <2> HIDE DEF window
  <2> QED
    BY <1>1, SmallestOf
<1>3. Pruned(fs, from, cutoff) = IF before = {} THEN inside ELSE Max(before)
  BY Zenon DEF Pruned
<1>4. inside \in from..Len(fs)
  BY <1>2
<1>5. \A i \in from..(inside - 1) : fs[i].time < cutoff
  <2> TAKE i \in from..(inside - 1)
  <2>1. i \in from..Len(fs) /\ ~(inside <= i)
    BY <1>0, <1>4
  <2>2. ~(fs[i].time >= cutoff)
    BY <1>2, <2>1
  <2>3. fs[i] \in Frames
    BY <1>0, <2>1
  <2>4. fs[i].time \in Nat
    BY <2>3 DEF Frames
  <2> QED
    BY <2>2, <2>4
<1> HIDE DEF window, inside
<1>6. CASE before = {}
  BY <1>3, <1>4, <1>6 DEF KeysIn
<1>7. CASE before # {}
  <2>1. before \subseteq 0..Len(fs)
    BY <1>0, <1>4 DEF KeysIn
  <2>2. Max(before) \in before
    <3> HIDE DEF before
    <3> QED
      BY <1>0, <1>7, <2>1, LargestOf
  <2>3. Pruned(fs, from, cutoff) = Max(before)
    BY <1>3, <1>7
  <2>4. Max(before) \in from..(inside - 1) /\ fs[Max(before)].key
    BY <2>2, Zenon DEF KeysIn
  <2> HIDE DEF before
  <2> QED
    BY <1>0, <1>4, <1>5, <2>3, <2>4
<1> QED
  BY <1>6, <1>7

(* The frames from `from` on reach back to a key frame at `horizon`, or    *)
(* there is none before them.                                              *)
ReachesBack(fs, from, horizon) ==
  \/ \A i \in 1..(from - 1) : ~fs[i].key
  \/ \E k \in from..Len(fs) : fs[k].key /\ fs[k].time <= horizon

(* What GetFramesForRecording finds from a later frame on is what it finds *)
(* from the first on, if there is a key frame old enough or no key frame   *)
(* was left out.                                                           *)
LEMMA StartIndexFromLater ==
  ASSUME NEW fs \in Seq(Frames), NEW from \in 1..(Len(fs) + 1),
         NEW requested \in Int,
         ReachesBack(fs, from, requested)
  PROVE  StartIndex(fs, from, requested) = StartIndex(fs, 1, requested)
<1> DEFINE all(f)    == KeysIn(fs, f, Len(fs))
           before(f) == { i \in all(f) : fs[i].time <= requested }
<1>0. Len(fs) \in Nat
  OBVIOUS
<1>1. \A f \in {1, from} :
        StartIndex(fs, f, requested) =
          CASE before(f) # {} -> Max(before(f))
            [] before(f) = {} /\ all(f) # {} -> Min(all(f))
            [] OTHER -> 0
  BY Zenon DEF StartIndex
<1>2. CASE \A i \in 1..(from - 1) : ~fs[i].key
  <2>1. all(from) = all(1)
    BY <1>0, <1>2 DEF KeysIn
  <2> QED
    BY <1>1, <2>1
<1>3. CASE \E k \in from..Len(fs) : fs[k].key /\ fs[k].time <= requested
  <2>1. before(from) # {} /\ before(from) \subseteq before(1)
    BY <1>0, <1>3 DEF KeysIn
  <2>2. before(1) \subseteq 0..Len(fs) /\ before(1) # {}
    BY <1>0, <2>1 DEF KeysIn
  <2>3. PICK m \in before(from) : \A i \in before(from) : i <= m
    <3> HIDE DEF before
    <3>1. before(from) \subseteq 0..Len(fs)
      BY <2>1, <2>2
    <3> QED
      BY <1>0, <2>1, <3>1, LargestOf
  <2>4. m \in from..Len(fs)
    BY <2>3 DEF KeysIn
  <2>5. \A i \in before(1) : i <= m
    <3> TAKE i \in before(1)
    <3>1. i \in 1..Len(fs) /\ (i >= from => i \in before(from))
      BY <1>0 DEF KeysIn
    <3> QED
      BY <1>0, <2>3, <2>4, <3>1
  <2>6. m \in before(1)
    BY <2>1, <2>3
  <2>7. Max(before(from)) = m /\ Max(before(1)) = m
    <3>1. \A i \in before(from) : i \in 0..Len(fs)
      BY <2>1, <2>2
    <3>2. \A i \in before(1) : i \in 0..Len(fs)
      BY <2>2
    <3> HIDE DEF before
    <3>3. Max(before(from)) = m
      BY <1>0, <2>1, <2>2, <2>3, <2>4, LargestOf
    <3>4. Max(before(1)) = m
      BY <1>0, <2>2, <2>4, <2>5, <2>6, LargestOf
    <3> QED
      BY <3>3, <3>4
  <2> HIDE DEF before, all
  <2> QED
    BY <1>1, <2>1, <2>2, <2>7
<1> QED
  BY <1>2, <1>3 DEF ReachesBack

-----------------------------------------------------------------------------
(***************************************************************************)
(* The inductive invariant.  A frame in hand is no newer than the clock    *)
(* (NothingIsEarly), so pruning for it leaves a key frame as old as any    *)
(* recording may start, or there was none (WindowHasAKey).  A recorder     *)
(* without a source is one that was started without, or Stop is about to   *)
(* stop it (AbandonedByStop), so Start finds none that it would starve.    *)
(***************************************************************************)
InFlight == [at : {"record", "failed"}, frame : Frames]

NothingIsEarly ==
  \A s \in Sessions : flight[s] # NoFrame => flight[s].frame.time <= clock

WindowHasAKey == pre => ReachesBack(added, first, clock - Duration)

AbandonedByStop ==
  /\ ui # "idle" => source = 0
  /\ recorder /\ source = 0 /\ ~early => ui \in {"join", "stopRecording"}

IInv ==
  /\ TypeOK /\ NothingIsEarly /\ WindowHasAKey
  /\ AbandonedByStop /\ RecorderIsFed

LEMMA NoFrameIsNone ==
  ASSUME TypeOK, NEW s \in Sessions
  PROVE  /\ flight[s] # NoFrame => flight[s] \in InFlight
         /\ flight[s].at \in {"record", "failed"} => flight[s] \in InFlight
BY DEF TypeOK, NoFrame, InFlight

LEMMA InitInvariant == Init => IInv
<1> SUFFICES ASSUME Init PROVE IInv
  OBVIOUS
<1>1. /\ needed \in BOOLEAN /\ capture \in BOOLEAN /\ pre \in BOOLEAN
      /\ recorder \in BOOLEAN /\ waiting \in BOOLEAN
      /\ early \in BOOLEAN /\ outlived \in BOOLEAN
  BY DEF Init
<1>2. /\ starts \in 0..MaxStarts /\ source \in 0..MaxStarts
      /\ count \in 0..MaxFrames /\ began \in 0..MaxFrames
      /\ keys \subseteq 1..MaxFrames /\ clock \in Nat
  BY RecordingAssumption DEF Init
<1>3. /\ added \in Seq(Frames) /\ first \in 1..(Len(added) + 1)
      /\ file \in Seq(1..MaxFrames)
  BY DEF Init
<1>4. flight \in [Sessions -> {NoFrame} \cup InFlight]
  BY DEF Init
<1>5. TypeOK
  BY <1>1, <1>2, <1>3, <1>4 DEF Init, TypeOK, InFlight
<1>6. NothingIsEarly /\ WindowHasAKey /\ AbandonedByStop /\ RecorderIsFed
  BY DEF Init, NothingIsEarly, WindowHasAKey, AbandonedByStop, RecorderIsFed
<1> QED
  BY <1>5, <1>6 DEF IInv

(* A recording starts with a key frame that is still there.                *)
LEMMA StartIndexIsAnIndex ==
  ASSUME NEW fs \in Seq(Frames), NEW from \in 1..(Len(fs) + 1),
         NEW requested \in Int
  PROVE  /\ StartIndex(fs, from, requested) \in {0} \cup (from..Len(fs))
         /\ StartIndex(fs, from, requested) # 0
              => fs[StartIndex(fs, from, requested)].key
<1> DEFINE all    == KeysIn(fs, from, Len(fs))
           before == { i \in all : fs[i].time <= requested }
<1>0. Len(fs) \in Nat
  OBVIOUS
<1>1. StartIndex(fs, from, requested) =
        CASE before # {} -> Max(before)
          [] before = {} /\ all # {} -> Min(all)
          [] OTHER -> 0
  BY Zenon DEF StartIndex
<1>2. /\ all \subseteq from..Len(fs) /\ before \subseteq all
      /\ \A i \in all : fs[i].key
  BY DEF KeysIn
<1> HIDE DEF all, before
<1>3. all \subseteq Nat /\ before \subseteq 0..Len(fs)
  BY <1>0, <1>2
<1>4. CASE before # {}
  <2>1. Max(before) \in before
    BY <1>0, <1>3, <1>4, LargestOf
  <2> QED
    BY <1>1, <1>2, <1>4, <2>1
<1>5. CASE before = {} /\ all # {}
  <2>1. Min(all) \in all
    BY <1>3, <1>5, SmallestOf
  <2> QED
    BY <1>1, <1>2, <1>5, <2>1
<1>6. CASE before = {} /\ all = {}
  BY <1>1, <1>6
<1> QED
  BY <1>4, <1>5, <1>6

LEMMA PrunedReachesBack ==
  ASSUME NEW fs \in Seq(Frames), NEW frame \in Frames,
         NEW from \in 1..(Len(fs) + 1), NEW horizon \in Int,
         NEW cutoff \in Int, cutoff <= frame.time, cutoff <= horizon,
         ReachesBack(fs, from, horizon)
  PROVE  LET gs == Append(fs, frame)
             to == Pruned(gs, from, cutoff)
         IN to \in from..Len(gs) /\ ReachesBack(gs, to, horizon)
<1> DEFINE n == Len(fs) + 1
<1>1. PICK gs : gs = Append(fs, frame)
  OBVIOUS
<1>2. PICK to : to = Pruned(gs, from, cutoff)
  OBVIOUS
<1>3. /\ gs \in Seq(Frames) /\ Len(gs) = n /\ n \in Nat
      /\ gs[n] = frame
      /\ \A i \in 1..Len(fs) : gs[i] = fs[i]
  BY <1>1
<1>4. /\ to \in from..n
      /\ \/ \A i \in from..(to - 1) : ~gs[i].key
         \/ gs[to].key /\ gs[to].time < cutoff
  <2>1. /\ from \in 1..Len(gs) /\ gs[Len(gs)].time >= cutoff
        /\ frame.time \in Nat
    BY <1>3 DEF Frames
  <2> HIDE DEF n
  <2> QED
    BY <1>2, <1>3, <2>1, PrunedKeepsAKey
<1>5. CASE gs[to].key /\ gs[to].time < cutoff
  <2>1. gs[to] \in Frames
    BY <1>3, <1>4
  <2>2. gs[to].time <= horizon
    BY <1>5, <2>1 DEF Frames
  <2>3. to \in to..Len(gs)
    BY <1>3, <1>4
  <2>4. ReachesBack(gs, to, horizon)
    BY <1>5, <2>2, <2>3 DEF ReachesBack
  <2> QED
    BY <1>1, <1>2, <1>3, <1>4, <2>4
<1>6. CASE \A i \in from..(to - 1) : ~gs[i].key
  <2>1. CASE \A i \in 1..(from - 1) : ~fs[i].key
    <3>1. \A i \in 1..(to - 1) : ~gs[i].key
      <4> TAKE i \in 1..(to - 1)
      <4>1. CASE i < from
        <5>1. i \in 1..(from - 1) /\ i \in 1..Len(fs)
          BY <1>4, <4>1
        <5> QED
          BY <1>3, <2>1, <5>1
      <4>2. CASE ~(i < from)
        <5>1. i \in from..(to - 1)
          BY <1>4, <4>2
        <5> QED
          BY <1>6, <5>1
      <4> QED
        BY <4>1, <4>2
    <3>2. ReachesBack(gs, to, horizon)
      BY <3>1 DEF ReachesBack
    <3> QED
      BY <1>1, <1>2, <1>3, <1>4, <3>2
  <2>2. CASE \E k \in from..Len(fs) : fs[k].key /\ fs[k].time <= horizon
    <3>1. PICK k \in from..Len(fs) : fs[k].key /\ fs[k].time <= horizon
      BY <2>2
    <3>2. k \in 1..Len(fs) /\ gs[k] = fs[k]
      BY <1>3
    <3>3. k \notin from..(to - 1)
      BY <1>6, <3>1, <3>2
    <3>4. k \in to..Len(gs)
      BY <1>3, <1>4, <3>3
    <3>5. ReachesBack(gs, to, horizon)
      BY <3>1, <3>2, <3>4 DEF ReachesBack
    <3> QED
      BY <1>1, <1>2, <1>3, <1>4, <3>5
  <2> QED
    BY <2>1, <2>2 DEF ReachesBack
<1> QED
  BY <1>4, <1>5, <1>6

(* The operations several actions share.                                   *)
LEMMA AddFrameKeepsWindow ==
  ASSUME TypeOK, NothingIsEarly, WindowHasAKey, NEW s \in Sessions,
         flight[s].at = "record", AddFrame(flight[s].frame),
         pre' = pre, clock' = clock
  PROVE  /\ added' \in Seq(Frames) /\ first' \in 1..(Len(added') + 1)
         /\ WindowHasAKey'
<1> DEFINE frame == flight[s].frame
           cutoff == frame.time - Duration
           horizon == clock - Duration
<1>1. added \in Seq(Frames) /\ first \in 1..(Len(added) + 1) /\ pre \in BOOLEAN
  BY DEF TypeOK
<1>2. frame \in Frames /\ frame.time <= clock /\ clock \in Nat
  <2>1. flight[s] \in InFlight /\ flight[s] # NoFrame
    BY NoFrameIsNone DEF NoFrame, InFlight
  <2> QED
    BY <2>1 DEF NothingIsEarly, InFlight, TypeOK
<1>3. /\ cutoff \in Int /\ horizon \in Int /\ cutoff <= horizon
      /\ cutoff <= frame.time
  BY <1>2, RecordingAssumption DEF Frames
<1>4. CASE ~pre
  BY <1>1, <1>4 DEF AddFrame, WindowHasAKey
<1>5. CASE pre
  <2>1. ReachesBack(added, first, horizon)
    BY <1>5 DEF WindowHasAKey
  <2>2. added' = Append(added, frame) /\ first' = Pruned(added', first, cutoff)
    BY <1>5 DEF AddFrame
  <2> HIDE DEF frame, cutoff, horizon
  <2>3. first' \in first..Len(added') /\ ReachesBack(added', first', horizon)
    BY <1>1, <1>2, <1>3, <2>1, <2>2, PrunedReachesBack
  <2>4. added' \in Seq(Frames)
    BY <1>1, <1>2, <2>2
  <2>5. first' \in 1..(Len(added') + 1)
    BY <1>1, <2>3, <2>4
  <2>6. WindowHasAKey'
    BY <2>3 DEF horizon, WindowHasAKey
  <2> QED
    BY <2>4, <2>5, <2>6
<1> QED
  BY <1>1, <1>4, <1>5

LEMMA StopsRecordingKeepsTypes ==
  ASSUME TypeOK, NEW throws \in BOOLEAN, StopsRecording(throws)
  PROVE  /\ recorder' = FALSE /\ waiting' = FALSE /\ file' = <<>>
         /\ needed' \in BOOLEAN /\ capture' \in BOOLEAN
         /\ began' = 0 /\ early' = FALSE
<1>1. recorder' = FALSE /\ waiting' = FALSE /\ early' = FALSE
  BY DEF StopsRecording
<1>2. file' = <<>> /\ began' = 0
  BY DEF StopsRecording
<1>3. needed' \in BOOLEAN /\ capture' \in BOOLEAN
  BY DEF StopsRecording, SetCapture, TypeOK
<1> QED
  BY <1>1, <1>2, <1>3

LEMMA StartRecordingTypes ==
  ASSUME TypeOK, StartRecording
  PROVE  file' \in Seq(1..MaxFrames) /\ waiting' \in BOOLEAN
<1>1. /\ added \in Seq(Frames) /\ first \in 1..(Len(added) + 1)
      /\ clock \in Nat
  BY DEF TypeOK
<1>2. PICK requested \in Requests :
        LET from == IF pre THEN StartIndex(added, first, requested) ELSE 0
        IN /\ file' = IF from = 0 THEN <<>>
                      ELSE [i \in 1..(Len(added) - from + 1) |->
                              added[from + i - 1].number]
           /\ waiting' = (from = 0)
  BY DEF StartRecording
<1>3. requested \in Int
  BY <1>1, RecordingAssumption DEF Requests
<1>4. PICK from \in {0} \cup (first..Len(added)) :
        /\ file' = IF from = 0 THEN <<>>
                   ELSE [i \in 1..(Len(added) - from + 1) |->
                           added[from + i - 1].number]
        /\ waiting' = (from = 0)
  BY <1>1, <1>2, <1>3, StartIndexIsAnIndex
<1>5. CASE from = 0
  BY <1>4, <1>5
<1>6. CASE from # 0
  <2> DEFINE m == Len(added) - from + 1
  <2>1. m \in Nat /\ \A i \in 1..m : from + i - 1 \in 1..Len(added)
    BY <1>1, <1>4, <1>6
  <2>2. \A i \in 1..m : added[from + i - 1].number \in 1..MaxFrames
    <3> TAKE i \in 1..m
    <3>1. added[from + i - 1] \in Frames
      BY <1>1, <2>1
    <3> QED
      BY <3>1 DEF Frames
  <2>3. file' = [i \in 1..m |-> added[from + i - 1].number]
    BY <1>4, <1>6
  <2> HIDE DEF m
  <2>4. file' \in [1..m -> 1..MaxFrames]
    BY <2>2, <2>3
  <2>5. file' \in Seq(1..MaxFrames)
    BY <2>1, <2>4, SeqDef, Zenon
  <2>6. waiting' \in BOOLEAN
    BY <1>4
  <2> QED
    BY <2>5, <2>6
<1> QED
  BY <1>5, <1>6

LEMMA UiStep ==
  ASSUME IInv,
         \/ \E preRecord \in BOOLEAN : Start(preRecord)
         \/ StartRecording \/ StopRecording \/ Stop \/ Clear
         \/ \E b \in BOOLEAN : Joined(b) \/ StopEndsRecording(b)
  PROVE  IInv'
<1> DEFINE Goal == /\ TypeOK' /\ NothingIsEarly' /\ WindowHasAKey'
                   /\ AbandonedByStop' /\ RecorderIsFed'
<1> USE DEF session, buffer, output, stream
<1>0. /\ TypeOK /\ NothingIsEarly /\ WindowHasAKey
      /\ AbandonedByStop /\ RecorderIsFed
  BY DEF IInv
<1>1. ASSUME NEW preRecord \in BOOLEAN, Start(preRecord) PROVE Goal
  <2>1. pre' \in BOOLEAN /\ needed' \in BOOLEAN /\ capture' \in BOOLEAN
    BY <1>1 DEF Start
  <2>2. /\ starts' \in 0..MaxStarts /\ source' \in 1..MaxStarts
        /\ added' \in Seq(Frames) /\ first' \in 1..(Len(added') + 1)
    BY <1>0, <1>1, RecordingAssumption DEF Start, TypeOK
  <2>3. TypeOK'
    BY <1>0, <1>1, <2>1, <2>2 DEF Start, TypeOK
  <2>4. NothingIsEarly'
    BY <1>0, <1>1 DEF Start, NothingIsEarly
  <2>5. WindowHasAKey'
    BY <1>1 DEF Start, WindowHasAKey, ReachesBack
  <2>6. AbandonedByStop' /\ RecorderIsFed'
    BY <1>0, <1>1, <2>2 DEF Start, AbandonedByStop, RecorderIsFed
  <2> QED
    BY <2>3, <2>4, <2>5, <2>6
<1>2. ASSUME StartRecording PROVE Goal
  <2>1. /\ recorder' \in BOOLEAN /\ needed' \in BOOLEAN
        /\ capture' \in BOOLEAN /\ early' \in BOOLEAN
    BY <1>0, <1>2 DEF StartRecording, SetCapture, TypeOK
  <2>2. file' \in Seq(1..MaxFrames) /\ waiting' \in BOOLEAN
    BY <1>0, <1>2, StartRecordingTypes
  <2>3. TypeOK'
    BY <1>0, <1>2, <2>1, <2>2 DEF StartRecording, TypeOK
  <2>4. NothingIsEarly' /\ WindowHasAKey'
    BY <1>0, <1>2 DEF StartRecording, NothingIsEarly, WindowHasAKey
  <2>5. AbandonedByStop' /\ RecorderIsFed'
    BY <1>0, <1>2
    DEF StartRecording, SetCapture, AbandonedByStop, RecorderIsFed
  <2> QED
    BY <2>3, <2>4, <2>5
<1>3. ASSUME NEW throws \in BOOLEAN, StopsRecording(throws),
             ui' \in {"idle", "clear"}, ui' = "clear" => source = 0,
             UNCHANGED <<session, buffer, flight, stream, outlived>>
      PROVE  Goal
  <2>1. /\ recorder' = FALSE /\ waiting' = FALSE /\ file' = <<>>
        /\ needed' \in BOOLEAN /\ capture' \in BOOLEAN
        /\ began' = 0 /\ early' = FALSE
    BY <1>0, <1>3, StopsRecordingKeepsTypes
  <2>2. recorder' \in BOOLEAN /\ waiting' \in BOOLEAN /\ early' \in BOOLEAN
    BY <2>1
  <2>3. file' \in Seq(1..MaxFrames) /\ began' \in 0..MaxFrames
    BY <2>1, RecordingAssumption
  <2>4. needed' \in BOOLEAN /\ capture' \in BOOLEAN
    BY <2>1
  <2>5. TypeOK'
    BY <1>0, <1>3, <2>2, <2>3, <2>4 DEF TypeOK
  <2>6. NothingIsEarly' /\ WindowHasAKey'
    BY <1>0, <1>3 DEF NothingIsEarly, WindowHasAKey
  <2>7. AbandonedByStop' /\ RecorderIsFed'
    BY <1>3, <2>1 DEF AbandonedByStop, RecorderIsFed
  <2> QED
    BY <2>5, <2>6, <2>7
<1>4. ASSUME StopRecording PROVE Goal
  BY <1>3, <1>4 DEF StopRecording
<1>5. ASSUME Stop PROVE Goal
  <2>1. capture' \in BOOLEAN
    BY <1>5 DEF Stop
  <2>2. TypeOK'
    <3>1. source' \in 0..MaxStarts
      BY <1>5, RecordingAssumption DEF Stop
    <3> QED
      BY <1>0, <1>5, <2>1, <3>1 DEF Stop, TypeOK
  <2>3. NothingIsEarly' /\ WindowHasAKey'
    BY <1>0, <1>5 DEF Stop, NothingIsEarly, WindowHasAKey
  <2>4. AbandonedByStop' /\ RecorderIsFed'
    BY <1>5 DEF Stop, AbandonedByStop, RecorderIsFed
  <2> QED
    BY <2>2, <2>3, <2>4
<1>6. ASSUME Clear PROVE Goal
  <2>1. /\ pre' = FALSE /\ needed' = FALSE /\ added' = <<>> /\ first' = 1
        /\ ui = "clear" /\ ui' = "idle" /\ source' = source
        /\ recorder' = recorder /\ early' = early
    BY <1>6 DEF Clear
  <2>2. pre' \in BOOLEAN /\ needed' \in BOOLEAN
    BY <2>1
  <2>3. TypeOK'
    <3>1. added' \in Seq(Frames) /\ first' \in 1..(Len(added') + 1)
      BY <2>1
    <3> QED
      BY <1>0, <1>6, <2>1, <2>2, <3>1 DEF Clear, TypeOK
  <2>4. NothingIsEarly' /\ WindowHasAKey'
    BY <1>0, <1>6, <2>1 DEF Clear, NothingIsEarly, WindowHasAKey
  <2>5. AbandonedByStop' /\ RecorderIsFed'
    BY <1>0, <2>1 DEF AbandonedByStop, RecorderIsFed
  <2> QED
    BY <2>3, <2>4, <2>5
<1>7. ASSUME NEW b \in BOOLEAN, Joined(b) PROVE Goal
  <2>1. outlived' \in BOOLEAN
    BY <1>0, <1>7 DEF Joined, TypeOK
  <2>2. TypeOK'
    BY <1>0, <1>7, <2>1 DEF Joined, TypeOK
  <2>3. NothingIsEarly' /\ WindowHasAKey'
    BY <1>0, <1>7 DEF Joined, NothingIsEarly, WindowHasAKey
  <2>4. AbandonedByStop' /\ RecorderIsFed'
    BY <1>0, <1>7 DEF Joined, AbandonedByStop, RecorderIsFed
  <2> QED
    BY <2>2, <2>3, <2>4
<1>8. ASSUME NEW b \in BOOLEAN, StopEndsRecording(b) PROVE Goal
  <2>1. /\ StopsRecording(b) /\ ui' \in {"idle", "clear"} /\ source = 0
        /\ UNCHANGED <<session, buffer, flight, stream, outlived>>
    BY <1>0, <1>8 DEF StopEndsRecording, AbandonedByStop
  <2> QED
    BY <1>3, <2>1
<1> QED
  BY <1>1, <1>2, <1>4, <1>5, <1>6, <1>7, <1>8 DEF IInv

LEMMA SessionStep ==
  ASSUME IInv, NEW s \in Sessions,
         \/ Record(s) \/ GiveUp(s)
         \/ \E key \in BOOLEAN, step \in Steps : Generate(s, key, step)
  PROVE  IInv'
<1> DEFINE Goal == /\ TypeOK' /\ NothingIsEarly' /\ WindowHasAKey'
                   /\ AbandonedByStop' /\ RecorderIsFed'
<1> USE DEF session, buffer, output, stream
<1>0. /\ TypeOK /\ NothingIsEarly /\ WindowHasAKey
      /\ AbandonedByStop /\ RecorderIsFed
      /\ flight \in [Sessions -> {NoFrame} \cup InFlight]
  BY DEF IInv, TypeOK, InFlight
<1>1. ASSUME NEW key \in BOOLEAN, NEW step \in Steps, Generate(s, key, step)
      PROVE  Goal
  <2> DEFINE new == [at |-> "record",
                     frame |-> [number |-> count', time |-> clock', key |-> key]]
  <2>1. /\ count' \in 1..MaxFrames /\ clock' \in Nat /\ clock' >= clock
        /\ clock \in Nat
    BY <1>0, <1>1, RecordingAssumption DEF Generate, TypeOK
  <2>2. keys' \subseteq 1..MaxFrames
    BY <1>0, <1>1, <2>1 DEF Generate, TypeOK
  <2>3. new \in InFlight /\ new.frame.time = clock'
    BY <2>1 DEF InFlight, Frames
  <2>4. flight' = flight \/ flight' = [flight EXCEPT ![s] = new]
    BY <1>1 DEF Generate
  <2> HIDE DEF new
  <2>5. flight' \in [Sessions -> {NoFrame} \cup InFlight]
    BY <1>0, <2>3, <2>4
  <2>6. TypeOK'
    BY <1>0, <1>1, <2>1, <2>2, <2>5 DEF Generate, TypeOK, InFlight
  <2>7. NothingIsEarly'
    <3> SUFFICES ASSUME NEW r \in Sessions, flight'[r] # NoFrame
                 PROVE  flight'[r].frame.time <= clock'
      BY DEF NothingIsEarly
    <3>1. CASE flight'[r] = flight[r]
      <4>1. flight[r] \in InFlight /\ flight[r].frame.time <= clock
        BY <1>0, <3>1 DEF NothingIsEarly
      <4> QED
        BY <2>1, <3>1, <4>1 DEF InFlight, Frames
    <3>2. CASE flight'[r] # flight[r]
      <4>1. flight'[r] = new
        BY <1>0, <2>4, <3>2
      <4> QED
        BY <2>1, <2>3, <4>1
    <3> QED
      BY <3>1, <3>2
  <2>8. WindowHasAKey'
    <3>1. added' = added /\ first' = first /\ pre' = pre
          /\ added \in Seq(Frames) /\ first \in 1..(Len(added) + 1)
      BY <1>0, <1>1 DEF Generate, TypeOK
    <3>2. ASSUME ReachesBack(added, first, clock - Duration)
          PROVE  ReachesBack(added, first, clock' - Duration)
      <4>1. ASSUME NEW k \in first..Len(added), added[k].key,
                   added[k].time <= clock - Duration
            PROVE  added[k].time <= clock' - Duration
        <5>1. added[k] \in Frames
          BY <3>1
        <5> QED
          BY <2>1, <4>1, <5>1, RecordingAssumption DEF Frames
      <4> QED
        BY <3>2, <4>1 DEF ReachesBack
    <3> QED
      BY <1>0, <3>1, <3>2 DEF WindowHasAKey
  <2>9. AbandonedByStop' /\ RecorderIsFed'
    BY <1>0, <1>1 DEF Generate, AbandonedByStop, RecorderIsFed
  <2> QED
    BY <2>6, <2>7, <2>8, <2>9
<1>2. ASSUME Record(s) PROVE Goal
  <2> DEFINE frame == flight[s].frame
             failed == [flight[s] EXCEPT !.at = "failed"]
  <2>1. flight[s].at = "record" /\ flight[s] \in InFlight /\ frame \in Frames
    <3>1. flight[s].at = "record"
      BY <1>2 DEF Record
    <3> QED
      BY <1>0, <3>1, NoFrameIsNone DEF InFlight
  <2>2. /\ added' \in Seq(Frames) /\ first' \in 1..(Len(added') + 1)
        /\ WindowHasAKey'
    <3>1. AddFrame(frame) /\ pre' = pre /\ clock' = clock
      BY <1>2 DEF Record
    <3> QED
      BY <1>0, <2>1, <3>1, AddFrameKeepsWindow
  <2>3. failed \in InFlight /\ failed.frame = frame
    BY <2>1 DEF InFlight
  <2>4. \/ flight' = [flight EXCEPT ![s] = NoFrame]
        \/ flight' = [flight EXCEPT ![s] = failed]
    BY <1>0, <1>2 DEF Record
  <2>5. waiting' \in BOOLEAN
    BY <1>0, <1>2 DEF Record, TypeOK
  <2>6. file' \in Seq(1..MaxFrames)
    <3>1. file' = file \/ file' = Append(file, frame.number)
      BY <1>2 DEF Record
    <3>2. file \in Seq(1..MaxFrames) /\ frame.number \in 1..MaxFrames
      BY <1>0, <2>1 DEF TypeOK, Frames
    <3>3. Append(file, frame.number) \in Seq(1..MaxFrames)
      BY <3>2, AppendProperties, Zenon
    <3> QED
      BY <3>1, <3>2, <3>3, Zenon
  <2> HIDE DEF failed
  <2>7. flight' \in [Sessions -> {NoFrame} \cup InFlight]
    BY <1>0, <2>3, <2>4
  <2>8. TypeOK'
    BY <1>0, <1>2, <2>2, <2>5, <2>6, <2>7 DEF Record, TypeOK, InFlight
  <2>9. NothingIsEarly'
    <3>1. clock' = clock /\ flight[s] # NoFrame
      BY <1>2, <2>1 DEF Record, InFlight, NoFrame
    <3>2. \A r \in Sessions : flight'[r] # NoFrame =>
            flight[r] # NoFrame /\ flight'[r].frame = flight[r].frame
      BY <1>0, <2>3, <2>4, <3>1
    <3> QED
      BY <1>0, <3>1, <3>2 DEF NothingIsEarly
  <2>10. AbandonedByStop' /\ RecorderIsFed'
    BY <1>0, <1>2 DEF Record, AbandonedByStop, RecorderIsFed
  <2> QED
    BY <2>2, <2>8, <2>9, <2>10
<1>3. ASSUME GiveUp(s) PROVE Goal
  <2>1. PICK throws \in BOOLEAN : StopsRecording(throws)
    BY <1>3 DEF GiveUp
  <2>2. /\ recorder' = FALSE /\ waiting' = FALSE /\ file' = <<>>
        /\ needed' \in BOOLEAN /\ capture' \in BOOLEAN
        /\ began' = 0 /\ early' = FALSE
    BY <1>0, <2>1, StopsRecordingKeepsTypes
  <2>3. recorder' \in BOOLEAN /\ waiting' \in BOOLEAN /\ early' \in BOOLEAN
    BY <2>2
  <2>4. file' \in Seq(1..MaxFrames) /\ began' \in 0..MaxFrames
    BY <2>2, RecordingAssumption
  <2>5. needed' \in BOOLEAN /\ capture' \in BOOLEAN
    BY <2>2
  <2>6. flight' \in [Sessions -> {NoFrame} \cup InFlight]
    BY <1>0, <1>3 DEF GiveUp
  <2>7. TypeOK'
    BY <1>0, <1>3, <2>3, <2>4, <2>5, <2>6 DEF GiveUp, TypeOK, InFlight
  <2>8. NothingIsEarly' /\ WindowHasAKey'
    BY <1>0, <1>3 DEF GiveUp, NothingIsEarly, WindowHasAKey
  <2>9. AbandonedByStop' /\ RecorderIsFed'
    BY <1>0, <1>3, <2>2 DEF GiveUp, AbandonedByStop, RecorderIsFed
  <2> QED
    BY <2>7, <2>8, <2>9
<1> QED
  BY <1>1, <1>2, <1>3 DEF IInv

LEMMA StepInvariant == IInv /\ [Next]_vars => IInv'
<1> SUFFICES ASSUME IInv, [Next]_vars PROVE IInv'
  OBVIOUS
<1>1. CASE UNCHANGED vars
  BY <1>1
  DEF vars, session, buffer, output, stream, IInv, TypeOK, NothingIsEarly,
      WindowHasAKey, AbandonedByStop, RecorderIsFed
<1>2. CASE Next
  BY <1>2, UiStep, SessionStep DEF Next
<1> QED
  BY <1>1, <1>2

(* Every variable keeps its type: pruning never goes beyond the frames     *)
(* there are.                                                              *)
THEOREM TypeCorrect == Spec => []TypeOK
<1>1. IInv => TypeOK
  BY DEF IInv
<1> QED
  BY <1>1, InitInvariant, StepInvariant, PTL DEF Spec

(* A recording that starts in the window starts with the frame it would    *)
(* start with if nothing had been pruned                                   *)
(* (CompressedVideoRollingBuffer.cs:85-130).                               *)
THEOREM PruningAlwaysInvisible == Spec => []PruningIsInvisible
<1>1. IInv => PruningIsInvisible
  <2> SUFFICES ASSUME IInv, pre, NEW requested \in Requests
               PROVE  StartIndex(added, first, requested)
                        = StartIndex(added, 1, requested)
    BY DEF PruningIsInvisible
  <2>1. /\ added \in Seq(Frames) /\ first \in 1..(Len(added) + 1)
        /\ clock \in Nat /\ ReachesBack(added, first, clock - Duration)
    BY DEF IInv, TypeOK, WindowHasAKey
  <2>2. requested \in Int /\ clock - Duration <= requested
    BY <2>1, RecordingAssumption DEF Requests
  <2>3. ASSUME NEW k \in first..Len(added),
               added[k].time <= clock - Duration
        PROVE  added[k].time <= requested
    <3>1. added[k] \in Frames
      BY <2>1
    <3> QED
      BY <2>1, <2>2, <2>3, <3>1, RecordingAssumption DEF Frames
  <2>4. ReachesBack(added, first, requested)
    BY <2>1, <2>3 DEF ReachesBack
  <2> QED
    BY <2>1, <2>2, <2>4, StartIndexFromLater
<1> QED
  BY <1>1, InitInvariant, StepInvariant, PTL DEF Spec

(* A recorder that was started while playing gets every frame until it is  *)
(* stopped (RtspVideoControl.cs:512, 658, 680-681).                        *)
THEOREM RecorderAlwaysFed == Spec => []RecorderIsFed
<1>1. IInv => RecorderIsFed
  BY DEF IInv
<1> QED
  BY <1>1, InitInvariant, StepInvariant, PTL DEF Spec
-----------------------------------------------------------------------------
(***************************************************************************)
(* The file and the buffer are complete, as long as Stop has waited for    *)
(* every frame.  Then at most one frame is in hand, the last one generated *)
(* (InHand); what the buffer and the recorder have seen ends with the      *)
(* frame before it, or with the last one (Seen).  Only a recorder that was *)
(* started without a source, and that a session without a buffer follows,  *)
(* sees nothing of it (Starved).                                           *)
(***************************************************************************)
Failed == \E s \in Sessions : flight[s].at = "failed"
Handed == \E s \in Sessions : flight[s].at = "record"
Seen   == IF Handed THEN count - 1 ELSE count

InHand ==
  \A s \in Sessions : flight[s] # NoFrame =>
    /\ s = source \/ ui = "join"
    /\ flight[s].frame.number = count
    /\ flight[s].frame.key <=> count \in keys
    /\ \A r \in Sessions \ {s} : flight[r] = NoFrame

BufferIsWhole ==
  pre =>
    /\ source # 0 => needed /\ capture
    /\ \A i \in 1..Len(added) : added[i].key => added[i].number \in keys
    /\ \A i \in 1..(Len(added) - 1) : added[i + 1].number = added[i].number + 1
    /\ added # <<>> => added[Len(added)].number = Seen

Starved ==
  /\ early /\ ~capture /\ (source # 0 \/ ui # "idle")
  /\ \A s \in Sessions : flight[s] = NoFrame

FileIsWhole ==
  recorder =>
    /\ ui # "clear" /\ (source # 0 => needed = capture)
    /\ file # <<>> => file[1] \in keys
    /\ \A i \in 1..(Len(file) - 1) : file[i + 1] = file[i] + 1
    /\ ~Failed =>
         /\ waiting <=> file = <<>>
         /\ file # <<>> => file[Len(file)] = Seen \/ Starved
         /\ file = <<>> /\ ~early => \A k \in keys : k \notin (began + 1)..Seen

RecInv ==
  ~outlived =>
    /\ keys \subseteq 1..count
    /\ InHand /\ BufferIsWhole /\ FileIsWhole

LEMMA RecFirst == Init => RecInv
BY DEF Init, RecInv, InHand, BufferIsWhole, FileIsWhole

(* A recording that is started gets all that the buffer has from a key     *)
(* frame on.                                                               *)
LEMMA FileFromBuffer ==
  ASSUME TypeOK, BufferIsWhole, StartRecording
  PROVE  /\ waiting' <=> file' = <<>>
         /\ file' # <<>> => file'[1] \in keys /\ file'[Len(file')] = Seen
         /\ \A i \in 1..(Len(file') - 1) : file'[i + 1] = file'[i] + 1
<1>1. /\ added \in Seq(Frames) /\ first \in 1..(Len(added) + 1)
      /\ clock \in Nat /\ Len(added) \in Nat
  BY DEF TypeOK
<1>2. PICK requested \in Requests :
        LET from == IF pre THEN StartIndex(added, first, requested) ELSE 0
        IN /\ file' = IF from = 0 THEN <<>>
                      ELSE [i \in 1..(Len(added) - from + 1) |->
                              added[from + i - 1].number]
           /\ waiting' = (from = 0)
  BY DEF StartRecording
<1>3. requested \in Int
  BY <1>1, RecordingAssumption DEF Requests
<1>4. PICK from \in {0} \cup (first..Len(added)) :
        /\ from # 0 => pre /\ added[from].key
        /\ file' = IF from = 0 THEN <<>>
                   ELSE [i \in 1..(Len(added) - from + 1) |->
                           added[from + i - 1].number]
        /\ waiting' = (from = 0)
  BY <1>1, <1>2, <1>3, StartIndexIsAnIndex
<1>5. CASE from = 0
  <2>1. file' = <<>> /\ waiting' = TRUE
    BY <1>4, <1>5
  <2>2. Len(file') = 0
    BY <2>1
  <2> QED
    BY <2>1, <2>2
<1>6. CASE from # 0
  <2> DEFINE m == Len(added) - from + 1
  <2>1. /\ m \in Nat \ {0} /\ from + 1 - 1 = from /\ from + m - 1 = Len(added)
        /\ \A i \in 1..m : from + i - 1 \in 1..Len(added)
    BY <1>1, <1>4, <1>6
  <2>2. file' = [i \in 1..m |-> added[from + i - 1].number]
    BY <1>4, <1>6
  <2>3. /\ \A i \in 1..Len(added) : added[i].key => added[i].number \in keys
        /\ \A i \in 1..(Len(added) - 1) :
             added[i + 1].number = added[i].number + 1
        /\ added[Len(added)].number = Seen /\ added[from].key
    BY <1>1, <1>4, <1>6 DEF BufferIsWhole
  <2> HIDE DEF m
  <2>4. /\ Len(file') = m /\ file' # <<>>
        /\ file'[1] = added[from].number
        /\ file'[m] = added[Len(added)].number
    <3>1. file' \in Seq(1..MaxFrames)
      BY StartRecordingTypes
    <3>2. DOMAIN file' = 1..m
      BY <2>2
    <3>3. Len(file') = m
      BY <2>1, <3>1, <3>2, LenProperties
    <3>4. 1 \in 1..m /\ m \in 1..m
      BY <2>1
    <3> QED
      BY <2>1, <2>2, <3>3, <3>4
  <2>5. \A i \in 1..(m - 1) : file'[i + 1] = file'[i] + 1
    <3> TAKE i \in 1..(m - 1)
    <3>1. /\ i \in 1..m /\ i + 1 \in 1..m
          /\ from + (i + 1) - 1 = (from + i - 1) + 1
          /\ from + i - 1 \in 1..(Len(added) - 1)
      BY <1>1, <1>4, <1>6, <2>1
    <3> QED
      BY <2>2, <2>3, <3>1
  <2>6. file'[1] \in keys
    BY <1>1, <1>4, <1>6, <2>1, <2>3, <2>4
  <2> QED
    BY <1>4, <1>6, <2>3, <2>4, <2>5, <2>6
<1> QED
  BY <1>5, <1>6

(* A recording that ends leaves what is captured to the buffer.            *)
LEMMA StopsRecordingKeepsCapture ==
  ASSUME BufferIsWhole, NEW throws \in BOOLEAN, StopsRecording(throws)
  PROVE  /\ ~recorder'
         /\ pre /\ source # 0 => needed' /\ capture'
BY DEF StopsRecording, SetCapture, BufferIsWhole

LEMMA UiKeepsRec ==
  ASSUME IInv, RecInv, ~outlived',
         \/ \E preRecord \in BOOLEAN : Start(preRecord)
         \/ StartRecording \/ StopRecording \/ Stop \/ Clear
         \/ \E b \in BOOLEAN : Joined(b) \/ StopEndsRecording(b)
  PROVE  keys' \subseteq 1..count' /\ InHand' /\ BufferIsWhole' /\ FileIsWhole'
<1> DEFINE Goal == keys' \subseteq 1..count' /\ InHand' /\ BufferIsWhole'
                     /\ FileIsWhole'
<1> USE DEF session, buffer, output, stream
<1>0. /\ TypeOK /\ AbandonedByStop
      /\ count \in Nat /\ Sessions \cap {0} = {}
  BY DEF IInv, TypeOK, Sessions
<1>1. /\ ~outlived /\ UNCHANGED <<flight, count, keys>>
      /\ (Failed' <=> Failed) /\ (Handed' <=> Handed) /\ Seen' = Seen
  <2>1. UNCHANGED <<flight, count, keys>>
    BY DEF Start, StartRecording, StopRecording, Stop, Clear, Joined,
           StopEndsRecording
  <2>2. outlived => outlived'
    BY DEF Start, StartRecording, StopRecording, Stop, Clear, Joined,
           StopEndsRecording
  <2> QED
    BY <2>1, <2>2 DEF Failed, Handed, Seen
<1>2. keys' \subseteq 1..count' /\ InHand /\ BufferIsWhole /\ FileIsWhole
  BY <1>1 DEF RecInv
<1>3. source = 0 /\ ui # "join" => \A s \in Sessions : flight[s] = NoFrame
  BY <1>0, <1>2 DEF InHand
<1>4. ASSUME NEW preRecord \in BOOLEAN, Start(preRecord) PROVE Goal
  <2>1. /\ source = 0 /\ ui = "idle" /\ ui' = ui
        /\ pre' = preRecord /\ needed' = preRecord /\ capture' = preRecord
        /\ added' = <<>>
        /\ UNCHANGED <<recorder, waiting, file, began, early>>
    BY <1>4 DEF Start
  <2>2. InHand'
    BY <1>1, <1>3, <2>1 DEF InHand
  <2>3. BufferIsWhole'
    BY <2>1 DEF BufferIsWhole
  <2>4. FileIsWhole'
    BY <1>1, <1>2, <2>1 DEF FileIsWhole, Starved
  <2> QED
    BY <1>2, <2>2, <2>3, <2>4
<1>5. ASSUME StartRecording PROVE Goal
  <2>1. /\ waiting' <=> file' = <<>>
        /\ file' # <<>> => file'[1] \in keys /\ file'[Len(file')] = Seen
        /\ \A i \in 1..(Len(file') - 1) : file'[i + 1] = file'[i] + 1
    BY <1>0, <1>2, <1>5, FileFromBuffer
  <2>2. /\ ui = "idle" /\ began' = count /\ needed' = TRUE
        /\ source # 0 => capture' = TRUE
        /\ UNCHANGED <<ui, source, pre, added>>
    BY <1>5 DEF StartRecording, SetCapture
  <2>3. InHand' /\ BufferIsWhole'
    BY <1>1, <1>2, <2>2 DEF InHand, BufferIsWhole
  <2>4. \A k \in keys : k \notin (count + 1)..Seen
    BY <1>0 DEF Seen
  <2>5. FileIsWhole'
    BY <1>1, <2>1, <2>2, <2>4 DEF FileIsWhole
  <2> QED
    BY <1>2, <2>3, <2>5
<1>6. ASSUME StopRecording PROVE Goal
  <2>1. /\ ~recorder' /\ UNCHANGED <<ui, source, pre, added>>
        /\ pre /\ source # 0 => needed' /\ capture'
    BY <1>2, <1>6, StopsRecordingKeepsCapture DEF StopRecording
  <2> QED
    BY <1>1, <1>2, <2>1 DEF InHand, BufferIsWhole, FileIsWhole
<1>7. ASSUME Stop PROVE Goal
  <2>1. /\ ui' = "join" /\ source' = 0 /\ ~capture'
        /\ UNCHANGED <<pre, added, recorder, waiting, file, began, early>>
    BY <1>7 DEF Stop
  <2>2. InHand' /\ BufferIsWhole'
    BY <1>1, <1>2, <2>1 DEF InHand, BufferIsWhole
  <2>3. FileIsWhole'
    BY <1>1, <1>2, <2>1 DEF FileIsWhole, Starved
  <2> QED
    BY <1>2, <2>2, <2>3
<1>8. ASSUME Clear PROVE Goal
  <2>1. /\ ui = "clear" /\ ~pre' /\ UNCHANGED <<source, recorder>> /\ source = 0
    BY <1>0, <1>8 DEF Clear, AbandonedByStop
  <2> QED
    BY <1>1, <1>2, <1>3, <2>1 DEF InHand, BufferIsWhole, FileIsWhole
<1>9. ASSUME NEW b \in BOOLEAN, Joined(b) PROVE Goal
  <2>1. /\ ui' = "stopRecording" /\ source = 0 /\ source' = 0
        /\ \A s \in Sessions : flight[s] = NoFrame
        /\ UNCHANGED <<needed, capture, pre, added, recorder, waiting, file,
                       began, early>>
    BY <1>0, <1>9 DEF Joined, AbandonedByStop
  <2>2. InHand' /\ BufferIsWhole'
    BY <1>1, <1>2, <2>1 DEF InHand, BufferIsWhole
  <2>3. FileIsWhole'
    BY <1>1, <1>2, <2>1 DEF FileIsWhole, Starved
  <2> QED
    BY <1>2, <2>2, <2>3
<1>10. ASSUME NEW b \in BOOLEAN, StopEndsRecording(b) PROVE Goal
  <2>1. /\ ~recorder' /\ ui = "stopRecording" /\ source = 0 /\ source' = 0
        /\ UNCHANGED <<pre, added>>
    BY <1>0, <1>2, <1>10, StopsRecordingKeepsCapture
    DEF StopEndsRecording, AbandonedByStop
  <2> QED
    BY <1>1, <1>2, <1>3, <2>1 DEF InHand, BufferIsWhole, FileIsWhole
<1> QED
  BY <1>4, <1>5, <1>6, <1>7, <1>8, <1>9, <1>10

(* The frame in hand is the only one.                                      *)
LEMMA OnlyOneInHand ==
  ASSUME TypeOK, InHand, NEW s \in Sessions, flight[s] # NoFrame
  PROVE  /\ flight[s] \in InFlight /\ flight[s].frame \in Frames
         /\ flight[s].frame.number = count
         /\ flight[s].frame.key <=> count \in keys
         /\ s = source \/ ui = "join"
         /\ \A r \in Sessions \ {s} : flight[r] = NoFrame
         /\ Handed <=> flight[s].at = "record"
         /\ Failed <=> flight[s].at = "failed"
<1>1. flight[s] \in InFlight
  BY NoFrameIsNone
<1>2. \A r \in Sessions \ {s} : flight[r] = NoFrame
  BY DEF InHand
<1>3. \A r \in Sessions \ {s} : flight[r].at = "none"
  BY <1>2 DEF NoFrame
<1> QED
  BY <1>1, <1>2, <1>3 DEF InHand, InFlight, Handed, Failed

(* A frame that is generated is captured, unless nothing wants it.         *)
LEMMA GenerateKeepsRec ==
  ASSUME IInv, RecInv, ~outlived, NEW s \in Sessions, NEW key \in BOOLEAN,
         NEW step \in Steps, Generate(s, key, step)
  PROVE  keys' \subseteq 1..count' /\ InHand' /\ BufferIsWhole' /\ FileIsWhole'
<1> DEFINE new == [at |-> "record",
                   frame |-> [number |-> count', time |-> clock', key |-> key]]
<1> USE DEF session, buffer, output, stream
<1>0. /\ TypeOK /\ AbandonedByStop /\ RecorderIsFed /\ count \in Nat
      /\ flight \in [Sessions -> {NoFrame} \cup InFlight]
  BY DEF IInv, TypeOK, InFlight
<1>1. keys \subseteq 1..count /\ InHand /\ BufferIsWhole /\ FileIsWhole
  BY DEF RecInv
<1>2. /\ source = s /\ source # 0 /\ ui = "idle"
      /\ UNCHANGED <<ui, source, needed, capture, pre, added, recorder,
                     waiting, file, began, early>>
      /\ count' = count + 1
      /\ keys' = IF key THEN keys \cup {count + 1} ELSE keys
  BY <1>0 DEF Generate, AbandonedByStop, Sessions
<1>3. \A r \in Sessions : flight[r] = NoFrame
  BY <1>1, <1>2 DEF Generate, InHand
<1>4. ~Handed /\ ~Failed /\ Seen = count
  BY <1>3 DEF Handed, Failed, Seen, NoFrame
<1>5. keys' \subseteq 1..count' /\ (key <=> count' \in keys') /\ keys \subseteq keys'
  BY <1>0, <1>1, <1>2
<1>6. CASE capture /\ needed
  <2>1. /\ flight' = [flight EXCEPT ![s] = new]
        /\ new # NoFrame /\ new.at = "record" /\ new.frame.number = count'
        /\ new.frame.key = key
    BY <1>6 DEF Generate, NoFrame
  <2> HIDE DEF new
  <2>2. flight'[s] = new /\ \A r \in Sessions \ {s} : flight'[r] = NoFrame
    BY <1>0, <1>3, <2>1
  <2>3. InHand'
    BY <1>2, <1>5, <2>1, <2>2 DEF InHand
  <2>4. Handed' /\ ~Failed' /\ Seen' = count
    <3>1. Handed'
      BY <2>1, <2>2 DEF Handed
    <3>2. ~Failed'
      BY <2>1, <2>2 DEF Failed, NoFrame
    <3> QED
      BY <1>0, <1>2, <3>1, <3>2 DEF Seen
  <2>5. BufferIsWhole'
    BY <1>1, <1>2, <1>4, <1>5, <2>4 DEF BufferIsWhole
  <2>6. ~Starved
    BY <1>6 DEF Starved
  <2>7. \A k \in keys' : k \in keys \/ k = count + 1
    BY <1>2
  <2>8. count + 1 \notin (began + 1)..count
    BY <1>0 DEF TypeOK
  <2>9. FileIsWhole'
    BY <1>1, <1>2, <1>4, <1>5, <2>4, <2>6, <2>7, <2>8 DEF FileIsWhole
  <2> QED
    BY <1>5, <2>3, <2>5, <2>9
<1>7. CASE ~(capture /\ needed)
  <2>1. flight' = flight
    BY <1>7 DEF Generate
  <2>2. InHand' /\ ~Failed'
    BY <1>3, <1>4, <2>1 DEF InHand, Failed
  <2>3. BufferIsWhole'
    BY <1>1, <1>2, <1>7 DEF BufferIsWhole
  <2>4. recorder => early /\ ~capture
    BY <1>0, <1>1, <1>2, <1>7 DEF FileIsWhole, RecorderIsFed, TypeOK
  <2>5. recorder => Starved'
    BY <1>2, <1>3, <2>1, <2>4 DEF Starved
  <2>6. FileIsWhole'
    BY <1>1, <1>2, <1>4, <1>5, <2>4, <2>5 DEF FileIsWhole
  <2> QED
    BY <1>5, <2>2, <2>3, <2>6
<1> QED
  BY <1>6, <1>7

(* The frame in hand is added to the buffer and written.                   *)
LEMMA RecordKeepsRec ==
  ASSUME IInv, RecInv, ~outlived, NEW s \in Sessions, Record(s)
  PROVE  keys' \subseteq 1..count' /\ InHand' /\ BufferIsWhole' /\ FileIsWhole'
<1> DEFINE frame == flight[s].frame
           failed == [flight[s] EXCEPT !.at = "failed"]
<1> USE DEF session, buffer, output, stream
<1>0. /\ TypeOK /\ count \in Nat
      /\ flight \in [Sessions -> {NoFrame} \cup InFlight]
      /\ added \in Seq(Frames) /\ file \in Seq(1..MaxFrames)
  BY DEF IInv, TypeOK, InFlight
<1>1. keys \subseteq 1..count /\ InHand /\ BufferIsWhole /\ FileIsWhole
  BY DEF RecInv
<1>2. /\ flight[s].at = "record" /\ flight[s] # NoFrame
      /\ UNCHANGED <<ui, source, needed, capture, pre, recorder, began, early,
                     count, keys>>
  BY DEF Record, NoFrame
<1>3. /\ flight[s] \in InFlight /\ frame \in Frames /\ frame.number = count
      /\ frame.key <=> count \in keys
      /\ s = source \/ ui = "join"
      /\ \A r \in Sessions \ {s} : flight[r] = NoFrame
      /\ Handed /\ ~Failed /\ Seen = count - 1
  BY <1>0, <1>1, <1>2, OnlyOneInHand DEF Seen
<1>4. /\ failed \in InFlight /\ failed.frame = frame /\ failed.at = "failed"
      /\ failed # NoFrame
  BY <1>3 DEF InFlight, NoFrame
<1>5. \/ flight' = [flight EXCEPT ![s] = NoFrame]
      \/ flight' = [flight EXCEPT ![s] = failed]
  BY <1>0 DEF Record
<1> HIDE DEF failed
<1>6. /\ \A r \in Sessions \ {s} : flight'[r] = NoFrame
      /\ flight'[s] \in {NoFrame, failed}
  BY <1>0, <1>3, <1>5
<1>7. InHand' /\ ~Handed' /\ Seen' = count
  <2>1. InHand'
    BY <1>2, <1>3, <1>4, <1>6 DEF InHand
  <2>2. ~Handed'
    BY <1>4, <1>6 DEF Handed, NoFrame
  <2> QED
    BY <1>2, <2>1, <2>2 DEF Seen
<1>8. BufferIsWhole'
  <2>1. CASE ~pre
    BY <1>2, <2>1 DEF BufferIsWhole
  <2>2. CASE pre
    <3>1. added' = Append(added, frame)
      BY <2>2 DEF Record, AddFrame
    <3> DEFINE n == Len(added)
    <3>2. /\ n \in Nat /\ Len(added') = n + 1 /\ added'[n + 1] = frame
          /\ \A i \in 1..n : added'[i] = added[i]
      BY <1>0, <1>3, <3>1
    <3>3. /\ \A i \in 1..n : added[i].key => added[i].number \in keys
          /\ \A i \in 1..(n - 1) : added[i + 1].number = added[i].number + 1
          /\ n # 0 => added[n].number + 1 = count
          /\ source # 0 => needed /\ capture
      <4>1. n # 0 => added # <<>>
        BY <3>2
      <4> QED
        BY <1>0, <1>1, <1>3, <2>2, <4>1 DEF BufferIsWhole
    <3> HIDE DEF n, frame
    <3>4. \A i \in 1..(n + 1) : added'[i].key => added'[i].number \in keys
      BY <1>3, <3>2, <3>3
    <3>5. \A i \in 1..n : added'[i + 1].number = added'[i].number + 1
      <4> TAKE i \in 1..n
      <4>1. CASE i = n
        BY <1>3, <3>2, <3>3, <4>1
      <4>2. CASE i # n
        BY <3>2, <3>3, <4>2
      <4> QED
        BY <4>1, <4>2
    <3>6. added'[Len(added')].number = Seen'
      BY <1>3, <1>7, <3>2
    <3> QED
      BY <1>2, <3>2, <3>3, <3>4, <3>5, <3>6 DEF BufferIsWhole
  <2> QED
    BY <2>1, <2>2
<1>9. ~Starved
  BY <1>2 DEF Starved
<1>10. FileIsWhole'
  <2> SUFFICES ASSUME recorder PROVE FileIsWhole'
    BY <1>2 DEF FileIsWhole
  <2>1. /\ ui # "clear" /\ (source # 0 => needed = capture)
        /\ file # <<>> => file[1] \in keys
        /\ \A i \in 1..(Len(file) - 1) : file[i + 1] = file[i] + 1
        /\ waiting <=> file = <<>>
        /\ file # <<>> => file[Len(file)] = count - 1
        /\ file = <<>> /\ ~early => \A k \in keys : k \notin (began + 1)..(count - 1)
    BY <1>1, <1>3, <1>9 DEF FileIsWhole
  <2>2. CASE ~Accepts(frame)
    <3>1. ~frame.key /\ waiting /\ UNCHANGED <<file, waiting>>
      BY <2>2 DEF Record, Accepts
    <3>2. \A k \in keys : k # count
      BY <1>3, <3>1
    <3>3. file = <<>> /\ ~early => \A k \in keys : k \notin (began + 1)..count
      BY <1>0, <2>1, <3>2 DEF TypeOK
    <3> QED
      BY <1>2, <1>7, <2>1, <3>1, <3>3 DEF FileIsWhole
  <2>3. CASE Accepts(frame) /\ file' = file /\ flight'[s] = failed
    <3>1. Failed'
      BY <1>4, <2>3 DEF Failed
    <3> QED
      BY <1>2, <2>1, <2>3, <3>1 DEF FileIsWhole
  <2>4. CASE Accepts(frame) /\ file' = Append(file, count) /\ waiting' = FALSE
    <3> DEFINE n == Len(file)
    <3>1. /\ n \in Nat /\ Len(file') = n + 1 /\ file'[n + 1] = count
          /\ \A i \in 1..n : file'[i] = file[i]
          /\ \A i \in 1..n : file[i] \in Nat
          /\ file' # <<>> /\ (n = 0 => file = <<>>) /\ (n # 0 => file # <<>>)
      <4>1. \A i \in 1..n : file[i] \in 1..MaxFrames
        BY <1>0, ElementOfSeq, Zenon
      <4>2. count \in 1..MaxFrames
        BY <1>3 DEF Frames
      <4>3. Len(file') = n + 1 /\ n \in Nat
        BY <1>0, <2>4, <4>2
      <4> QED
        BY <1>0, <2>4, <4>1, <4>2, <4>3
    <3> HIDE DEF n, frame
    <3>2. file'[1] \in keys
      <4>1. CASE n = 0
        BY <1>3, <2>1, <2>4, <3>1, <4>1 DEF Accepts
      <4>2. CASE n # 0
        BY <2>1, <3>1, <4>2
      <4> QED
        BY <4>1, <4>2
    <3>3. \A i \in 1..n : file'[i + 1] = file'[i] + 1
      <4> TAKE i \in 1..n
      <4>1. CASE i = n
        <5>1. file[n] = count - 1
          BY <2>1, <3>1, <4>1 DEF n
        <5> QED
          BY <1>0, <3>1, <4>1, <5>1
      <4>2. CASE i # n
        <5>1. i \in 1..(n - 1) /\ i + 1 \in 1..n
          BY <3>1, <4>2
        <5> QED
          BY <2>1, <3>1, <5>1 DEF n
      <4> QED
        BY <4>1, <4>2
    <3>4. file'[Len(file')] = Seen'
      BY <1>7, <3>1
    <3> QED
      BY <1>2, <2>1, <2>4, <3>1, <3>2, <3>3, <3>4 DEF FileIsWhole
  <2>5. \/ ~Accepts(frame)
        \/ Accepts(frame) /\ file' = file /\ flight'[s] = failed
        \/ Accepts(frame) /\ file' = Append(file, count) /\ waiting' = FALSE
    <3>1. \/ IF recorder /\ Accepts(frame)
               THEN file' = Append(file, frame.number) /\ waiting' = FALSE
               ELSE UNCHANGED <<file, waiting>>
          \/ /\ Accepts(frame) /\ file' = file
             /\ flight' = [flight EXCEPT ![s] = failed]
      BY <1>0 DEF Record, failed
    <3> QED
      BY <1>0, <1>3, <3>1
  <2> QED
    BY <2>2, <2>3, <2>4, <2>5
<1> QED
  BY <1>1, <1>2, <1>7, <1>8, <1>10

LEMMA GiveUpKeepsRec ==
  ASSUME IInv, RecInv, ~outlived, NEW s \in Sessions, GiveUp(s)
  PROVE  keys' \subseteq 1..count' /\ InHand' /\ BufferIsWhole' /\ FileIsWhole'
<1> USE DEF session, buffer, output, stream
<1>0. TypeOK /\ flight \in [Sessions -> {NoFrame} \cup InFlight]
  BY DEF IInv, TypeOK, InFlight
<1>1. keys \subseteq 1..count /\ InHand /\ BufferIsWhole
  BY DEF RecInv
<1>2. /\ flight[s].at = "failed" /\ flight[s] # NoFrame
      /\ flight' = [flight EXCEPT ![s] = NoFrame]
      /\ UNCHANGED <<ui, source, pre, added, count, keys>>
  BY DEF GiveUp, NoFrame
<1>3. ~Handed /\ \A r \in Sessions : flight'[r] = NoFrame
  BY <1>0, <1>1, <1>2, OnlyOneInHand
<1>4. InHand' /\ ~Handed'
  BY <1>3 DEF InHand, Handed, NoFrame
<1>5. ~recorder' /\ (pre /\ source # 0 => needed' /\ capture')
  BY <1>1, StopsRecordingKeepsCapture DEF GiveUp
<1>6. BufferIsWhole' /\ FileIsWhole'
  BY <1>1, <1>2, <1>3, <1>4, <1>5 DEF BufferIsWhole, FileIsWhole, Seen
<1> QED
  BY <1>1, <1>2, <1>4, <1>6

LEMMA RecInductive == IInv /\ RecInv /\ [Next]_vars => RecInv'
<1> SUFFICES ASSUME IInv, RecInv, [Next]_vars, ~outlived'
             PROVE  /\ keys' \subseteq 1..count'
                    /\ InHand' /\ BufferIsWhole' /\ FileIsWhole'
  BY DEF RecInv
<1>1. CASE UNCHANGED vars
  BY <1>1
  DEF vars, session, buffer, output, stream, RecInv, InHand, BufferIsWhole,
      FileIsWhole, Starved, Failed, Handed, Seen
<1>2. ASSUME NEW s \in Sessions,
             \/ Record(s) \/ GiveUp(s)
             \/ \E key \in BOOLEAN, step \in Steps : Generate(s, key, step)
      PROVE  /\ keys' \subseteq 1..count'
             /\ InHand' /\ BufferIsWhole' /\ FileIsWhole'
  <2>1. ~outlived
    BY <1>2 DEF Record, GiveUp, Generate
  <2> QED
    BY <1>2, <2>1, GenerateKeepsRec, RecordKeepsRec, GiveUpKeepsRec
<1> QED
  BY <1>1, <1>2, UiKeepsRec DEF Next

(* The file of a recording is complete: it starts with a key frame, has    *)
(* every frame since, from the rolling buffer and from the stream, in      *)
(* order and once, and is empty only before the first key frame; whatever  *)
(* was recorded before, however sessions, recordings, pruning and failing  *)
(* writes alternate, as long as Stop waited for the frames in hand; the    *)
(* newest frame may miss in a recording that was started while nothing     *)
(* played (RtspVideoControl.cs:643-664, 1550-1584).                        *)
THEOREM RecordingAlwaysComplete == Spec => []RecordingIsComplete
<1>1. IInv /\ RecInv => RecordingIsComplete
  <2> SUFFICES ASSUME IInv, RecInv, recorder, ~outlived
               PROVE  /\ file # <<>> => file[1] \in keys
                      /\ \A i \in 1..(Len(file) - 1) : file[i + 1] = file[i] + 1
                      /\ source # 0 /\ ~early /\ flight[source] # NoFrame
                           => flight[source].at = "failed" \/ Complete
                      /\ source # 0 /\ ~early /\ flight[source] = NoFrame
                           => Complete
    BY DEF RecordingIsComplete
  <2>1. TypeOK /\ InHand /\ FileIsWhole
    BY DEF IInv, RecInv
  <2>2. ASSUME source # 0, ~early, ~Failed,
               Seen = IF flight[source] = NoFrame THEN count ELSE count - 1
        PROVE  Complete
    <3>1. ~Starved
      BY <2>2 DEF Starved
    <3> QED
      BY <2>1, <2>2, <3>1 DEF FileIsWhole, Complete
  <2>3. ASSUME source # 0, flight[source] = NoFrame
        PROVE  ~Failed /\ Seen = count
    <3>1. \A r \in Sessions : flight[r] = NoFrame
      <4>1. ui = "idle"
        BY <2>3 DEF IInv, AbandonedByStop
      <4> QED
        BY <2>1, <2>3, <4>1 DEF InHand
    <3> QED
      BY <3>1 DEF Failed, Handed, Seen, NoFrame
  <2>4. ASSUME source # 0, flight[source] # NoFrame, flight[source].at # "failed"
        PROVE  ~Failed /\ Seen = count - 1
    <3>1. source \in Sessions
      BY <2>1, <2>4 DEF TypeOK, Sessions
    <3>2. /\ flight[source] \in InFlight
          /\ Handed <=> flight[source].at = "record"
          /\ Failed <=> flight[source].at = "failed"
      BY <2>1, <2>4, <3>1, OnlyOneInHand
    <3> QED
      BY <2>4, <3>2 DEF InFlight, Seen
  <2> QED
    BY <2>1, <2>2, <2>3, <2>4 DEF FileIsWhole
<1> QED
  BY <1>1, InitInvariant, StepInvariant, RecFirst, RecInductive, PTL DEF Spec
=============================================================================
