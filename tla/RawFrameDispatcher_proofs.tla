---------------------- MODULE RawFrameDispatcher_proofs ----------------------
(***************************************************************************)
(* Theorems about RawFrameDispatcher, for any number of producers and      *)
(* closers and any capacity above one.                                     *)
(***************************************************************************)
EXTENDS RawFrameDispatcher, SequenceTheorems, TLAPS

(***************************************************************************)
(* The inductive invariant.  RefusedOnlyInTheWindow and the refinement     *)
(* need the semaphores' arithmetic (SlotsAddUp, BelowCapacity) and that    *)
(* one thread at a time is between lock and unlock (LockIsHeld).           *)
(***************************************************************************)
Inside == {"deciding", "makingRoom", "draining", "adding"}

LockIsHeld ==
  \A p \in Producers : producerAt[p] \in Inside <=> enqueueLock = p

HasFrame ==
  \A p \in Producers : producerAt[p] # "idle" => frame[p] \in Frame

BelowCapacity ==
  \A p \in Producers :
    producerAt[p] = "adding" => occupiedSlots < MaxQueuedFrames

LoopHoldsFrame == copiedFrame # NoFrame <=> loopAt \in {"dequeued", "handling"}

DisposedFirst ==
  /\ addingCompleted => disposed
  /\ \A c \in Threads : closerAt[c] = "locking" => disposed

IInv ==
  /\ TypeOK
  /\ SlotsAddUp
  /\ LockIsHeld /\ HasFrame /\ BelowCapacity
  /\ LoopHoldsFrame
  /\ DisposedFirst
  /\ CompleteAddingExcludesEnqueue

LEMMA NoFrameIsNoFrame == NoFrame \notin Frame
  BY DEF NoFrame, Frame

LEMMA Initially == Init => IInv
<1> SUFFICES ASSUME Init PROVE IInv
  OBVIOUS
<1>1. <<>> \in Seq(Frame)
  OBVIOUS
<1> USE CapacityAssumption, BoundAssumption, ProducersAssumption DEF Init
<1>2. TypeOK
  <2>1. /\ generated \in 0 .. MaxFrames /\ lastH264Frame \in 0 .. generated
        /\ rented \subseteq 1 .. MaxFrames /\ refused \subseteq 1 .. MaxFrames
        /\ lastShown \in 0 .. MaxFrames
    OBVIOUS
  <2>2. /\ producerAt \in [Producers -> {"idle", "locking", "deciding",
                                        "makingRoom", "draining", "adding"}]
        /\ frame \in [Producers -> Frame \union {NoFrame}]
        /\ closerAt \in [Threads -> {"idle", "locking", "joining", "returned"}]
    OBVIOUS
  <2> QED
    BY <1>1, <2>1, <2>2 DEF TypeOK
<1>3. SlotsAddUp
  BY DEF SlotsAddUp
<1>4. LockIsHeld /\ HasFrame /\ BelowCapacity
  BY DEF LockIsHeld, Inside, HasFrame, BelowCapacity
<1>5. LoopHoldsFrame /\ DisposedFirst /\ CompleteAddingExcludesEnqueue
  BY DEF LoopHoldsFrame, DisposedFirst, CompleteAddingExcludesEnqueue
<1> QED
  BY <1>2, <1>3, <1>4, <1>5 DEF IInv

LEMMA LoopStartsKeeps ==
  ASSUME IInv, LoopStarts
  PROVE  IInv'
<1> USE CapacityAssumption, BoundAssumption, ProducersAssumption
    DEF queueVars, loopVars, genVars
<1>1. TypeOK'
  BY NoFrameIsNoFrame DEF IInv, TypeOK, SlotsAddUp, HasFrame, LoopHoldsFrame, LoopStarts, LoopStep
<1>2. SlotsAddUp'
  BY DEF IInv, TypeOK, SlotsAddUp, LoopStarts, LoopStep
<1>3. LockIsHeld' /\ HasFrame' /\ BelowCapacity'
  BY DEF IInv, TypeOK, SlotsAddUp, LockIsHeld, Inside, HasFrame, BelowCapacity, LoopStarts, LoopStep
<1>4. LoopHoldsFrame'
  BY NoFrameIsNoFrame DEF IInv, TypeOK, SlotsAddUp, LoopHoldsFrame, LoopStarts, LoopStep
<1>5. DisposedFirst' /\ CompleteAddingExcludesEnqueue'
  BY DEF IInv, TypeOK, LockIsHeld, Inside, DisposedFirst, CompleteAddingExcludesEnqueue, LoopStarts, LoopStep
<1> QED
  BY <1>1, <1>2, <1>3, <1>4, <1>5 DEF IInv

LEMMA ClaimKeeps ==
  ASSUME IInv, Claim
  PROVE  IInv'
<1> USE CapacityAssumption, BoundAssumption, ProducersAssumption
    DEF queueVars, loopVars, genVars
<1>1. TypeOK'
  BY NoFrameIsNoFrame DEF IInv, TypeOK, SlotsAddUp, HasFrame, LoopHoldsFrame, Claim, LoopStep, Flushing
<1>2. SlotsAddUp'
  BY DEF IInv, TypeOK, SlotsAddUp, Claim, LoopStep, Flushing
<1>3. LockIsHeld' /\ HasFrame' /\ BelowCapacity'
  BY DEF IInv, TypeOK, SlotsAddUp, LockIsHeld, Inside, HasFrame, BelowCapacity, Claim, LoopStep, Flushing
<1>4. LoopHoldsFrame'
  BY NoFrameIsNoFrame DEF IInv, TypeOK, SlotsAddUp, LoopHoldsFrame, Claim, LoopStep, Flushing
<1>5. DisposedFirst' /\ CompleteAddingExcludesEnqueue'
  BY DEF IInv, TypeOK, LockIsHeld, Inside, DisposedFirst, CompleteAddingExcludesEnqueue, Claim, LoopStep, Flushing
<1> QED
  BY <1>1, <1>2, <1>3, <1>4, <1>5 DEF IInv

LEMMA DequeueKeeps ==
  ASSUME IInv, Dequeue
  PROVE  IInv'
<1> USE CapacityAssumption, BoundAssumption, ProducersAssumption
    DEF queueVars, loopVars, genVars
<1>1. TypeOK'
  BY NoFrameIsNoFrame DEF IInv, TypeOK, SlotsAddUp, HasFrame, LoopHoldsFrame, Dequeue, LoopStep
<1>2. SlotsAddUp'
  BY DEF IInv, TypeOK, SlotsAddUp, Dequeue, LoopStep
<1>3. LockIsHeld' /\ HasFrame' /\ BelowCapacity'
  BY DEF IInv, TypeOK, SlotsAddUp, LockIsHeld, Inside, HasFrame, BelowCapacity, Dequeue, LoopStep
<1>4. LoopHoldsFrame'
  BY NoFrameIsNoFrame DEF IInv, TypeOK, SlotsAddUp, LoopHoldsFrame, Dequeue, LoopStep
<1>5. DisposedFirst' /\ CompleteAddingExcludesEnqueue'
  BY DEF IInv, TypeOK, LockIsHeld, Inside, DisposedFirst, CompleteAddingExcludesEnqueue, Dequeue, LoopStep
<1> QED
  BY <1>1, <1>2, <1>3, <1>4, <1>5 DEF IInv

LEMMA CallHandlerKeeps ==
  ASSUME IInv, CallHandler
  PROVE  IInv'
<1> USE CapacityAssumption, BoundAssumption, ProducersAssumption
    DEF queueVars, loopVars, genVars
<1>1. TypeOK'
  BY NoFrameIsNoFrame DEF IInv, TypeOK, SlotsAddUp, HasFrame, LoopHoldsFrame, CallHandler, LoopStep
<1>2. SlotsAddUp'
  BY DEF IInv, TypeOK, SlotsAddUp, CallHandler, LoopStep
<1>3. LockIsHeld' /\ HasFrame' /\ BelowCapacity'
  BY DEF IInv, TypeOK, SlotsAddUp, LockIsHeld, Inside, HasFrame, BelowCapacity, CallHandler, LoopStep
<1>4. LoopHoldsFrame'
  BY NoFrameIsNoFrame DEF IInv, TypeOK, SlotsAddUp, LoopHoldsFrame, CallHandler, LoopStep
<1>5. DisposedFirst' /\ CompleteAddingExcludesEnqueue'
  BY DEF IInv, TypeOK, LockIsHeld, Inside, DisposedFirst, CompleteAddingExcludesEnqueue, CallHandler, LoopStep
<1> QED
  BY <1>1, <1>2, <1>3, <1>4, <1>5 DEF IInv

LEMMA HandlerEndsKeeps ==
  ASSUME IInv, HandlerEnds
  PROVE  IInv'
<1> USE CapacityAssumption, BoundAssumption, ProducersAssumption
    DEF queueVars, loopVars, genVars
<1>1. TypeOK'
  <2>1. copiedFrame \in Frame
    BY DEF IInv, TypeOK, LoopHoldsFrame, HandlerEnds, LoopStep
  <2>2. copiedFrame.id \in 1 .. MaxFrames
    BY <2>1 DEF Frame
  <2>a. rented' \subseteq rented
    BY DEF HandlerEnds, AfterDispose
  <2>b. lastShown \in 0 .. MaxFrames /\ rented \subseteq 1 .. MaxFrames
    BY DEF IInv, TypeOK
  <2>c. lastShown' \in {lastShown, copiedFrame.id}
    BY DEF HandlerEnds
  <2>3. lastShown' \in 0 .. MaxFrames /\ rented' \subseteq 1 .. MaxFrames
    BY <2>2, <2>a, <2>b, <2>c
  <2>4. copiedFrame' \in Frame \union {NoFrame}
    BY DEF HandlerEnds
  <2> QED
    BY <2>3, <2>4 DEF IInv, TypeOK, HandlerEnds, LoopStep
<1>2. SlotsAddUp'
  BY DEF IInv, TypeOK, SlotsAddUp, HandlerEnds, LoopStep, AfterDispose, IsH264Frame
<1>3. LockIsHeld' /\ HasFrame' /\ BelowCapacity'
  BY DEF IInv, TypeOK, SlotsAddUp, LockIsHeld, Inside, HasFrame, BelowCapacity, HandlerEnds, LoopStep, AfterDispose, IsH264Frame
<1>4. LoopHoldsFrame'
  BY NoFrameIsNoFrame DEF IInv, TypeOK, SlotsAddUp, LoopHoldsFrame, HandlerEnds, LoopStep, AfterDispose, IsH264Frame
<1>5. DisposedFirst' /\ CompleteAddingExcludesEnqueue'
  BY DEF IInv, TypeOK, LockIsHeld, Inside, DisposedFirst, CompleteAddingExcludesEnqueue, HandlerEnds, LoopStep, AfterDispose, IsH264Frame
<1> QED
  BY <1>1, <1>2, <1>3, <1>4, <1>5 DEF IInv

LEMMA LoopEndsKeeps ==
  ASSUME IInv, LoopEnds
  PROVE  IInv'
<1> USE CapacityAssumption, BoundAssumption, ProducersAssumption
    DEF queueVars, loopVars, genVars
<1>1. TypeOK'
  BY NoFrameIsNoFrame DEF IInv, TypeOK, SlotsAddUp, HasFrame, LoopHoldsFrame, LoopEnds, LoopStep, IsCompleted
<1>2. SlotsAddUp'
  BY DEF IInv, TypeOK, SlotsAddUp, LoopEnds, LoopStep, IsCompleted
<1>3. LockIsHeld' /\ HasFrame' /\ BelowCapacity'
  BY DEF IInv, TypeOK, SlotsAddUp, LockIsHeld, Inside, HasFrame, BelowCapacity, LoopEnds, LoopStep, IsCompleted
<1>4. LoopHoldsFrame'
  BY NoFrameIsNoFrame DEF IInv, TypeOK, SlotsAddUp, LoopHoldsFrame, LoopEnds, LoopStep, IsCompleted
<1>5. DisposedFirst' /\ CompleteAddingExcludesEnqueue'
  BY DEF IInv, TypeOK, LockIsHeld, Inside, DisposedFirst, CompleteAddingExcludesEnqueue, LoopEnds, LoopStep, IsCompleted
<1> QED
  BY <1>1, <1>2, <1>3, <1>4, <1>5 DEF IInv

LEMMA CallTryEnqueueKeeps ==
  ASSUME IInv, NEW p \in Producers, CallTryEnqueue(p)
  PROVE  IInv'
<1> USE CapacityAssumption, BoundAssumption, ProducersAssumption
    DEF queueVars, loopVars, genVars
<1> DEFINE f(kind) == [id |-> generated + 1, kind |-> kind, prev |-> lastH264Frame]
<1>a. PICK kind \in KindsOf[p] :
        /\ frame' = [frame EXCEPT ![p] = f(kind)]
        /\ lastH264Frame' = IF IsH264Frame(f(kind)) THEN f(kind).id
                                                    ELSE lastH264Frame
  BY DEF CallTryEnqueue
<1>b. f(kind) \in Frame
  <2>1. generated + 1 \in 1 .. MaxFrames /\ lastH264Frame \in 0 .. MaxFrames
    BY DEF IInv, TypeOK, CallTryEnqueue
  <2>2. kind \in {"I", "P", "other"}
    BY KindsAssumption
  <2> QED
    BY <2>1, <2>2 DEF Frame
<1>1. TypeOK'
  <2>1. lastH264Frame' \in 0 .. generated'
    BY <1>a DEF IInv, TypeOK, CallTryEnqueue
  <2>2. frame' \in [Producers -> Frame \union {NoFrame}]
    BY <1>a, <1>b DEF IInv, TypeOK
  <2>3. generated' \in 0 .. MaxFrames
    BY DEF IInv, TypeOK, CallTryEnqueue
  <2>4. producerAt' \in [Producers -> {"idle", "locking", "deciding",
                                      "makingRoom", "draining", "adding"}]
    BY DEF IInv, TypeOK, CallTryEnqueue
  <2> QED
    BY <2>1, <2>2, <2>3, <2>4 DEF IInv, TypeOK, CallTryEnqueue
<1>2. SlotsAddUp'
  BY DEF IInv, TypeOK, SlotsAddUp, CallTryEnqueue, IsH264Frame, Frame
<1>3. LockIsHeld' /\ HasFrame' /\ BelowCapacity'
  <2>1. HasFrame'
    BY <1>a, <1>b DEF IInv, TypeOK, HasFrame, CallTryEnqueue
  <2> QED
    BY <2>1 DEF IInv, TypeOK, LockIsHeld, Inside, BelowCapacity, CallTryEnqueue
<1>4. LoopHoldsFrame'
  BY NoFrameIsNoFrame DEF IInv, TypeOK, SlotsAddUp, LoopHoldsFrame, CallTryEnqueue, IsH264Frame, Frame
<1>5. DisposedFirst' /\ CompleteAddingExcludesEnqueue'
  BY DEF IInv, TypeOK, LockIsHeld, Inside, DisposedFirst, CompleteAddingExcludesEnqueue, CallTryEnqueue, IsH264Frame, Frame
<1> QED
  BY <1>1, <1>2, <1>3, <1>4, <1>5 DEF IInv

LEMMA LockKeeps ==
  ASSUME IInv, NEW p \in Producers, Lock(p)
  PROVE  IInv'
<1> USE CapacityAssumption, BoundAssumption, ProducersAssumption
    DEF queueVars, loopVars, genVars
<1>1. TypeOK'
  BY NoFrameIsNoFrame DEF IInv, TypeOK, SlotsAddUp, HasFrame, LoopHoldsFrame, Lock, TurnsAway, Return
<1>2. SlotsAddUp'
  BY DEF IInv, TypeOK, SlotsAddUp, Lock, TurnsAway, Return
<1>3. LockIsHeld' /\ HasFrame' /\ BelowCapacity'
  BY DEF IInv, TypeOK, SlotsAddUp, LockIsHeld, Inside, HasFrame, BelowCapacity, Lock, TurnsAway, Return
<1>4. LoopHoldsFrame'
  BY NoFrameIsNoFrame DEF IInv, TypeOK, SlotsAddUp, LoopHoldsFrame, Lock, TurnsAway, Return
<1>5. DisposedFirst' /\ CompleteAddingExcludesEnqueue'
  BY DEF IInv, TypeOK, LockIsHeld, Inside, DisposedFirst, CompleteAddingExcludesEnqueue, Lock, TurnsAway, Return
<1> QED
  BY <1>1, <1>2, <1>3, <1>4, <1>5 DEF IInv

LEMMA DecideKeeps ==
  ASSUME IInv, NEW p \in Producers, Decide(p)
  PROVE  IInv'
<1> USE CapacityAssumption, BoundAssumption, ProducersAssumption
    DEF queueVars, loopVars, genVars
<1>1. TypeOK'
  BY NoFrameIsNoFrame DEF IInv, TypeOK, SlotsAddUp, HasFrame, LoopHoldsFrame, Decide, IsFull, Count, IsH264Frame, BeginFlush
<1>2. SlotsAddUp'
  BY DEF IInv, TypeOK, SlotsAddUp, Decide, IsFull, Count, IsH264Frame, BeginFlush
<1>3. LockIsHeld' /\ HasFrame' /\ BelowCapacity'
  BY DEF IInv, TypeOK, SlotsAddUp, LockIsHeld, Inside, HasFrame, BelowCapacity, Decide, IsFull, Count, IsH264Frame, BeginFlush
<1>4. LoopHoldsFrame'
  BY NoFrameIsNoFrame DEF IInv, TypeOK, SlotsAddUp, LoopHoldsFrame, Decide, IsFull, Count, IsH264Frame, BeginFlush
<1>5. DisposedFirst' /\ CompleteAddingExcludesEnqueue'
  BY DEF IInv, TypeOK, LockIsHeld, Inside, DisposedFirst, CompleteAddingExcludesEnqueue, Decide, IsFull, Count, IsH264Frame, BeginFlush
<1> QED
  BY <1>1, <1>2, <1>3, <1>4, <1>5 DEF IInv

LEMMA MakeRoomKeeps ==
  ASSUME IInv, NEW p \in Producers, MakeRoom(p)
  PROVE  IInv'
<1> USE CapacityAssumption, BoundAssumption, ProducersAssumption
    DEF queueVars, loopVars, genVars
<1>1. TypeOK'
  <2>1. queue # <<>>
    BY EmptySeq DEF IInv, TypeOK, SlotsAddUp, MakeRoom, TakeAndDispose, AfterDispose, BeginFlush
  <2>2. queue' \in Seq(Frame)
    BY <2>1, HeadTailProperties DEF IInv, TypeOK, MakeRoom, TakeAndDispose, AfterDispose, BeginFlush
  <2>3. rented' \subseteq 1 .. MaxFrames /\ overtaken' \in BOOLEAN
    BY DEF IInv, TypeOK, MakeRoom, TakeAndDispose, AfterDispose
  <2>4. /\ freeSlots' \in Nat /\ occupiedSlots' \in Nat
        /\ producerAt' \in [Producers -> {"idle", "locking", "deciding",
                                         "makingRoom", "draining", "adding"}]
    BY DEF IInv, TypeOK, MakeRoom, TakeAndDispose, BeginFlush
  <2>5. waitForH264IFrame' \in BOOLEAN
    <3>1. CASE IsH264Frame(Head(queue))
      BY <3>1 DEF MakeRoom, BeginFlush
    <3>2. CASE ~IsH264Frame(Head(queue))
      BY <3>2 DEF IInv, TypeOK, MakeRoom
    <3> QED
      BY <3>1, <3>2
  <2> QED
    BY <2>2, <2>3, <2>4, <2>5 DEF IInv, TypeOK, MakeRoom
<1>2. SlotsAddUp'
  BY DEF IInv, TypeOK, SlotsAddUp, MakeRoom, TakeAndDispose, AfterDispose, BeginFlush, IsH264Frame
<1>3. LockIsHeld' /\ HasFrame' /\ BelowCapacity'
  BY DEF IInv, TypeOK, SlotsAddUp, LockIsHeld, Inside, HasFrame, BelowCapacity, MakeRoom, TakeAndDispose, AfterDispose, BeginFlush, IsH264Frame
<1>4. LoopHoldsFrame'
  BY NoFrameIsNoFrame DEF IInv, TypeOK, SlotsAddUp, LoopHoldsFrame, MakeRoom, TakeAndDispose, AfterDispose, BeginFlush, IsH264Frame
<1>5. DisposedFirst' /\ CompleteAddingExcludesEnqueue'
  BY DEF IInv, TypeOK, LockIsHeld, Inside, DisposedFirst, CompleteAddingExcludesEnqueue, MakeRoom, TakeAndDispose, AfterDispose, BeginFlush, IsH264Frame
<1> QED
  BY <1>1, <1>2, <1>3, <1>4, <1>5 DEF IInv

LEMMA MakeRoomFailsKeeps ==
  ASSUME IInv, NEW p \in Producers, MakeRoomFails(p)
  PROVE  IInv'
<1> USE CapacityAssumption, BoundAssumption, ProducersAssumption
    DEF queueVars, loopVars, genVars
<1>1. TypeOK'
  BY NoFrameIsNoFrame DEF IInv, TypeOK, SlotsAddUp, HasFrame, LoopHoldsFrame, MakeRoomFails
<1>2. SlotsAddUp'
  BY DEF IInv, TypeOK, SlotsAddUp, MakeRoomFails
<1>3. LockIsHeld' /\ HasFrame' /\ BelowCapacity'
  BY DEF IInv, TypeOK, SlotsAddUp, LockIsHeld, Inside, HasFrame, BelowCapacity, MakeRoomFails
<1>4. LoopHoldsFrame'
  BY NoFrameIsNoFrame DEF IInv, TypeOK, SlotsAddUp, LoopHoldsFrame, MakeRoomFails
<1>5. DisposedFirst' /\ CompleteAddingExcludesEnqueue'
  BY DEF IInv, TypeOK, LockIsHeld, Inside, DisposedFirst, CompleteAddingExcludesEnqueue, MakeRoomFails
<1> QED
  BY <1>1, <1>2, <1>3, <1>4, <1>5 DEF IInv

LEMMA DrainKeeps ==
  ASSUME IInv, NEW p \in Producers, Drain(p)
  PROVE  IInv'
<1> USE CapacityAssumption, BoundAssumption, ProducersAssumption
    DEF queueVars, loopVars, genVars
<1>1. TypeOK'
  <2>1. queue # <<>>
    BY EmptySeq DEF IInv, TypeOK, SlotsAddUp, Drain, TakeAndDispose, AfterDispose
  <2>2. queue' \in Seq(Frame)
    BY <2>1, HeadTailProperties DEF IInv, TypeOK, Drain, TakeAndDispose, AfterDispose
  <2>3. rented' \subseteq 1 .. MaxFrames /\ overtaken' \in BOOLEAN
    BY DEF IInv, TypeOK, Drain, TakeAndDispose, AfterDispose
  <2> QED
    BY <2>2, <2>3 DEF IInv, TypeOK, Drain, TakeAndDispose, AfterDispose
<1>2. SlotsAddUp'
  BY DEF IInv, TypeOK, SlotsAddUp, Drain, TakeAndDispose, AfterDispose
<1>3. LockIsHeld' /\ HasFrame' /\ BelowCapacity'
  BY DEF IInv, TypeOK, SlotsAddUp, LockIsHeld, Inside, HasFrame, BelowCapacity, Drain, TakeAndDispose, AfterDispose
<1>4. LoopHoldsFrame'
  BY NoFrameIsNoFrame DEF IInv, TypeOK, SlotsAddUp, LoopHoldsFrame, Drain, TakeAndDispose, AfterDispose
<1>5. DisposedFirst' /\ CompleteAddingExcludesEnqueue'
  BY DEF IInv, TypeOK, LockIsHeld, Inside, DisposedFirst, CompleteAddingExcludesEnqueue, Drain, TakeAndDispose, AfterDispose
<1> QED
  BY <1>1, <1>2, <1>3, <1>4, <1>5 DEF IInv

LEMMA DrainEndsKeeps ==
  ASSUME IInv, NEW p \in Producers, DrainEnds(p)
  PROVE  IInv'
<1> USE CapacityAssumption, BoundAssumption, ProducersAssumption
    DEF queueVars, loopVars, genVars
<1>1. TypeOK'
  BY NoFrameIsNoFrame DEF IInv, TypeOK, SlotsAddUp, HasFrame, LoopHoldsFrame, DrainEnds, Return, IsH264IFrame
<1>2. SlotsAddUp'
  BY DEF IInv, TypeOK, SlotsAddUp, DrainEnds, Return, IsH264IFrame
<1>3. LockIsHeld' /\ HasFrame' /\ BelowCapacity'
  BY DEF IInv, TypeOK, SlotsAddUp, LockIsHeld, Inside, HasFrame, BelowCapacity, DrainEnds, Return, IsH264IFrame
<1>4. LoopHoldsFrame'
  BY NoFrameIsNoFrame DEF IInv, TypeOK, SlotsAddUp, LoopHoldsFrame, DrainEnds, Return, IsH264IFrame
<1>5. DisposedFirst' /\ CompleteAddingExcludesEnqueue'
  BY DEF IInv, TypeOK, LockIsHeld, Inside, DisposedFirst, CompleteAddingExcludesEnqueue, DrainEnds, Return, IsH264IFrame
<1> QED
  BY <1>1, <1>2, <1>3, <1>4, <1>5 DEF IInv

LEMMA TryEnqueueCopiedKeeps ==
  ASSUME IInv, NEW p \in Producers, TryEnqueueCopied(p)
  PROVE  IInv'
<1> USE CapacityAssumption, BoundAssumption, ProducersAssumption
    DEF queueVars, loopVars, genVars
<1>a. frame[p] \in Frame /\ frame[p].id \in 1 .. MaxFrames
  BY DEF IInv, HasFrame, Frame, TryEnqueueCopied
<1>b. ASSUME Added(p)
      PROVE  TypeOK' /\ SlotsAddUp'
  <2>1. /\ Append(queue, frame[p]) \in Seq(Frame)
        /\ Len(Append(queue, frame[p])) = Len(queue) + 1
    BY <1>a, AppendProperties DEF IInv, TypeOK
  <2>a. freeSlots' \in Nat /\ occupiedSlots' \in Nat
    BY <1>b DEF IInv, TypeOK, Added, SlotIsFree
  <2>b. queue' \in Seq(Frame) /\ rented' \subseteq 1 .. MaxFrames
    BY <1>a, <1>b, <2>1 DEF IInv, TypeOK, Added
  <2>c. waitForH264IFrame' \in BOOLEAN
    BY <1>b DEF IInv, TypeOK, Added, IsH264IFrame
  <2>2. TypeOK'
    BY <1>b, <2>a, <2>b, <2>c DEF IInv, TypeOK, TryEnqueueCopied, Added, Return
  <2>3. SlotsAddUp'
    BY <1>b, <2>1
       DEF IInv, TypeOK, SlotsAddUp, TryEnqueueCopied, Added, SlotIsFree
  <2> QED
    BY <2>2, <2>3
<1>c. ASSUME NotAdded(p)
      PROVE  TypeOK' /\ SlotsAddUp'
  <2>1. TypeOK'
    BY <1>a, <1>c DEF IInv, TypeOK, TryEnqueueCopied, NotAdded, Return
  <2>2. SlotsAddUp'
    BY <1>c DEF IInv, TypeOK, SlotsAddUp, TryEnqueueCopied, NotAdded
  <2> QED
    BY <2>1, <2>2
<1>1. TypeOK'
  BY <1>b, <1>c DEF TryEnqueueCopied
<1>2. SlotsAddUp'
  BY <1>b, <1>c DEF TryEnqueueCopied
<1>3. LockIsHeld' /\ HasFrame' /\ BelowCapacity'
  BY DEF IInv, TypeOK, SlotsAddUp, LockIsHeld, Inside, HasFrame, BelowCapacity, TryEnqueueCopied, Added, NotAdded, SlotIsFree, Return, IsH264Frame
<1>4. LoopHoldsFrame'
  BY NoFrameIsNoFrame DEF IInv, TypeOK, SlotsAddUp, LoopHoldsFrame, TryEnqueueCopied, Added, NotAdded, SlotIsFree, Return, IsH264Frame
<1>5. DisposedFirst' /\ CompleteAddingExcludesEnqueue'
  BY DEF IInv, TypeOK, LockIsHeld, Inside, DisposedFirst, CompleteAddingExcludesEnqueue, TryEnqueueCopied, Added, NotAdded, SlotIsFree, Return, IsH264Frame
<1> QED
  BY <1>1, <1>2, <1>3, <1>4, <1>5 DEF IInv

LEMMA CallDisposeKeeps ==
  ASSUME IInv, NEW c \in Threads, CallDispose(c)
  PROVE  IInv'
<1> USE CapacityAssumption, BoundAssumption, ProducersAssumption
    DEF queueVars, loopVars, genVars
<1>1. TypeOK'
  BY NoFrameIsNoFrame DEF IInv, TypeOK, SlotsAddUp, HasFrame, LoopHoldsFrame, CallDispose, IsFirstDispose
<1>2. SlotsAddUp'
  BY DEF IInv, TypeOK, SlotsAddUp, CallDispose, IsFirstDispose
<1>3. LockIsHeld' /\ HasFrame' /\ BelowCapacity'
  BY DEF IInv, TypeOK, SlotsAddUp, LockIsHeld, Inside, HasFrame, BelowCapacity, CallDispose, IsFirstDispose
<1>4. LoopHoldsFrame'
  BY NoFrameIsNoFrame DEF IInv, TypeOK, SlotsAddUp, LoopHoldsFrame, CallDispose, IsFirstDispose
<1>5. DisposedFirst' /\ CompleteAddingExcludesEnqueue'
  BY DEF IInv, TypeOK, LockIsHeld, Inside, DisposedFirst, CompleteAddingExcludesEnqueue, CallDispose, IsFirstDispose
<1> QED
  BY <1>1, <1>2, <1>3, <1>4, <1>5 DEF IInv

LEMMA CompleteAddingKeeps ==
  ASSUME IInv, NEW c \in Threads, CompleteAdding(c)
  PROVE  IInv'
<1> USE CapacityAssumption, BoundAssumption, ProducersAssumption
    DEF queueVars, loopVars, genVars
<1>1. TypeOK'
  BY NoFrameIsNoFrame DEF IInv, TypeOK, SlotsAddUp, HasFrame, LoopHoldsFrame, CompleteAdding
<1>2. SlotsAddUp'
  BY DEF IInv, TypeOK, SlotsAddUp, CompleteAdding
<1>3. LockIsHeld' /\ HasFrame' /\ BelowCapacity'
  BY DEF IInv, TypeOK, SlotsAddUp, LockIsHeld, Inside, HasFrame, BelowCapacity, CompleteAdding
<1>4. LoopHoldsFrame'
  BY NoFrameIsNoFrame DEF IInv, TypeOK, SlotsAddUp, LoopHoldsFrame, CompleteAdding
<1>5. DisposedFirst' /\ CompleteAddingExcludesEnqueue'
  BY DEF IInv, TypeOK, LockIsHeld, Inside, DisposedFirst, CompleteAddingExcludesEnqueue, CompleteAdding
<1> QED
  BY <1>1, <1>2, <1>3, <1>4, <1>5 DEF IInv

LEMMA JoinedKeeps ==
  ASSUME IInv, NEW c \in Threads, Joined(c)
  PROVE  IInv'
<1> USE CapacityAssumption, BoundAssumption, ProducersAssumption
    DEF queueVars, loopVars, genVars
<1>1. TypeOK'
  BY NoFrameIsNoFrame DEF IInv, TypeOK, SlotsAddUp, HasFrame, LoopHoldsFrame, Joined
<1>2. SlotsAddUp'
  BY DEF IInv, TypeOK, SlotsAddUp, Joined
<1>3. LockIsHeld' /\ HasFrame' /\ BelowCapacity'
  BY DEF IInv, TypeOK, SlotsAddUp, LockIsHeld, Inside, HasFrame, BelowCapacity, Joined
<1>4. LoopHoldsFrame'
  BY NoFrameIsNoFrame DEF IInv, TypeOK, SlotsAddUp, LoopHoldsFrame, Joined
<1>5. DisposedFirst' /\ CompleteAddingExcludesEnqueue'
  BY DEF IInv, TypeOK, LockIsHeld, Inside, DisposedFirst, CompleteAddingExcludesEnqueue, Joined
<1> QED
  BY <1>1, <1>2, <1>3, <1>4, <1>5 DEF IInv

LEMMA StutterKeeps ==
  ASSUME IInv, UNCHANGED vars
  PROVE  IInv'
BY DEF IInv, TypeOK, SlotsAddUp, LockIsHeld, HasFrame, BelowCapacity,
       LoopHoldsFrame, DisposedFirst, CompleteAddingExcludesEnqueue, vars,
       queueVars, loopVars, genVars

LEMMA Inductive == IInv /\ [Next]_vars => IInv'
<1> SUFFICES ASSUME IInv, [Next]_vars PROVE IInv'
  OBVIOUS
<1>1. ASSUME NEW p \in Producers, CallTryEnqueue(p) \/ InTryEnqueue(p)
      PROVE  IInv'
  BY <1>1, CallTryEnqueueKeeps, LockKeeps, DecideKeeps, MakeRoomKeeps,
     MakeRoomFailsKeeps, DrainKeeps, DrainEndsKeeps, TryEnqueueCopiedKeeps
     DEF InTryEnqueue
<1>2. ASSUME NEW c \in Threads, CallDispose(c) \/ InDispose(c)
      PROVE  IInv'
  BY <1>2, CallDisposeKeeps, CompleteAddingKeeps, JoinedKeeps DEF InDispose
<1>3. CASE DispatchLoop
  BY <1>3, LoopStartsKeeps, ClaimKeeps, DequeueKeeps, CallHandlerKeeps,
     HandlerEndsKeeps, LoopEndsKeeps DEF DispatchLoop
<1>4. CASE UNCHANGED vars
  BY <1>4, StutterKeeps
<1> QED
  BY <1>1, <1>2, <1>3, <1>4 DEF Next

LEMMA Invariance == Spec => []IInv
BY Initially, Inductive, PTL DEF Spec

(***************************************************************************)
(* Invariants                                                              *)
(***************************************************************************)
\* Every variable keeps its type.
THEOREM TypeCorrect == Spec => []TypeOK
<1>1. IInv => TypeOK
  BY DEF IInv
<1> QED
  BY <1>1, Invariance, PTL

\* TryAdd refuses a frame TryEnqueue decided to take only while the dispatch
\* thread has taken a frame and not yet given its slot back
\* (RawFrameDispatcher.cs:151); after a flush a frame always finds room.
THEOREM RefusalsNeedTheWindow == Spec => []RefusedOnlyInTheWindow
<1>1. IInv => RefusedOnlyInTheWindow
  BY CapacityAssumption
     DEF IInv, TypeOK, SlotsAddUp, BelowCapacity, RefusedOnlyInTheWindow
<1> QED
  BY <1>1, Invariance, PTL

\* CompleteAdding never runs between lock and unlock of TryEnqueue
\* (RawFrameDispatcher.cs:85, :159).
THEOREM EnqueueIsExcluded == Spec => []CompleteAddingExcludesEnqueue
<1>1. IInv => CompleteAddingExcludesEnqueue
  BY DEF IInv
<1> QED
  BY <1>1, Invariance, PTL

\* Both together (RawFrameDispatcher.cs:145-166): TryAdd is called before
\* CompleteAdding or not at all, and finds a slot outside the window.
THEOREM TryAddAlwaysSafe == Spec => []TryAddIsSafe
<1>1. RefusedOnlyInTheWindow /\ CompleteAddingExcludesEnqueue => TryAddIsSafe
  BY DEF TryAddIsSafe
<1> QED
  BY <1>1, RefusalsNeedTheWindow, EnqueueIsExcluded, PTL

(***************************************************************************)
(* Refinement: every step of the dispatcher is a step of a FrameChannel.   *)
(***************************************************************************)
LEMMA ChannelInit == Init => Channel!Init
BY ProducersAssumption DEF Init, Channel!Init, Flushing

\* One thread at a time is between lock and unlock, so the flush is its own.
LEMMA FlushIsOwn ==
  ASSUME IInv, NEW p \in Producers, producerAt[p] \in Inside
  PROVE  Flushing <=> producerAt[p] \in {"makingRoom", "draining"}
BY DEF IInv, LockIsHeld, Inside, Flushing

LEMMA NoFlushUnlocked ==
  ASSUME IInv, enqueueLock = None
  PROVE  ~Flushing
BY ProducersAssumption DEF IInv, LockIsHeld, Inside, Flushing

LEMMA ProducerStep ==
  ASSUME IInv, IInv', NEW p \in Producers, CallTryEnqueue(p) \/ InTryEnqueue(p)
  PROVE  [Channel!Next]_(Channel!channelVars)
<1> USE DEF queueVars, loopVars, genVars, Channel!channelVars
<1>1. CASE CallTryEnqueue(p)
  BY <1>1 DEF CallTryEnqueue, Flushing, IInv, TypeOK
<1>2. CASE Lock(p)
  BY <1>2, NoFlushUnlocked DEF Lock, Return, Flushing, IInv, TypeOK
<1>3. CASE Decide(p)
  <2>1. ~Flushing /\ producerAt[p] = "deciding" /\ ~addingCompleted
    BY <1>3, FlushIsOwn DEF Decide, Inside, IInv, CompleteAddingExcludesEnqueue
  <2>2. CASE ~IsFull
    BY <1>3, <2>1, <2>2 DEF Decide, BeginFlush, Flushing, IInv, TypeOK
  <2>3. CASE IsFull
    <3>1. Len(queue) = MaxQueuedFrames
      BY <2>3, CapacityAssumption DEF IsFull, Count, IInv, TypeOK, SlotsAddUp
    <3>2. Flushing'
      BY <1>3, <2>3 DEF Decide, BeginFlush, Flushing, IInv, TypeOK
    <3> QED
      BY <1>3, <2>1, <3>1, <3>2
         DEF Decide, Channel!Next, Channel!Overflow
  <2> QED
    BY <2>2, <2>3
<1>4. CASE MakeRoom(p) \/ Drain(p)
  <2>1. Flushing
    BY <1>4 DEF MakeRoom, Drain, Flushing
  <2>2. queue # <<>>
    BY <1>4, EmptySeq
       DEF IInv, TypeOK, SlotsAddUp, MakeRoom, Drain, TakeAndDispose
  <2> QED
    BY <1>4, <2>1, <2>2
       DEF MakeRoom, Drain, TakeAndDispose, Flushing, Channel!Next,
           Channel!Discard
<1>5. CASE MakeRoomFails(p) \/ DrainEnds(p)
  <2>1. Flushing
    BY <1>5 DEF MakeRoomFails, DrainEnds, Flushing
  <2>2. Flushing' = FALSE
    BY <1>5
       DEF MakeRoomFails, DrainEnds, Return, IInv, TypeOK, LockIsHeld, Inside,
           Flushing
  <2>3. UNCHANGED <<queue, copiedFrame, addingCompleted, loopAt>>
    BY <1>5 DEF MakeRoomFails, DrainEnds
  <2> QED
    BY <2>1, <2>2, <2>3 DEF Channel!Next, Channel!FlushEnds
<1>6. CASE TryEnqueueCopied(p)
  <2>1. ~Flushing /\ ~addingCompleted /\ frame[p] \in Frame
    BY <1>6, FlushIsOwn
       DEF TryEnqueueCopied, Inside, IInv, HasFrame,
           CompleteAddingExcludesEnqueue
  <2>2. ~Flushing'
    BY <1>6, <2>1 DEF TryEnqueueCopied, Return, Flushing, IInv, TypeOK
  <2>a. UNCHANGED Flushing
    BY <2>1, <2>2 DEF Flushing
  <2>3. CASE Added(p)
    <3>1. Len(queue) < MaxQueuedFrames
      BY <2>3 DEF Added, SlotIsFree, IInv, TypeOK, SlotsAddUp
    <3>2. \E f \in Frame : queue' = Append(queue, f)
      BY <2>1, <2>3 DEF Added
    <3>3. UNCHANGED <<copiedFrame, addingCompleted, loopAt>>
      BY <1>6 DEF TryEnqueueCopied
    <3>4. Channel!Accept
      BY <2>1, <2>a, <3>1, <3>2, <3>3 DEF Channel!Accept
    <3> QED
      BY <3>4 DEF Channel!Next
  <2>4. CASE NotAdded(p)
    <3>1. UNCHANGED <<queue, copiedFrame, addingCompleted, loopAt>>
      BY <1>6, <2>4 DEF TryEnqueueCopied, NotAdded
    <3> QED
      BY <2>a, <3>1
  <2> QED
    BY <1>6, <2>3, <2>4 DEF TryEnqueueCopied
<1> QED
  BY <1>1, <1>2, <1>3, <1>4, <1>5, <1>6 DEF InTryEnqueue

LEMMA CloserStep ==
  ASSUME IInv, NEW c \in Threads, CallDispose(c) \/ InDispose(c)
  PROVE  [Channel!Next]_(Channel!channelVars)
<1> USE DEF queueVars, loopVars, genVars, Channel!channelVars
<1>1. CASE CallDispose(c)
  BY <1>1 DEF CallDispose, Flushing
<1>2. CASE CompleteAdding(c)
  <2>1. ~Flushing
    BY <1>2, NoFlushUnlocked DEF CompleteAdding
  <2> QED
    BY <1>2, <2>1
       DEF CompleteAdding, Flushing, Channel!Next, Channel!Close, IInv, TypeOK
<1>3. CASE Joined(c)
  BY <1>3 DEF Joined, Flushing
<1> QED
  BY <1>1, <1>2, <1>3 DEF InDispose

LEMMA LoopThreadStep ==
  ASSUME IInv, DispatchLoop
  PROVE  [Channel!Next]_(Channel!channelVars)
<1> USE DEF queueVars, loopVars, genVars, Channel!channelVars, LoopStep, Flushing
<1>1. CASE LoopStarts \/ Claim \/ CallHandler
  BY <1>1 DEF LoopStarts, Claim, CallHandler
<1>2. CASE Dequeue
  <2>1. queue # <<>> /\ copiedFrame = NoFrame
    BY <1>2, EmptySeq
       DEF Dequeue, IInv, TypeOK, SlotsAddUp, LoopHoldsFrame
  <2> QED
    BY <1>2, <2>1 DEF Dequeue, Channel!Next, Channel!HandOver
<1>3. CASE HandlerEnds
  BY <1>3 DEF HandlerEnds, IInv, LoopHoldsFrame, Channel!Next, Channel!Handled
<1>4. CASE LoopEnds
  <2>1. queue = <<>> /\ copiedFrame = NoFrame
    BY <1>4, EmptySeq
       DEF LoopEnds, IsCompleted, IInv, TypeOK, SlotsAddUp, LoopHoldsFrame
  <2> QED
    BY <1>4, <2>1 DEF LoopEnds, IsCompleted, Channel!Next, Channel!End
<1> QED
  BY <1>1, <1>2, <1>3, <1>4 DEF DispatchLoop

\* RawFrameDispatcher implements FrameChannel: a bounded first-in first-out
\* channel that discards only from a full queue, takes nothing after it is
\* closed and ends with nothing in it.
THEOREM ImplementsAFrameChannel == Spec => IsAFrameChannel
<1>1. IInv /\ IInv' /\ [Next]_vars => [Channel!Next]_(Channel!channelVars)
  <2> SUFFICES ASSUME IInv, IInv', [Next]_vars
               PROVE  [Channel!Next]_(Channel!channelVars)
    OBVIOUS
  <2>1. CASE UNCHANGED vars
    BY <2>1
       DEF vars, queueVars, loopVars, genVars, Channel!channelVars, Flushing
  <2> QED
    BY <2>1, ProducerStep, CloserStep, LoopThreadStep DEF Next
<1> QED
  BY <1>1, ChannelInit, Invariance, PTL DEF Spec, IsAFrameChannel, Channel!Spec
(***************************************************************************)
(* Buffers.  A buffer is returned for the frame it was taken for only if   *)
(* no two frames on their way share an id: NoBufferLost needs NoTwins,     *)
(* and NoTwins that ids are given in the order of generation.              *)
(***************************************************************************)
Positions == 1 .. Len(queue)

Busy(p) == producerAt[p] # "idle"

Numbered ==
  /\ \A i \in Positions : queue[i].id <= generated
  /\ copiedFrame.id <= generated
  /\ \A p \in Producers : Busy(p) => frame[p].id <= generated

NoTwins ==
  /\ \A i, j \in Positions : queue[i].id = queue[j].id => i = j
  /\ \A i \in Positions : queue[i].id # copiedFrame.id
  /\ \A p \in Producers :
       Busy(p) =>
         /\ frame[p].id # copiedFrame.id
         /\ \A i \in Positions : frame[p].id # queue[i].id
         /\ \A q \in Producers :
              Busy(q) /\ frame[p].id = frame[q].id => p = q

\* NoBufferLost, a buffer at a time.
BufferOfEach ==
  \A id \in 1 .. MaxFrames :
    id \in rented <=>
      \/ \E i \in Positions : queue[i].id = id
      \/ copiedFrame.id = id

BufferInv == Numbered /\ NoTwins /\ BufferOfEach

LEMMA TailOfQueue ==
  ASSUME NEW q \in Seq(Frame), Len(q) > 0
  PROVE  /\ Head(q) = q[1] /\ q[1] \in Frame
         /\ Tail(q) \in Seq(Frame)
         /\ Len(Tail(q)) = Len(q) - 1
         /\ \A i \in 1 .. Len(Tail(q)) : Tail(q)[i] = q[i + 1]
<1>1. q # <<>>
  BY EmptySeq
<1> QED
  BY <1>1, HeadTailProperties

LEMMA AppendToQueue ==
  ASSUME NEW q \in Seq(Frame), NEW f \in Frame
  PROVE  /\ Append(q, f) \in Seq(Frame)
         /\ Len(Append(q, f)) = Len(q) + 1
         /\ \A i \in 1 .. Len(q) : Append(q, f)[i] = q[i]
         /\ Append(q, f)[Len(q) + 1] = f
BY AppendProperties

LEMMA FrameIds ==
  ASSUME NEW f \in Frame
  PROVE  f.id \in Nat /\ f.id > 0 /\ f.id \in 1 .. MaxFrames /\ f.prev \in Nat
BY BoundAssumption DEF Frame

LEMMA QueuedFrames ==
  ASSUME IInv
  PROVE  /\ Len(queue) \in Nat
         /\ \A i \in Positions : queue[i] \in Frame
         /\ copiedFrame.id \in Nat /\ copiedFrame.prev \in Nat
         /\ \A p \in Producers : Busy(p) => frame[p] \in Frame
<1>1. /\ Len(queue) \in Nat
      /\ \A i \in Positions : queue[i] \in Frame
  BY DEF IInv, TypeOK, Positions
<1>2. copiedFrame.id \in Nat /\ copiedFrame.prev \in Nat
  BY FrameIds DEF IInv, TypeOK, NoFrame
<1> QED
  BY <1>1, <1>2 DEF IInv, HasFrame, Busy

LEMMA BuffersFirst == Init => BufferInv
BY BoundAssumption
   DEF Init, BufferInv, Numbered, NoTwins, BufferOfEach, Positions, Busy,
       NoFrame

\* Steps that move no frame.
LEMMA QuietBuffers ==
  ASSUME BufferInv,
         UNCHANGED <<queue, copiedFrame, generated, rented, frame>>,
         \A p \in Producers : Busy(p)' => Busy(p)
  PROVE  BufferInv'
BY DEF BufferInv, Numbered, NoTwins, BufferOfEach, Positions

LEMMA CallTryEnqueueKeepsBuffers ==
  ASSUME IInv, BufferInv, NEW p \in Producers, CallTryEnqueue(p)
  PROVE  BufferInv'
<1> USE DEF queueVars, loopVars
<1>1. /\ UNCHANGED <<queue, copiedFrame, rented>>
      /\ generated' = generated + 1 /\ generated \in Nat
      /\ frame'[p].id = generated + 1
      /\ \A q \in Producers \ {p} :
           frame'[q] = frame[q] /\ producerAt'[q] = producerAt[q]
  BY DEF CallTryEnqueue, IInv, TypeOK
<1>2. /\ \A i \in Positions : queue[i].id \in Nat
      /\ copiedFrame.id \in Nat
      /\ \A q \in Producers : Busy(q) => frame[q].id \in Nat
  BY QueuedFrames, FrameIds
<1>3. Numbered'
  BY <1>1, <1>2 DEF BufferInv, Numbered, Positions, Busy
<1>4. NoTwins'
  BY <1>1, <1>2 DEF BufferInv, Numbered, NoTwins, Positions, Busy
<1>5. BufferOfEach'
  BY <1>1 DEF BufferInv, BufferOfEach, Positions
<1> QED
  BY <1>3, <1>4, <1>5 DEF BufferInv

LEMMA TakeAndDisposeKeepsBuffers ==
  ASSUME IInv, BufferInv, TakeAndDispose,
         UNCHANGED <<copiedFrame, generated, frame>>,
         \A p \in Producers : Busy(p)' => Busy(p)
  PROVE  BufferInv'
<1>1. Len(queue) > 0
  BY DEF IInv, TypeOK, SlotsAddUp, TakeAndDispose
<1>2. /\ queue' = Tail(queue) /\ rented' = rented \ {queue[1].id}
      /\ Len(queue') = Len(queue) - 1
      /\ \A i \in 1 .. Len(queue') : queue'[i] = queue[i + 1]
  BY <1>1, TailOfQueue DEF IInv, TypeOK, TakeAndDispose, AfterDispose
<1>3. Len(queue) \in Nat
  BY QueuedFrames
<1>4. \A i \in Positions' : i + 1 \in Positions /\ queue'[i] = queue[i + 1]
  BY <1>1, <1>2, <1>3 DEF Positions
<1>5. Numbered'
  BY <1>4 DEF BufferInv, Numbered
<1>6. NoTwins'
  <2>1. \A i, j \in Positions' : queue'[i].id = queue'[j].id => i = j
    <3> SUFFICES ASSUME NEW i \in Positions', NEW j \in Positions',
                        queue'[i].id = queue'[j].id
                 PROVE  i = j
      OBVIOUS
    <3>1. i + 1 = j + 1
      BY <1>4 DEF BufferInv, NoTwins
    <3> QED
      BY <3>1 DEF Positions
  <2> QED
    BY <1>4, <2>1 DEF BufferInv, NoTwins
<1>7. BufferOfEach'
  <2> SUFFICES ASSUME NEW id \in 1 .. MaxFrames
               PROVE  id \in rented' <=>
                        \/ \E i \in Positions' : queue'[i].id = id
                        \/ copiedFrame'.id = id
    BY DEF BufferOfEach
  <2>1. 1 \in Positions
    BY <1>1, <1>3 DEF Positions
  <2>2. ASSUME id = queue[1].id
        PROVE  ~(\E i \in Positions' : queue'[i].id = id) /\ copiedFrame'.id # id
    <3>1. copiedFrame'.id # id
      BY <2>1, <2>2 DEF BufferInv, NoTwins
    <3>2. ASSUME NEW i \in Positions', queue'[i].id = id PROVE FALSE
      <4>1. i + 1 = 1
        BY <1>4, <2>1, <2>2, <3>2 DEF BufferInv, NoTwins
      <4> QED
        BY <4>1 DEF Positions
    <3> QED
      BY <3>1, <3>2
  <2>3. ASSUME id # queue[1].id, NEW i \in Positions, queue[i].id = id
        PROVE  \E k \in Positions' : queue'[k].id = id
    <3>1. i - 1 \in Positions' /\ i = (i - 1) + 1
      BY <1>2, <1>3, <2>3 DEF Positions
    <3> QED
      BY <1>4, <2>3, <3>1
  <2>4. id \in rented <=> \/ \E i \in Positions : queue[i].id = id
                          \/ copiedFrame.id = id
    BY DEF BufferInv, BufferOfEach
  <2> QED
    BY <1>2, <1>4, <2>2, <2>3, <2>4
<1> QED
  BY <1>5, <1>6, <1>7 DEF BufferInv

LEMMA TryEnqueueCopiedKeepsBuffers ==
  ASSUME IInv, BufferInv, NEW p \in Producers, TryEnqueueCopied(p)
  PROVE  BufferInv'
<1> USE DEF queueVars, loopVars, genVars
<1>1. /\ frame[p] \in Frame /\ Busy(p) /\ producerAt'[p] = "idle"
      /\ UNCHANGED <<copiedFrame, generated, frame>>
      /\ \A q \in Producers : Busy(q)' => Busy(q) /\ q # p
  BY QueuedFrames DEF TryEnqueueCopied, Return, Busy, IInv, TypeOK
<1>2. CASE NotAdded(p)
  <2>1. UNCHANGED <<queue, copiedFrame, generated, rented, frame>>
    BY <1>1, <1>2 DEF NotAdded
  <2> QED
    BY <1>1, <2>1, QuietBuffers
<1>3. CASE Added(p)
  <2>1. /\ Len(queue') = Len(queue) + 1
        /\ \A i \in Positions : queue'[i] = queue[i]
        /\ queue'[Len(queue) + 1] = frame[p]
        /\ rented' = rented \union {frame[p].id}
    BY <1>1, <1>3, AppendToQueue DEF Added, IInv, TypeOK, Positions
  <2>2. /\ Positions' = Positions \union {Len(queue) + 1}
        /\ Len(queue) + 1 \notin Positions
    BY <2>1, QueuedFrames DEF Positions
  <2>3. Numbered'
    BY <1>1, <2>1, <2>2 DEF BufferInv, Numbered
  <2>4. NoTwins'
    <3>1. \A i, j \in Positions' : queue'[i].id = queue'[j].id => i = j
      BY <1>1, <2>1, <2>2 DEF BufferInv, NoTwins
    <3>2. \A i \in Positions' : queue'[i].id # copiedFrame'.id
      BY <1>1, <2>1, <2>2 DEF BufferInv, NoTwins
    <3>3. ASSUME NEW q \in Producers, Busy(q)'
          PROVE  /\ frame'[q].id # copiedFrame'.id
                 /\ \A i \in Positions' : frame'[q].id # queue'[i].id
                 /\ \A r \in Producers :
                      Busy(r)' /\ frame'[q].id = frame'[r].id => q = r
      BY <1>1, <2>1, <2>2, <3>3 DEF BufferInv, NoTwins
    <3> QED
      BY <3>1, <3>2, <3>3 DEF NoTwins
  <2>5. BufferOfEach'
    BY <1>1, <2>1, <2>2 DEF BufferInv, BufferOfEach
  <2> QED
    BY <2>3, <2>4, <2>5 DEF BufferInv
<1> QED
  BY <1>2, <1>3 DEF TryEnqueueCopied

LEMMA DequeueKeepsBuffers ==
  ASSUME IInv, BufferInv, Dequeue
  PROVE  BufferInv'
<1> USE DEF queueVars, loopVars, genVars
<1>1. Len(queue) > 0 /\ copiedFrame = NoFrame
  BY DEF IInv, TypeOK, SlotsAddUp, LoopHoldsFrame, Dequeue, LoopStep
<1>2. /\ copiedFrame' = queue[1] /\ Len(queue') = Len(queue) - 1
      /\ \A i \in 1 .. Len(queue') : queue'[i] = queue[i + 1]
      /\ UNCHANGED <<producerAt, frame, generated, rented>>
  BY <1>1, TailOfQueue DEF IInv, TypeOK, Dequeue, LoopStep
<1>3. Len(queue) \in Nat
  BY QueuedFrames
<1>4. /\ \A i \in Positions' : i + 1 \in Positions /\ queue'[i] = queue[i + 1]
      /\ 1 \in Positions
  BY <1>1, <1>2, <1>3 DEF Positions
<1>5. Numbered'
  BY <1>2, <1>4 DEF BufferInv, Numbered, Busy
<1>6. NoTwins'
  <2>1. ASSUME NEW i \in Positions', NEW j \in Positions',
               queue'[i].id = queue'[j].id
        PROVE  i = j
    <3>1. i + 1 = j + 1
      BY <1>4, <2>1 DEF BufferInv, NoTwins
    <3> QED
      BY <3>1 DEF Positions
  <2>2. ASSUME NEW i \in Positions' PROVE queue'[i].id # copiedFrame'.id
    <3>1. i + 1 # 1
      BY DEF Positions
    <3> QED
      BY <1>2, <1>4, <3>1 DEF BufferInv, NoTwins
  <2>3. ASSUME NEW p \in Producers, Busy(p)'
        PROVE  /\ frame'[p].id # copiedFrame'.id
               /\ \A i \in Positions' : frame'[p].id # queue'[i].id
               /\ \A q \in Producers :
                    Busy(q)' /\ frame'[p].id = frame'[q].id => p = q
    BY <1>2, <1>4, <2>3 DEF BufferInv, NoTwins, Busy
  <2> QED
    BY <2>1, <2>2, <2>3 DEF NoTwins
<1>7. BufferOfEach'
  <2> SUFFICES ASSUME NEW id \in 1 .. MaxFrames
               PROVE  id \in rented' <=>
                        \/ \E i \in Positions' : queue'[i].id = id
                        \/ copiedFrame'.id = id
    BY DEF BufferOfEach
  <2>1. ASSUME NEW i \in Positions, queue[i].id = id, id # queue[1].id
        PROVE  \E k \in Positions' : queue'[k].id = id
    <3>1. i - 1 \in Positions' /\ i = (i - 1) + 1
      BY <1>2, <1>3, <2>1 DEF Positions
    <3> QED
      BY <1>4, <2>1, <3>1
  <2>2. id \in rented <=> \E i \in Positions : queue[i].id = id
    BY <1>1 DEF BufferInv, BufferOfEach, NoFrame
  <2> QED
    BY <1>2, <1>4, <2>1, <2>2
<1> QED
  BY <1>5, <1>6, <1>7 DEF BufferInv

LEMMA HandlerEndsKeepsBuffers ==
  ASSUME IInv, BufferInv, HandlerEnds
  PROVE  BufferInv'
<1> USE DEF queueVars, loopVars, genVars
<1>1. /\ UNCHANGED <<queue, producerAt, frame, generated>>
      /\ copiedFrame' = NoFrame /\ NoFrame.id = 0
      /\ rented' = rented \ {copiedFrame.id} /\ generated \in Nat
  BY DEF HandlerEnds, LoopStep, AfterDispose, NoFrame, IInv, TypeOK
<1>2. /\ \A i \in Positions : queue[i].id > 0
      /\ \A p \in Producers : Busy(p) => frame[p].id > 0
  BY QueuedFrames, FrameIds
<1>3. Numbered'
  BY <1>1 DEF BufferInv, Numbered, Positions, Busy
<1>4. NoTwins'
  BY <1>1, <1>2 DEF BufferInv, NoTwins, Positions, Busy
<1>5. BufferOfEach'
  BY <1>1 DEF BufferInv, NoTwins, BufferOfEach, Positions
<1> QED
  BY <1>3, <1>4, <1>5 DEF BufferInv

LEMMA BuffersInductive == IInv /\ BufferInv /\ [Next]_vars => BufferInv'
<1> SUFFICES ASSUME IInv, BufferInv, [Next]_vars PROVE BufferInv'
  OBVIOUS
<1> USE DEF queueVars, loopVars, genVars
<1>1. ASSUME NEW p \in Producers, Lock(p) \/ Decide(p) \/ MakeRoomFails(p)
                                  \/ DrainEnds(p)
      PROVE  BufferInv'
  <2>1. /\ UNCHANGED <<queue, copiedFrame, generated, rented, frame>>
        /\ \A q \in Producers : Busy(q)' => Busy(q)
    BY <1>1
       DEF Lock, Decide, BeginFlush, MakeRoomFails, DrainEnds, Return, Busy,
           IInv, TypeOK
  <2> QED
    BY <2>1, QuietBuffers
<1>2. ASSUME NEW p \in Producers, MakeRoom(p) \/ Drain(p)
      PROVE  BufferInv'
  <2>1. /\ TakeAndDispose
        /\ UNCHANGED <<copiedFrame, generated, frame>>
        /\ \A q \in Producers : Busy(q)' => Busy(q)
    BY <1>2 DEF MakeRoom, Drain, BeginFlush, Busy, IInv, TypeOK
  <2> QED
    BY <2>1, TakeAndDisposeKeepsBuffers
<1>3. ASSUME NEW p \in Producers, CallTryEnqueue(p) \/ InTryEnqueue(p)
      PROVE  BufferInv'
  BY <1>1, <1>2, <1>3, CallTryEnqueueKeepsBuffers,
     TryEnqueueCopiedKeepsBuffers DEF InTryEnqueue
<1>4. ASSUME NEW c \in Threads, CallDispose(c) \/ InDispose(c)
      PROVE  BufferInv'
  <2>1. UNCHANGED <<queue, copiedFrame, generated, rented, frame, producerAt>>
    BY <1>4 DEF CallDispose, InDispose, CompleteAdding, Joined
  <2> QED
    BY <2>1, QuietBuffers DEF Busy
<1>5. CASE DispatchLoop
  <2>1. CASE LoopStarts \/ Claim \/ CallHandler \/ LoopEnds
    <3>1. UNCHANGED <<queue, copiedFrame, generated, rented, frame, producerAt>>
      BY <2>1 DEF LoopStarts, Claim, CallHandler, LoopEnds, LoopStep
    <3> QED
      BY <3>1, QuietBuffers DEF Busy
  <2> QED
    BY <1>5, <2>1, DequeueKeepsBuffers, HandlerEndsKeepsBuffers
       DEF DispatchLoop
<1>6. CASE UNCHANGED vars
  BY <1>6, QuietBuffers DEF vars, Busy
<1> QED
  BY <1>3, <1>4, <1>5, <1>6 DEF Next

LEMMA BuffersInvariant == Spec => []BufferInv
BY BuffersFirst, BuffersInductive, Invariance, PTL DEF Spec

\* A pooled buffer is in use exactly while the frame it was taken for waits
\* in the queue or is in the handler's hands, whatever the flushes, refusals,
\* throwing handlers and Dispose (RawFrameDispatcher.cs:79, :134, :142, :164).
THEOREM BuffersAreReturned == Spec => []NoBufferLost
<1>1. IInv /\ BufferInv => NoBufferLost
  <2> SUFFICES ASSUME IInv, BufferInv PROVE NoBufferLost
    OBVIOUS
  <2>1. /\ rented \subseteq 1 .. MaxFrames
        /\ \A i \in 1 .. Len(queue) : queue[i].id \in 1 .. MaxFrames
        /\ copiedFrame # NoFrame => copiedFrame.id \in 1 .. MaxFrames
    BY QueuedFrames, FrameIds DEF IInv, TypeOK, Positions
  <2>2. copiedFrame = NoFrame => copiedFrame.id \notin 1 .. MaxFrames
    BY DEF NoFrame
  <2>3. rented = {id \in 1 .. MaxFrames :
                    \/ \E i \in 1 .. Len(queue) : queue[i].id = id
                    \/ copiedFrame.id = id}
    BY <2>1 DEF BufferInv, BufferOfEach, Positions
  <2> QED
    BY <2>1, <2>2, <2>3 DEF NoBufferLost
<1> QED
  BY <1>1, Invariance, BuffersInvariant, PTL

(***************************************************************************)
(* Waiting for an I-frame.  No frame of the broken chain is added, because *)
(* the lock is held from the test of waitForH264IFrame to the add.         *)
(***************************************************************************)
Draining == \E p \in Producers : producerAt[p] = "draining"

MakesRoomForOther ==
  \A p \in Producers :
    producerAt[p] = "makingRoom" => ~IsH264Frame(frame[p])

PTurnedAway ==
  \A p \in Producers :
    producerAt[p] \in {"deciding", "adding"} /\ frame[p].kind = "P" =>
      ~waitForH264IFrame

DrainWaits == Draining => waitForH264IFrame

\* WaitingMeansFlushed, while room is made for another frame too.
NoPWhileWaiting ==
  waitForH264IFrame /\ ~Draining =>
    \A i \in Positions : queue[i].kind = "P" => i = 1 /\ loopAt = "claimed"

WaitInv == MakesRoomForOther /\ PTurnedAway /\ DrainWaits /\ NoPWhileWaiting

LEMMA OneInside ==
  ASSUME IInv, NEW p \in Producers, producerAt[p] \in Inside
  PROVE  /\ \A q \in Producers : producerAt[q] \in Inside => q = p
         /\ Draining <=> producerAt[p] = "draining"
BY DEF IInv, LockIsHeld, Inside, Draining

LEMMA NobodyInside ==
  ASSUME IInv, enqueueLock = None
  PROVE  ~Draining
BY ProducersAssumption DEF IInv, LockIsHeld, Inside, Draining

LEMMA DrainedQueue ==
  ASSUME IInv, occupiedSlots = 0
  PROVE  \A i \in Positions : i = 1 /\ loopAt = "claimed"
BY DEF IInv, TypeOK, SlotsAddUp, Positions

\* What a successful TryTake of a producer does to the queue.
LEMMA HeadTaken ==
  ASSUME IInv, TakeAndDispose
  PROVE  /\ 1 \in Positions /\ Head(queue) = queue[1]
         /\ \A i \in Positions' : /\ i \in Nat \ {0} /\ i + 1 \in Positions
                                  /\ queue'[i] = queue[i + 1]
         /\ \A i \in Positions : i # 1 => i - 1 \in Positions'
<1>1. Len(queue) > 0 /\ Len(queue) \in Nat
  BY QueuedFrames DEF IInv, TypeOK, SlotsAddUp, TakeAndDispose
<1>2. /\ Head(queue) = queue[1] /\ Len(queue') = Len(queue) - 1
      /\ \A i \in 1 .. Len(queue') : queue'[i] = queue[i + 1]
  BY <1>1, TailOfQueue DEF IInv, TypeOK, TakeAndDispose
<1> QED
  BY <1>1, <1>2 DEF Positions

\* The same of the dispatch thread's.
LEMMA HeadDequeued ==
  ASSUME IInv, Dequeue
  PROVE  /\ 1 \in Positions /\ copiedFrame = NoFrame /\ copiedFrame' = queue[1]
         /\ \A i \in Positions' : /\ i \in Nat \ {0} /\ i + 1 \in Positions
                                  /\ queue'[i] = queue[i + 1]
         /\ \A i \in Positions : i # 1 => i - 1 \in Positions'
<1>1. Len(queue) > 0 /\ Len(queue) \in Nat /\ copiedFrame = NoFrame
  BY QueuedFrames
     DEF IInv, TypeOK, SlotsAddUp, LoopHoldsFrame, Dequeue, LoopStep
<1>2. /\ copiedFrame' = queue[1] /\ Len(queue') = Len(queue) - 1
      /\ \A i \in 1 .. Len(queue') : queue'[i] = queue[i + 1]
  BY <1>1, TailOfQueue DEF IInv, TypeOK, Dequeue
<1> QED
  BY <1>1, <1>2 DEF Positions

LEMMA FrameAdded ==
  ASSUME IInv, NEW p \in Producers, TryEnqueueCopied(p), Added(p)
  PROVE  /\ Positions' = Positions \union {Len(queue) + 1}
         /\ Len(queue) + 1 \notin Positions /\ Len(queue) \in Nat
         /\ \A i \in Positions : queue'[i] = queue[i]
         /\ queue'[Len(queue) + 1] = frame[p]
<1>1. frame[p] \in Frame /\ Len(queue) \in Nat
  BY QueuedFrames DEF TryEnqueueCopied, Busy
<1>2. /\ Len(queue') = Len(queue) + 1
      /\ \A i \in Positions : queue'[i] = queue[i]
      /\ queue'[Len(queue) + 1] = frame[p]
  BY <1>1, AppendToQueue DEF Added, IInv, TypeOK, Positions
<1> QED
  BY <1>1, <1>2 DEF Positions

LEMMA WaitsFirst == Init => WaitInv
BY DEF Init, WaitInv, MakesRoomForOther, PTurnedAway, DrainWaits,
       NoPWhileWaiting, Draining

LEMMA ProducerKeepsWaits ==
  ASSUME IInv, WaitInv, NEW p \in Producers,
         CallTryEnqueue(p) \/ InTryEnqueue(p)
  PROVE  WaitInv'
<1> USE DEF queueVars, loopVars, genVars, WaitInv
<1>0. producerAt \in [Producers -> {"idle", "locking", "deciding",
                                   "makingRoom", "draining", "adding"}]
  BY DEF IInv, TypeOK
<1>1. CASE CallTryEnqueue(p)
  <2>1. /\ UNCHANGED <<queue, waitForH264IFrame, loopAt>>
        /\ producerAt'[p] \in {"idle", "locking"}
        /\ \A q \in Producers \ {p} : /\ producerAt'[q] = producerAt[q]
                                      /\ frame'[q] = frame[q]
        /\ producerAt[p] = "idle"
    BY <1>0, <1>1 DEF CallTryEnqueue, IInv, TypeOK
  <2> QED
    BY <2>1
       DEF MakesRoomForOther, PTurnedAway, DrainWaits, NoPWhileWaiting,
           Draining, Positions
<1>2. CASE Lock(p)
  <2>1. /\ UNCHANGED <<queue, waitForH264IFrame, loopAt, frame>>
        /\ producerAt[p] = "locking"
        /\ producerAt'[p] = "idle" \/ (producerAt'[p] = "deciding" /\ ~TurnsAway(frame[p]))
        /\ \A q \in Producers \ {p} : producerAt'[q] = producerAt[q]
    BY <1>0, <1>2 DEF Lock, Return
  <2> QED
    BY <2>1
       DEF MakesRoomForOther, PTurnedAway, DrainWaits, NoPWhileWaiting,
           Draining, Positions, TurnsAway
<1>3. CASE Decide(p)
  <2>1. ~Draining /\ \A q \in Producers \ {p} : producerAt[q] \notin Inside
    BY <1>3, OneInside DEF Decide, Inside
  <2>2. /\ UNCHANGED <<queue, loopAt, frame>>
        /\ producerAt[p] = "deciding"
        /\ \A q \in Producers \ {p} : producerAt'[q] = producerAt[q]
        /\ \/ producerAt'[p] = "draining" /\ waitForH264IFrame' = TRUE
           \/ /\ producerAt'[p] = "makingRoom" /\ ~IsH264Frame(frame[p])
              /\ UNCHANGED waitForH264IFrame
           \/ producerAt'[p] = "adding" /\ UNCHANGED waitForH264IFrame
    BY <1>0, <1>3 DEF Decide, BeginFlush
  <2> QED
    BY <2>1, <2>2
       DEF MakesRoomForOther, PTurnedAway, DrainWaits, NoPWhileWaiting,
           Draining, Positions, Inside
<1>4. CASE MakeRoom(p)
  <2>1. ~Draining /\ \A q \in Producers \ {p} : producerAt[q] \notin Inside
    BY <1>4, OneInside DEF MakeRoom, Inside
  <2>2. /\ UNCHANGED <<loopAt, frame>>
        /\ producerAt[p] = "makingRoom"
        /\ \A q \in Producers \ {p} : producerAt'[q] = producerAt[q]
        /\ \/ producerAt'[p] = "draining" /\ waitForH264IFrame' = TRUE
           \/ producerAt'[p] = "adding" /\ UNCHANGED waitForH264IFrame
    BY <1>0, <1>4 DEF MakeRoom, BeginFlush
  <2>3. \A i \in Positions' : /\ i \in Nat \ {0} /\ i + 1 \in Positions
                              /\ queue'[i] = queue[i + 1]
    BY <1>4, HeadTaken DEF MakeRoom
  <2>4. NoPWhileWaiting'
    <3>1. ASSUME waitForH264IFrame, NEW i \in Positions', queue'[i].kind = "P"
          PROVE  FALSE
      <4>1. i + 1 = 1
        BY <2>1, <2>3, <3>1 DEF NoPWhileWaiting
      <4> QED
        BY <2>3, <4>1
    <3> QED
      BY <2>2, <3>1 DEF NoPWhileWaiting, Draining
  <2> QED
    BY <2>1, <2>2, <2>4
       DEF MakesRoomForOther, PTurnedAway, DrainWaits, Draining, Inside,
           IsH264Frame
<1>5. CASE MakeRoomFails(p) \/ DrainEnds(p)
  <2>1. \A q \in Producers \ {p} : producerAt[q] \notin Inside
    BY <1>5, OneInside DEF MakeRoomFails, DrainEnds, Inside
  <2>2. /\ UNCHANGED <<queue, loopAt, frame>> /\ occupiedSlots = 0
        /\ \A q \in Producers \ {p} : producerAt'[q] = producerAt[q]
        /\ \/ /\ producerAt[p] = "makingRoom" /\ producerAt'[p] = "adding"
           \/ /\ producerAt'[p] = "adding" /\ frame[p].kind = "I"
           \/ producerAt'[p] = "idle"
    BY <1>0, <1>5 DEF MakeRoomFails, DrainEnds, Return, IsH264IFrame
  <2>3. NoPWhileWaiting'
    BY <2>2, DrainedQueue DEF NoPWhileWaiting, Positions
  <2> QED
    BY <2>1, <2>2, <2>3
       DEF MakesRoomForOther, PTurnedAway, DrainWaits, Draining, Inside,
           IsH264Frame
<1>6. CASE Drain(p)
  <2>1. /\ producerAt[p] = "draining"
        /\ UNCHANGED <<loopAt, frame, producerAt, waitForH264IFrame>>
    BY <1>6 DEF Drain
  <2> QED
    BY <2>1
       DEF MakesRoomForOther, PTurnedAway, DrainWaits, NoPWhileWaiting,
           Draining
<1>7. CASE TryEnqueueCopied(p)
  <2>1. ~Draining /\ \A q \in Producers \ {p} : producerAt[q] \notin Inside
    BY <1>7, OneInside DEF TryEnqueueCopied, Inside
  <2>2. /\ UNCHANGED <<loopAt, frame>>
        /\ producerAt[p] = "adding" /\ producerAt'[p] = "idle"
        /\ \A q \in Producers \ {p} : producerAt'[q] = producerAt[q]
    BY <1>0, <1>7 DEF TryEnqueueCopied, Return
  <2>a. waitForH264IFrame' => waitForH264IFrame
    BY <1>7, Zenon DEF TryEnqueueCopied, Added, NotAdded
  <2>3. NoPWhileWaiting'
    <3>1. CASE Added(p)
      BY <1>7, <2>1, <2>2, <2>a, <3>1, FrameAdded
         DEF NoPWhileWaiting, PTurnedAway
    <3>2. CASE NotAdded(p)
      BY <2>1, <2>2, <3>2 DEF NotAdded, NoPWhileWaiting, Positions
    <3> QED
      BY <1>7, <3>1, <3>2 DEF TryEnqueueCopied
  <2> QED
    BY <2>1, <2>2, <2>a, <2>3
       DEF MakesRoomForOther, PTurnedAway, DrainWaits, Draining, Inside
<1> QED
  BY <1>1, <1>2, <1>3, <1>4, <1>5, <1>6, <1>7 DEF InTryEnqueue

LEMMA DequeueKeepsWaits ==
  ASSUME IInv, WaitInv, Dequeue
  PROVE  WaitInv'
<1>1. UNCHANGED <<producerAt, frame, waitForH264IFrame>>
  BY DEF Dequeue, LoopStep
<1>2. \A i \in Positions' : /\ i \in Nat \ {0} /\ i + 1 \in Positions
                            /\ queue'[i] = queue[i + 1]
  BY HeadDequeued
<1>3. NoPWhileWaiting'
  <2>1. ASSUME waitForH264IFrame, ~Draining, NEW i \in Positions',
               queue'[i].kind = "P"
        PROVE  FALSE
    <3>1. i + 1 = 1
      BY <1>2, <2>1 DEF WaitInv, NoPWhileWaiting
    <3> QED
      BY <1>2, <3>1
  <2> QED
    BY <1>1, <2>1 DEF NoPWhileWaiting, Draining
<1> QED
  BY <1>1, <1>3
     DEF WaitInv, MakesRoomForOther, PTurnedAway, DrainWaits, Draining

LEMMA WaitsInductive == IInv /\ WaitInv /\ [Next]_vars => WaitInv'
<1> SUFFICES ASSUME IInv, WaitInv, [Next]_vars PROVE WaitInv'
  OBVIOUS
<1> USE DEF queueVars, loopVars, genVars
<1>1. ASSUME UNCHANGED <<queue, waitForH264IFrame, producerAt, frame>>,
             loopAt = "claimed" => loopAt' = "claimed"
      PROVE  WaitInv'
  BY <1>1
     DEF WaitInv, MakesRoomForOther, PTurnedAway, DrainWaits, NoPWhileWaiting,
         Draining, Positions
<1>2. ASSUME NEW c \in Threads, CallDispose(c) \/ InDispose(c)
      PROVE  WaitInv'
  BY <1>1, <1>2 DEF CallDispose, InDispose, CompleteAdding, Joined
<1>3. CASE DispatchLoop
  <2>1. CASE LoopStarts \/ Claim \/ CallHandler \/ HandlerEnds \/ LoopEnds
    BY <1>1, <2>1
       DEF LoopStarts, Claim, CallHandler, HandlerEnds, LoopEnds, LoopStep
  <2> QED
    BY <1>3, <2>1, DequeueKeepsWaits DEF DispatchLoop
<1>4. CASE UNCHANGED vars
  BY <1>1, <1>4 DEF vars
<1> QED
  BY <1>2, <1>3, <1>4, ProducerKeepsWaits DEF Next

LEMMA WaitsInvariant == Spec => []WaitInv
BY WaitsFirst, WaitsInductive, Invariance, PTL DEF Spec

\* While the dispatcher waits for an I-frame, no P-frame of the broken chain
\* is queued, but for one the dispatch thread had claimed when the flush began
\* (RawFrameDispatcher.cs:50-60, :66-76).
THEOREM WaitingIsFlushed == Spec => []WaitingMeansFlushed
<1>1. WaitInv => WaitingMeansFlushed
  BY DEF WaitInv, NoPWhileWaiting, WaitingMeansFlushed, Positions, Draining,
         Flushing
<1> QED
  BY <1>1, WaitsInvariant, PTL

(***************************************************************************)
(* Chains.  The hypothesis of this part: one receive thread parses H.264   *)
(* (a session has one H.264 track), so that the frame a P-frame depends on *)
(* is the one that thread handed over before it.                           *)
(***************************************************************************)
IsVideo(p) == KindsOf[p] \intersect {"I", "P"} # {}

OneVideoThread ==
  \A p, q \in Producers : IsVideo(p) /\ IsVideo(q) => p = q

\* The H.264 frame generated last, p's present one not counted.
LastBefore(p) == IF Busy(p) THEN frame[p].prev ELSE lastH264Frame

FramesOwn ==
  \A p \in Producers :
    Busy(p) =>
      /\ frame[p].kind \in KindsOf[p]
      /\ frame[p].prev < frame[p].id
      /\ IsVideo(p) =>
           lastH264Frame = IF IsH264Frame(frame[p]) THEN frame[p].id
                                                    ELSE frame[p].prev

\* H.264 frames are handed over in the order they were generated, with none
\* between a frame and the one it depends on.
QueueOrdered ==
  \A i \in Positions :
    IsH264Frame(queue[i]) =>
      /\ lastShown <= queue[i].prev /\ queue[i].prev < queue[i].id
      /\ IsH264Frame(copiedFrame) => copiedFrame.id <= queue[i].prev
      /\ \A j \in Positions :
           j < i /\ IsH264Frame(queue[j]) => queue[j].id <= queue[i].prev

HandOrdered ==
  IsH264Frame(copiedFrame) =>
    lastShown <= copiedFrame.prev /\ copiedFrame.prev < copiedFrame.id

SourceOrdered ==
  \A p \in Producers :
    IsVideo(p) =>
      /\ lastShown <= LastBefore(p)
      /\ IsH264Frame(copiedFrame) => copiedFrame.id <= LastBefore(p)
      /\ \A i \in Positions :
           IsH264Frame(queue[i]) => queue[i].id <= LastBefore(p)

OrderInv == FramesOwn /\ QueueOrdered /\ HandOrdered /\ SourceOrdered

\* An H.264 frame was shown last, is on its way, or was refused.
Accounted(id, positions) ==
  \/ id \in refused \union {lastShown}
  \/ IsH264Frame(copiedFrame) /\ copiedFrame.id = id
  \/ \E j \in positions : IsH264Frame(queue[j]) /\ queue[j].id = id

\* A flush that empties the queue under the dispatch thread's claim.
FlushOvertakes == Flushing /\ loopAt = "claimed" => overtaken

HandConnected ==
  copiedFrame.kind = "P" /\ ~overtaken =>
    copiedFrame.prev \in refused \union {lastShown}

QueueConnected ==
  ~Draining =>
    \A i \in Positions :
      queue[i].kind = "P" /\ ~(i = 1 /\ loopAt = "claimed" /\ overtaken) =>
        Accounted(queue[i].prev, 1 .. i - 1)

SourceConnected ==
  \A p \in Producers :
    IsVideo(p) =>
      \/ Accounted(LastBefore(p), Positions)
      \/ waitForH264IFrame
      \/ disposed
      \/ producerAt[p] \in Inside /\ frame[p].kind = "I"

PConnected ==
  \A p \in Producers :
    producerAt[p] \in {"deciding", "adding"} /\ frame[p].kind = "P" =>
      Accounted(frame[p].prev, Positions)

ConnectInv ==
  FlushOvertakes /\ HandConnected /\ QueueConnected /\ SourceConnected
    /\ PConnected

LEMMA OrderFacts ==
  ASSUME IInv
  PROVE  /\ lastShown \in Nat /\ lastH264Frame \in Nat
         /\ copiedFrame.id \in Nat /\ copiedFrame.prev \in Nat
         /\ \A i \in Positions :
              queue[i].id \in Nat /\ queue[i].prev \in Nat /\ i \in Nat \ {0}
         /\ \A p \in Producers :
              Busy(p) => frame[p].id \in Nat /\ frame[p].prev \in Nat
         /\ \A p \in Producers : LastBefore(p) \in Nat
<1>1. lastShown \in Nat /\ lastH264Frame \in Nat
  BY BoundAssumption DEF IInv, TypeOK
<1> QED
  BY <1>1, QueuedFrames, FrameIds DEF LastBefore, Positions

LEMMA NoFrameKind == ~IsH264Frame(NoFrame) /\ NoFrame.kind # "P"
BY DEF NoFrame, IsH264Frame

LEMMA OrderFirst == Init => OrderInv
BY NoFrameKind
   DEF Init, OrderInv, FramesOwn, QueueOrdered, HandOrdered, SourceOrdered,
       Busy, LastBefore, Positions

\* Steps that move no frame.
LEMMA QuietOrder ==
  ASSUME IInv, OrderInv,
         UNCHANGED <<queue, copiedFrame, lastShown, lastH264Frame, frame>>,
         \A p \in Producers : Busy(p)' => Busy(p)
  PROVE  OrderInv'
<1>1. /\ FramesOwn' /\ QueueOrdered' /\ HandOrdered'
  BY DEF OrderInv, FramesOwn, QueueOrdered, HandOrdered, Positions
<1>2. \A p \in Producers : IsVideo(p) => LastBefore(p) <= LastBefore(p)'
  BY OrderFacts DEF OrderInv, FramesOwn, LastBefore
<1>3. \A p \in Producers : LastBefore(p) \in Nat /\ LastBefore(p)' \in Nat
  BY OrderFacts DEF LastBefore
<1>4. SourceOrdered'
  BY <1>2, <1>3, OrderFacts DEF OrderInv, SourceOrdered, Positions
<1> QED
  BY <1>1, <1>4 DEF OrderInv

LEMMA CallTryEnqueueKeepsOrder ==
  ASSUME IInv, OrderInv, OneVideoThread,
         NEW p \in Producers, CallTryEnqueue(p)
  PROVE  OrderInv'
<1> USE DEF queueVars, loopVars
<1>1. /\ UNCHANGED <<queue, copiedFrame, lastShown>>
      /\ generated \in Nat /\ ~Busy(p)
      /\ \A q \in Producers \ {p} :
           frame'[q] = frame[q] /\ producerAt'[q] = producerAt[q]
  BY DEF CallTryEnqueue, IInv, TypeOK, Busy
<1>2. /\ frame'[p].id = generated + 1 /\ frame'[p].prev = lastH264Frame
      /\ frame'[p].kind \in KindsOf[p]
      /\ lastH264Frame' = IF IsH264Frame(frame'[p]) THEN generated + 1
                                                    ELSE lastH264Frame
  <2> DEFINE f(kind) == [id |-> generated + 1, kind |-> kind,
                         prev |-> lastH264Frame]
  <2>1. PICK kind \in KindsOf[p] :
          /\ frame' = [frame EXCEPT ![p] = f(kind)]
          /\ lastH264Frame' = IF IsH264Frame(f(kind)) THEN f(kind).id
                                                      ELSE lastH264Frame
    BY DEF CallTryEnqueue
  <2>2. frame'[p] = f(kind)
    BY <2>1 DEF IInv, TypeOK
  <2> QED
    BY <2>1, <2>2
<1>3. lastH264Frame \in Nat /\ lastH264Frame <= generated
  BY DEF IInv, TypeOK
<1>4. IsVideo(p) \/ lastH264Frame' = lastH264Frame
  BY <1>2, KindsAssumption DEF IsVideo, IsH264Frame
<1>5. FramesOwn'
  <2>1. ASSUME NEW q \in Producers, Busy(q)', q # p
        PROVE  /\ frame'[q].kind \in KindsOf[q]
               /\ frame'[q].prev < frame'[q].id
               /\ IsVideo(q) => lastH264Frame' =
                    IF IsH264Frame(frame'[q]) THEN frame'[q].id
                                              ELSE frame'[q].prev
    <3>1. Busy(q) /\ frame'[q] = frame[q]
      BY <1>1, <2>1 DEF Busy
    <3>2. IsVideo(q) => lastH264Frame' = lastH264Frame
      BY <1>4, <2>1 DEF OneVideoThread
    <3> QED
      BY <3>1, <3>2 DEF OrderInv, FramesOwn
  <2>2. /\ frame'[p].prev < frame'[p].id
        /\ lastH264Frame' = IF IsH264Frame(frame'[p]) THEN frame'[p].id
                                                      ELSE frame'[p].prev
    BY <1>1, <1>2, <1>3
  <2> QED
    BY <1>2, <2>1, <2>2 DEF FramesOwn
<1>6. QueueOrdered' /\ HandOrdered'
  BY <1>1 DEF OrderInv, QueueOrdered, HandOrdered, Positions
<1>7. SourceOrdered'
  <2>1. \A q \in Producers :
          IsVideo(q) => LastBefore(q) \in Nat /\ LastBefore(q)' \in Nat
                          /\ LastBefore(q) <= LastBefore(q)'
    BY <1>1, <1>2, <1>3, <1>4, OrderFacts DEF LastBefore, OneVideoThread, Busy
  <2> QED
    BY <1>1, <2>1, OrderFacts DEF OrderInv, SourceOrdered, Positions
<1> QED
  BY <1>5, <1>6, <1>7 DEF OrderInv

LEMMA TakeAndDisposeKeepsOrder ==
  ASSUME IInv, OrderInv, TakeAndDispose,
         UNCHANGED <<copiedFrame, lastShown, lastH264Frame, frame>>,
         \A p \in Producers : Busy(p)' <=> Busy(p)
  PROVE  OrderInv'
<1>1. \A i \in Positions' : /\ i \in Nat \ {0} /\ i + 1 \in Positions
                            /\ queue'[i] = queue[i + 1]
  BY HeadTaken
<1>2. QueueOrdered'
  <2> SUFFICES ASSUME NEW i \in Positions', IsH264Frame(queue'[i])
               PROVE  /\ lastShown <= queue'[i].prev
                      /\ queue'[i].prev < queue'[i].id
                      /\ IsH264Frame(copiedFrame) =>
                           copiedFrame.id <= queue'[i].prev
                      /\ \A j \in Positions' :
                           j < i /\ IsH264Frame(queue'[j]) =>
                             queue'[j].id <= queue'[i].prev
    BY DEF QueueOrdered
  <2>1. \A j \in Positions' : j < i => j + 1 < i + 1
    BY <1>1
  <2> QED
    BY <1>1, <2>1 DEF OrderInv, QueueOrdered
<1>3. SourceOrdered'
  BY <1>1 DEF OrderInv, SourceOrdered, LastBefore
<1>4. FramesOwn' /\ HandOrdered'
  BY DEF OrderInv, FramesOwn, HandOrdered
<1> QED
  BY <1>2, <1>3, <1>4 DEF OrderInv

LEMMA TryEnqueueCopiedKeepsOrder ==
  ASSUME IInv, OrderInv, OneVideoThread, NEW p \in Producers,
         TryEnqueueCopied(p)
  PROVE  OrderInv'
<1> USE DEF queueVars, loopVars, genVars
<1>1. /\ Busy(p) /\ producerAt'[p] = "idle"
      /\ UNCHANGED <<copiedFrame, lastShown, lastH264Frame, frame>>
      /\ \A q \in Producers \ {p} : producerAt'[q] = producerAt[q]
      /\ \A q \in Producers : Busy(q)' => Busy(q) /\ q # p
  BY DEF TryEnqueueCopied, Return, Busy, IInv, TypeOK
<1>2. CASE NotAdded(p)
  <2>1. UNCHANGED queue
    BY <1>2 DEF NotAdded
  <2> QED
    BY <1>1, <2>1, QuietOrder
<1>3. CASE Added(p)
  <2>1. /\ Positions' = Positions \union {Len(queue) + 1}
        /\ Len(queue) + 1 \notin Positions /\ Len(queue) \in Nat
        /\ \A i \in Positions : queue'[i] = queue[i]
        /\ queue'[Len(queue) + 1] = frame[p]
    BY <1>3, FrameAdded
  <2>2. IsH264Frame(frame[p]) => IsVideo(p)
    BY <1>1, KindsAssumption
       DEF OrderInv, FramesOwn, IsH264Frame, IsVideo
  <2>3. QueueOrdered'
    <3>1. ASSUME NEW i \in Positions, IsH264Frame(queue'[i])
          PROVE  /\ lastShown <= queue'[i].prev
                 /\ queue'[i].prev < queue'[i].id
                 /\ IsH264Frame(copiedFrame) =>
                      copiedFrame.id <= queue'[i].prev
                 /\ \A j \in Positions' :
                      j < i /\ IsH264Frame(queue'[j]) =>
                        queue'[j].id <= queue'[i].prev
      <4>1. \A j \in Positions' : j < i => j \in Positions
        BY <2>1 DEF Positions
      <4> QED
        BY <2>1, <3>1, <4>1 DEF OrderInv, QueueOrdered
    <3>2. ASSUME IsH264Frame(frame[p])
          PROVE  /\ lastShown <= frame[p].prev
                 /\ frame[p].prev < frame[p].id
                 /\ IsH264Frame(copiedFrame) => copiedFrame.id <= frame[p].prev
                 /\ \A j \in Positions :
                      IsH264Frame(queue[j]) => queue[j].id <= frame[p].prev
      BY <1>1, <2>2, <3>2
         DEF OrderInv, FramesOwn, SourceOrdered, LastBefore
    <3>3. \A j \in Positions' : j < Len(queue) + 1 => j \in Positions
      BY <2>1
    <3> QED
      BY <1>1, <2>1, <3>1, <3>2, <3>3 DEF QueueOrdered
  <2>4. SourceOrdered'
    <3> SUFFICES ASSUME NEW q \in Producers, IsVideo(q)
                 PROVE  /\ lastShown <= LastBefore(q)'
                        /\ IsH264Frame(copiedFrame) =>
                             copiedFrame.id <= LastBefore(q)'
                        /\ \A i \in Positions' :
                             IsH264Frame(queue'[i]) =>
                               queue'[i].id <= LastBefore(q)'
      BY <1>1 DEF SourceOrdered
    <3>1. LastBefore(q) \in Nat /\ LastBefore(q)' \in Nat
            /\ LastBefore(q) <= LastBefore(q)'
      BY <1>1, OrderFacts DEF OrderInv, FramesOwn, LastBefore
    <3>2. IsH264Frame(frame[p]) => frame[p].id <= LastBefore(q)'
      <4>1. IsH264Frame(frame[p]) => q = p /\ lastH264Frame = frame[p].id
        BY <1>1, <2>2 DEF OneVideoThread, OrderInv, FramesOwn
      <4> QED
        BY <1>1, <4>1, OrderFacts DEF LastBefore
    <3> QED
      BY <2>1, <3>1, <3>2, OrderFacts DEF OrderInv, SourceOrdered
  <2>5. FramesOwn' /\ HandOrdered'
    BY <1>1 DEF OrderInv, FramesOwn, HandOrdered
  <2> QED
    BY <2>3, <2>4, <2>5 DEF OrderInv
<1> QED
  BY <1>2, <1>3 DEF TryEnqueueCopied

LEMMA DequeueKeepsOrder ==
  ASSUME IInv, OrderInv, Dequeue
  PROVE  OrderInv'
<1>1. /\ 1 \in Positions /\ copiedFrame' = queue[1]
      /\ \A i \in Positions' : /\ i \in Nat \ {0} /\ i + 1 \in Positions
                               /\ queue'[i] = queue[i + 1]
      /\ UNCHANGED <<lastShown, lastH264Frame, frame, producerAt>>
  BY HeadDequeued DEF Dequeue, LoopStep, genVars
<1>2. QueueOrdered'
  <2> SUFFICES ASSUME NEW i \in Positions', IsH264Frame(queue'[i])
               PROVE  /\ lastShown <= queue'[i].prev
                      /\ queue'[i].prev < queue'[i].id
                      /\ IsH264Frame(queue[1]) =>
                           queue[1].id <= queue'[i].prev
                      /\ \A j \in Positions' :
                           j < i /\ IsH264Frame(queue'[j]) =>
                             queue'[j].id <= queue'[i].prev
    BY <1>1 DEF QueueOrdered
  <2>1. 1 < i + 1 /\ \A j \in Positions' : j < i => j + 1 < i + 1
    BY <1>1
  <2> QED
    BY <1>1, <2>1 DEF OrderInv, QueueOrdered
<1>3. SourceOrdered'
  BY <1>1 DEF OrderInv, SourceOrdered, LastBefore, Busy
<1>4. FramesOwn' /\ HandOrdered'
  BY <1>1 DEF OrderInv, FramesOwn, HandOrdered, QueueOrdered, Busy
<1> QED
  BY <1>2, <1>3, <1>4 DEF OrderInv

LEMMA HandlerEndsKeepsOrder ==
  ASSUME IInv, OrderInv, HandlerEnds
  PROVE  OrderInv'
<1>1. /\ UNCHANGED <<queue, lastH264Frame, frame, producerAt>>
      /\ lastShown' = IF IsH264Frame(copiedFrame) THEN copiedFrame.id
                                                  ELSE lastShown
      /\ ~IsH264Frame(copiedFrame')
  BY NoFrameKind DEF HandlerEnds, LoopStep, queueVars, genVars
<1> QED
  BY <1>1
     DEF OrderInv, FramesOwn, QueueOrdered, HandOrdered, SourceOrdered,
         LastBefore, Busy, Positions

LEMMA OrderInductive ==
  ASSUME OneVideoThread
  PROVE  IInv /\ OrderInv /\ [Next]_vars => OrderInv'
<1> SUFFICES ASSUME IInv, OrderInv, [Next]_vars PROVE OrderInv'
  OBVIOUS
<1> USE DEF queueVars, loopVars, genVars
<1>1. ASSUME NEW p \in Producers, Lock(p) \/ Decide(p) \/ MakeRoomFails(p)
                                  \/ DrainEnds(p)
      PROVE  OrderInv'
  <2>1. /\ UNCHANGED <<queue, copiedFrame, lastShown, lastH264Frame, frame>>
        /\ \A q \in Producers : Busy(q)' => Busy(q)
    BY <1>1
       DEF Lock, Decide, BeginFlush, MakeRoomFails, DrainEnds, Return, Busy,
           IInv, TypeOK
  <2> QED
    BY <2>1, QuietOrder
<1>2. ASSUME NEW p \in Producers, MakeRoom(p) \/ Drain(p)
      PROVE  OrderInv'
  <2>1. /\ TakeAndDispose
        /\ UNCHANGED <<copiedFrame, lastShown, lastH264Frame, frame>>
        /\ \A q \in Producers : Busy(q)' <=> Busy(q)
    BY <1>2 DEF MakeRoom, Drain, BeginFlush, Busy, IInv, TypeOK
  <2> QED
    BY <2>1, TakeAndDisposeKeepsOrder
<1>3. ASSUME NEW p \in Producers, CallTryEnqueue(p) \/ InTryEnqueue(p)
      PROVE  OrderInv'
  BY <1>1, <1>2, <1>3, CallTryEnqueueKeepsOrder, TryEnqueueCopiedKeepsOrder
     DEF InTryEnqueue
<1>4. ASSUME NEW c \in Threads, CallDispose(c) \/ InDispose(c)
      PROVE  OrderInv'
  <2>1. UNCHANGED <<queue, copiedFrame, lastShown, lastH264Frame, frame,
                    producerAt>>
    BY <1>4 DEF CallDispose, InDispose, CompleteAdding, Joined
  <2> QED
    BY <2>1, QuietOrder DEF Busy
<1>5. CASE DispatchLoop
  <2>1. CASE LoopStarts \/ Claim \/ CallHandler \/ LoopEnds
    <3>1. UNCHANGED <<queue, copiedFrame, lastShown, lastH264Frame, frame,
                      producerAt>>
      BY <2>1 DEF LoopStarts, Claim, CallHandler, LoopEnds, LoopStep
    <3> QED
      BY <3>1, QuietOrder DEF Busy
  <2> QED
    BY <1>5, <2>1, DequeueKeepsOrder, HandlerEndsKeepsOrder DEF DispatchLoop
<1>6. CASE UNCHANGED vars
  BY <1>6, QuietOrder DEF vars, Busy
<1> QED
  BY <1>3, <1>4, <1>5, <1>6 DEF Next

LEMMA ConnectFirst == Init => ConnectInv
BY NoFrameKind
   DEF Init, ConnectInv, FlushOvertakes, HandConnected, QueueConnected,
       SourceConnected, PConnected, Accounted, Positions, Busy, LastBefore

\* Steps outside TryEnqueue that move no frame.
LEMMA QuietConnect ==
  ASSUME IInv, ConnectInv,
         UNCHANGED <<queue, copiedFrame, lastShown, lastH264Frame, frame,
                     producerAt, refused, waitForH264IFrame>>,
         disposed => disposed',
         \/ UNCHANGED <<loopAt, overtaken>>
         \/ loopAt # "claimed" /\ loopAt' # "claimed" /\ UNCHANGED overtaken
         \/ loopAt # "claimed" /\ copiedFrame = NoFrame /\ overtaken' = Flushing
  PROVE  ConnectInv'
<1>1. Flushing' = Flushing /\ Draining' = Draining
  BY DEF Flushing, Draining
<1>2. SourceConnected' /\ PConnected'
  BY DEF ConnectInv, SourceConnected, PConnected, Accounted, LastBefore, Busy,
         Positions
<1>3. FlushOvertakes'
  BY <1>1 DEF ConnectInv, FlushOvertakes
<1>4. HandConnected'
  BY NoFrameKind DEF ConnectInv, HandConnected
<1>5. QueueConnected'
  BY <1>1 DEF ConnectInv, QueueConnected, Accounted, Positions
<1> QED
  BY <1>2, <1>3, <1>4, <1>5 DEF ConnectInv

LEMMA CallTryEnqueueKeepsConnect ==
  ASSUME IInv, ConnectInv, OneVideoThread, NEW p \in Producers,
         CallTryEnqueue(p)
  PROVE  ConnectInv'
<1> USE DEF queueVars, loopVars
<1>1. /\ UNCHANGED <<queue, copiedFrame, lastShown, refused, disposed, loopAt,
                     waitForH264IFrame, overtaken>>
      /\ producerAt[p] = "idle"
      /\ \/ producerAt'[p] = "idle" /\ disposed
         \/ producerAt'[p] = "locking"
      /\ \A q \in Producers \ {p} :
           frame'[q] = frame[q] /\ producerAt'[q] = producerAt[q]
  BY DEF CallTryEnqueue, IInv, TypeOK
<1>2. /\ frame'[p].prev = lastH264Frame
      /\ frame'[p].kind \in KindsOf[p]
      /\ lastH264Frame' = IF IsH264Frame(frame'[p]) THEN generated'
                                                    ELSE lastH264Frame
  <2> DEFINE f(kind) == [id |-> generated', kind |-> kind,
                         prev |-> lastH264Frame]
  <2>1. PICK kind \in KindsOf[p] :
          /\ frame' = [frame EXCEPT ![p] = f(kind)]
          /\ lastH264Frame' = IF IsH264Frame(f(kind)) THEN f(kind).id
                                                      ELSE lastH264Frame
    BY DEF CallTryEnqueue
  <2>2. frame'[p] = f(kind)
    BY <2>1 DEF IInv, TypeOK
  <2> QED
    BY <2>1, <2>2
<1>3. Flushing' = Flushing /\ Draining' = Draining
  BY <1>1 DEF Flushing, Draining
<1>4. IsVideo(p) \/ lastH264Frame' = lastH264Frame
  BY <1>2, KindsAssumption DEF IsVideo, IsH264Frame
<1>5. SourceConnected'
  <2>1. ASSUME NEW q \in Producers, IsVideo(q)
        PROVE  disposed \/ LastBefore(q)' = LastBefore(q)
    BY <1>1, <1>2, <1>4, <2>1 DEF LastBefore, Busy, OneVideoThread
  <2>2. ASSUME NEW q \in Producers
        PROVE  producerAt[q] \in Inside /\ frame[q].kind = "I" =>
                 producerAt'[q] \in Inside /\ frame'[q].kind = "I"
    BY <1>1 DEF Inside
  <2> QED
    BY <1>1, <2>1, <2>2 DEF ConnectInv, SourceConnected, Accounted, Positions
<1>6. PConnected'
  BY <1>1 DEF ConnectInv, PConnected, Accounted, Positions
<1>7. FlushOvertakes' /\ HandConnected'
  BY <1>1, <1>3 DEF ConnectInv, FlushOvertakes, HandConnected
<1>8. QueueConnected'
  BY <1>1, <1>3 DEF ConnectInv, QueueConnected, Accounted, Positions
<1> QED
  BY <1>5, <1>6, <1>7, <1>8 DEF ConnectInv

\* A frame is known to the thread that parses H.264 only.
LEMMA VideoFrame ==
  ASSUME OrderInv, NEW p \in Producers, Busy(p), IsH264Frame(frame[p])
  PROVE  IsVideo(p)
BY KindsAssumption DEF OrderInv, FramesOwn, IsH264Frame, IsVideo

LEMMA LockKeepsConnect ==
  ASSUME IInv, OrderInv, ConnectInv, NEW p \in Producers, Lock(p)
  PROVE  ConnectInv'
<1> USE DEF queueVars, loopVars, genVars
<1>1. /\ UNCHANGED <<queue, copiedFrame, lastShown, lastH264Frame, refused,
                     disposed, loopAt, waitForH264IFrame, overtaken, frame>>
      /\ producerAt[p] = "locking" /\ ~Draining
      /\ \/ producerAt'[p] = "idle" /\ TurnsAway(frame[p])
         \/ producerAt'[p] = "deciding" /\ ~TurnsAway(frame[p])
      /\ \A q \in Producers \ {p} : producerAt'[q] = producerAt[q]
  BY NobodyInside DEF Lock, Return, IInv, TypeOK
<1>2. Flushing' = Flushing /\ Draining' = Draining
  BY <1>1 DEF Flushing, Draining
<1>3. FlushOvertakes' /\ HandConnected'
  BY <1>1, <1>2 DEF ConnectInv, FlushOvertakes, HandConnected
<1>4. QueueConnected'
  BY <1>1, <1>2 DEF ConnectInv, QueueConnected, Accounted, Positions
<1>5. \A q \in Producers :
        Busy(q)' => LastBefore(q)' = LastBefore(q) /\ Busy(q)
  BY <1>1 DEF LastBefore, Busy
<1>6. SourceConnected'
  <2> SUFFICES ASSUME NEW q \in Producers, IsVideo(q)
               PROVE  \/ Accounted(LastBefore(q), Positions)'
                      \/ waitForH264IFrame \/ disposed
                      \/ producerAt'[q] \in Inside /\ frame[q].kind = "I"
    BY <1>1 DEF SourceConnected
  <2>1. CASE q # p
    BY <1>1, <2>1
       DEF ConnectInv, SourceConnected, Accounted, Positions, LastBefore, Busy
  <2>2. CASE q = p /\ producerAt'[p] = "deciding"
    BY <1>1, <2>2
       DEF ConnectInv, SourceConnected, Accounted, Positions, LastBefore, Busy,
           Inside
  <2>3. CASE q = p /\ producerAt'[p] = "idle"
    BY <1>1, <2>3 DEF TurnsAway
  <2> QED
    BY <1>1, <2>1, <2>2, <2>3
<1>7. PConnected'
  <2>1. ASSUME producerAt'[p] = "deciding", frame[p].kind = "P"
        PROVE  Accounted(frame[p].prev, Positions)
    BY <1>1, <2>1, VideoFrame
       DEF TurnsAway, ConnectInv, SourceConnected, LastBefore, Busy, Inside,
           IsH264Frame
  <2> QED
    BY <1>1, <2>1 DEF ConnectInv, PConnected, Accounted, Positions
<1> QED
  BY <1>3, <1>4, <1>6, <1>7 DEF ConnectInv

LEMMA DecideKeepsConnect ==
  ASSUME IInv, WaitInv, ConnectInv, NEW p \in Producers, Decide(p)
  PROVE  ConnectInv'
<1> USE DEF queueVars, loopVars, genVars
<1>1. /\ UNCHANGED <<queue, copiedFrame, lastShown, lastH264Frame, refused,
                     disposed, loopAt, overtaken, frame>>
      /\ producerAt[p] = "deciding" /\ ~Flushing /\ ~Draining
      /\ \A q \in Producers \ {p} : producerAt'[q] = producerAt[q]
      /\ producerAt[p] \in Inside
  BY OneInside, FlushIsOwn DEF Decide, BeginFlush, Inside, IInv, TypeOK
<1>2. \/ /\ producerAt'[p] = "draining" /\ waitForH264IFrame' = TRUE /\ IsFull
      \/ /\ producerAt'[p] = "makingRoom" /\ ~IsH264Frame(frame[p]) /\ IsFull
         /\ UNCHANGED waitForH264IFrame
      \/ /\ producerAt'[p] = "adding" /\ UNCHANGED waitForH264IFrame
  BY DEF Decide, BeginFlush, IInv, TypeOK
<1>3. FlushOvertakes'
  <2>1. IsFull => loopAt # "claimed"
    BY CapacityAssumption DEF IsFull, Count, IInv, TypeOK, SlotsAddUp
  <2>2. Flushing' => IsFull
    BY <1>1, <1>2 DEF Flushing
  <2> QED
    BY <1>1, <2>1, <2>2 DEF FlushOvertakes
<1>4. HandConnected'
  BY <1>1 DEF ConnectInv, HandConnected
<1>5. QueueConnected'
  BY <1>1 DEF ConnectInv, QueueConnected, Accounted, Positions
<1>6. SourceConnected'
  <2>1. ASSUME NEW q \in Producers
        PROVE  /\ LastBefore(q)' = LastBefore(q)
               /\ producerAt[q] \in Inside <=> producerAt'[q] \in Inside
               /\ waitForH264IFrame => waitForH264IFrame'
    BY <1>1, <1>2 DEF LastBefore, Busy, Inside
  <2> QED
    BY <1>1, <2>1 DEF ConnectInv, SourceConnected, Accounted, Positions
<1>7. PConnected'
  BY <1>1, <1>2 DEF ConnectInv, PConnected, Accounted, Positions
<1> QED
  BY <1>3, <1>4, <1>5, <1>6, <1>7 DEF ConnectInv

\* Taking a frame that is not H.264 from the queue loses sight of no H.264 one.
LEMMA AccountedAfterOther ==
  ASSUME IInv, TakeAndDispose, ~IsH264Frame(queue[1]),
         UNCHANGED <<copiedFrame, lastShown, refused>>, NEW id
  PROVE  /\ Accounted(id, Positions) => Accounted(id, Positions)'
         /\ \A i \in Positions' :
              Accounted(id, 1 .. i) => Accounted(id, 1 .. i - 1)'
<1>1. /\ \A i \in Positions' : i \in Nat \ {0} /\ queue'[i] = queue[i + 1]
      /\ \A i \in Positions : i # 1 => i - 1 \in Positions'
      /\ \A i \in Positions : i \in Nat
  BY HeadTaken DEF Positions
<1>2. \A j \in Positions :
        IsH264Frame(queue[j]) => j - 1 \in Positions' /\ queue'[j - 1] = queue[j]
  BY <1>1
<1>3. \A i \in Positions' : \A j \in 1 .. i : j \in Positions /\ j - 1 <= i - 1
  <2>1. Len(queue') = Len(queue) - 1 /\ Len(queue) \in Nat /\ Len(queue) > 0
    BY QueuedFrames, TailOfQueue
       DEF TakeAndDispose, IInv, TypeOK, SlotsAddUp
  <2> QED
    BY <2>1 DEF Positions
<1>4. \A i \in Positions' : \A j \in 1 .. i :
        IsH264Frame(queue[j]) => j - 1 \in 1 .. i - 1
  BY <1>1, <1>2, <1>3 DEF Positions
<1> QED
  BY <1>2, <1>3, <1>4 DEF Accounted

LEMMA MakeRoomKeepsConnect ==
  ASSUME IInv, WaitInv, ConnectInv, NEW p \in Producers, MakeRoom(p)
  PROVE  ConnectInv'
<1> USE DEF queueVars, loopVars, genVars
<1>1. /\ TakeAndDispose
      /\ UNCHANGED <<copiedFrame, lastShown, lastH264Frame, refused,
                     disposed, loopAt, frame>>
      /\ producerAt[p] = "makingRoom" /\ ~Draining
      /\ ~IsH264Frame(frame[p])
      /\ \A q \in Producers \ {p} : /\ producerAt'[q] = producerAt[q]
                                    /\ producerAt[q] \notin Inside
      /\ overtaken' = (overtaken \/ loopAt = "claimed")
      /\ \/ producerAt'[p] = "draining" /\ waitForH264IFrame' = TRUE
         \/ /\ producerAt'[p] = "adding" /\ UNCHANGED waitForH264IFrame
            /\ ~IsH264Frame(queue[1])
  BY OneInside, HeadTaken
     DEF MakeRoom, TakeAndDispose, BeginFlush, Inside, WaitInv,
         MakesRoomForOther, IInv, TypeOK
<1>2. \A i \in Positions' : /\ i \in Nat \ {0} /\ i + 1 \in Positions
                            /\ queue'[i] = queue[i + 1]
  BY <1>1, HeadTaken
<1>3. FlushOvertakes' /\ HandConnected'
  BY <1>1 DEF ConnectInv, FlushOvertakes, HandConnected
<1>4. QueueConnected'
  <2>1. CASE producerAt'[p] = "draining"
    BY <2>1 DEF QueueConnected, Draining
  <2>2. ASSUME ~IsH264Frame(queue[1]), NEW i \in Positions',
               queue'[i].kind = "P",
               ~(i = 1 /\ loopAt' = "claimed" /\ overtaken')
        PROVE  Accounted(queue[i].prev, 1 .. i - 1)'
    <3> DEFINE before == queue[i + 1].prev
    <3>1. i + 1 # 1 /\ (i + 1) - 1 = i
      BY <1>2
    <3>2. Accounted(before, 1 .. (i + 1) - 1)
      BY <1>1, <1>2, <2>2, <3>1 DEF ConnectInv, QueueConnected
    <3>3. Accounted(before, 1 .. i)
      BY <3>1, <3>2
    <3> HIDE DEF before
    <3>4. \A id : Accounted(id, 1 .. i) => Accounted(id, 1 .. i - 1)'
      BY <1>1, <2>2, AccountedAfterOther
    <3>5. queue'[i].prev = before
      BY <1>2 DEF before
    <3> QED
      BY <3>3, <3>4, <3>5 DEF Accounted
  <2> QED
    BY <1>1, <2>1, <2>2 DEF QueueConnected
<1>5. SourceConnected'
  <2>1. ASSUME NEW q \in Producers
        PROVE  /\ LastBefore(q)' = LastBefore(q)
               /\ producerAt[q] \in Inside => producerAt'[q] \in Inside
    BY <1>1 DEF LastBefore, Busy, Inside
  <2>2. CASE waitForH264IFrame'
    BY <2>2 DEF SourceConnected
  <2>3. CASE ~IsH264Frame(queue[1]) /\ UNCHANGED waitForH264IFrame
    <3>1. \A id : Accounted(id, Positions) => Accounted(id, Positions)'
      BY <1>1, <2>3, AccountedAfterOther
    <3> QED
      BY <1>1, <2>1, <2>3, <3>1 DEF ConnectInv, SourceConnected, Accounted
  <2> QED
    BY <1>1, <2>2, <2>3
<1>6. PConnected'
  BY <1>1 DEF PConnected, Inside, IsH264Frame
<1> QED
  BY <1>3, <1>4, <1>5, <1>6 DEF ConnectInv

LEMMA MakeRoomFailsKeepsConnect ==
  ASSUME IInv, WaitInv, ConnectInv, NEW p \in Producers, MakeRoomFails(p)
  PROVE  ConnectInv'
<1> USE DEF queueVars, loopVars, genVars
<1>1. /\ UNCHANGED <<queue, copiedFrame, lastShown, lastH264Frame, refused,
                     disposed, loopAt, overtaken, frame, waitForH264IFrame>>
      /\ producerAt[p] = "makingRoom" /\ producerAt'[p] = "adding"
      /\ ~Draining /\ Flushing
      /\ ~IsH264Frame(frame[p])
      /\ \A q \in Producers \ {p} : producerAt'[q] = producerAt[q]
  BY OneInside, FlushIsOwn
     DEF MakeRoomFails, Inside, WaitInv, MakesRoomForOther, IInv, TypeOK
<1>2. FlushOvertakes' /\ HandConnected'
  BY <1>1 DEF ConnectInv, FlushOvertakes, HandConnected
<1>3. QueueConnected'
  BY <1>1 DEF ConnectInv, QueueConnected, Accounted, Positions
<1>4. SourceConnected'
  <2>1. ASSUME NEW q \in Producers
        PROVE  /\ LastBefore(q)' = LastBefore(q)
               /\ producerAt[q] \in Inside => producerAt'[q] \in Inside
    BY <1>1 DEF LastBefore, Busy, Inside
  <2> QED
    BY <1>1, <2>1 DEF ConnectInv, SourceConnected, Accounted, Positions
<1>5. PConnected'
  BY <1>1 DEF ConnectInv, PConnected, Accounted, Positions, IsH264Frame
<1> QED
  BY <1>2, <1>3, <1>4, <1>5 DEF ConnectInv

LEMMA DrainKeepsConnect ==
  ASSUME IInv, WaitInv, ConnectInv, NEW p \in Producers, Drain(p)
  PROVE  ConnectInv'
<1> USE DEF queueVars, loopVars, genVars
<1>1. /\ UNCHANGED <<copiedFrame, lastShown, refused, loopAt, frame,
                     waitForH264IFrame, producerAt>>
      /\ producerAt[p] = "draining" /\ waitForH264IFrame
      /\ \A q \in Producers : producerAt[q] \in Inside => q = p
      /\ overtaken' = (overtaken \/ loopAt = "claimed")
  BY OneInside
     DEF Drain, TakeAndDispose, Inside, WaitInv, DrainWaits, Draining
<1>2. FlushOvertakes' /\ HandConnected'
  BY <1>1 DEF ConnectInv, FlushOvertakes, HandConnected
<1>3. QueueConnected' /\ SourceConnected'
  BY <1>1 DEF QueueConnected, Draining, SourceConnected
<1>4. PConnected'
  BY <1>1 DEF PConnected, Inside
<1> QED
  BY <1>2, <1>3, <1>4 DEF ConnectInv

LEMMA DrainEndsKeepsConnect ==
  ASSUME IInv, WaitInv, OrderInv, ConnectInv, OneVideoThread,
         NEW p \in Producers, DrainEnds(p)
  PROVE  ConnectInv'
<1> USE DEF queueVars, loopVars, genVars
<1>1. /\ UNCHANGED <<queue, copiedFrame, lastShown, lastH264Frame, refused,
                     loopAt, overtaken, frame>>
      /\ producerAt[p] = "draining" /\ waitForH264IFrame
      /\ occupiedSlots = 0 /\ Flushing
      /\ \A q \in Producers \ {p} : /\ producerAt'[q] = producerAt[q]
                                    /\ producerAt[q] \notin Inside
  BY OneInside, FlushIsOwn
     DEF DrainEnds, Return, Inside, WaitInv, DrainWaits, Draining, IInv, TypeOK
<1>2. \/ producerAt'[p] = "adding" /\ frame[p].kind = "I"
      \/ producerAt'[p] = "idle" /\ waitForH264IFrame'
  BY <1>1 DEF DrainEnds, Return, IsH264IFrame, IInv, TypeOK
<1>3. FlushOvertakes'
  BY <1>1, <1>2 DEF FlushOvertakes, Flushing, Inside
<1>4. HandConnected'
  BY <1>1 DEF ConnectInv, HandConnected
<1>5. QueueConnected'
  <2>1. \A i \in Positions : i = 1 /\ loopAt = "claimed" /\ overtaken
    BY <1>1, DrainedQueue DEF ConnectInv, FlushOvertakes
  <2> QED
    BY <1>1, <2>1 DEF QueueConnected, Positions
<1>6. SourceConnected'
  <2>1. CASE waitForH264IFrame'
    BY <2>1 DEF SourceConnected
  <2>2. CASE producerAt'[p] = "adding" /\ frame[p].kind = "I"
    <3>1. IsVideo(p)
      BY <1>1, <2>2, VideoFrame DEF Busy, IsH264Frame
    <3>2. \A q \in Producers : IsVideo(q) => q = p
      BY <3>1 DEF OneVideoThread
    <3> QED
      BY <1>1, <2>2, <3>2 DEF SourceConnected, Inside
  <2> QED
    BY <1>2, <2>1, <2>2
<1>7. PConnected'
  BY <1>1, <1>2 DEF PConnected, Inside
<1> QED
  BY <1>3, <1>4, <1>5, <1>6, <1>7 DEF ConnectInv

LEMMA TryEnqueueCopiedKeepsConnect ==
  ASSUME IInv, WaitInv, OrderInv, ConnectInv, OneVideoThread,
         NEW p \in Producers, TryEnqueueCopied(p)
  PROVE  ConnectInv'
<1> USE DEF queueVars, loopVars, genVars
<1>1. /\ UNCHANGED <<copiedFrame, lastShown, lastH264Frame, disposed, loopAt,
                     overtaken, frame>>
      /\ producerAt[p] = "adding" /\ producerAt'[p] = "idle" /\ Busy(p)
      /\ ~Draining /\ ~Flushing
      /\ \A q \in Producers \ {p} : /\ producerAt'[q] = producerAt[q]
                                    /\ producerAt[q] \notin Inside
  BY OneInside, FlushIsOwn
     DEF TryEnqueueCopied, Return, Inside, Busy, IInv, TypeOK
<1>2. FlushOvertakes'
  BY <1>1 DEF FlushOvertakes, Flushing
<1>3. refused \subseteq refused'
  BY DEF TryEnqueueCopied, Added, NotAdded
<1>4. HandConnected'
  BY <1>1, <1>3 DEF ConnectInv, HandConnected
<1>5. PConnected'
  BY <1>1 DEF PConnected, Inside
<1>6. IsH264Frame(frame[p]) => IsVideo(p)
  BY <1>1, VideoFrame
<1>7. LastBefore(p) = frame[p].prev
  BY <1>1 DEF LastBefore
<1>8. IsVideo(p) =>
        LastBefore(p)' = IF IsH264Frame(frame[p]) THEN frame[p].id
                                                  ELSE LastBefore(p)
  BY <1>1 DEF LastBefore, Busy, OrderInv, FramesOwn
<1>9. \A q \in Producers \ {p} :
        /\ LastBefore(q)' = LastBefore(q)
        /\ IsVideo(q) => ~IsH264Frame(frame[p])
  BY <1>1, <1>6 DEF LastBefore, Busy, OneVideoThread
<1>10. CASE NotAdded(p)
  <2>1. /\ UNCHANGED <<queue, waitForH264IFrame>>
        /\ IsH264Frame(frame[p]) => frame[p].id \in refused'
    BY <1>10 DEF NotAdded
  <2>2. QueueConnected'
    BY <1>1, <1>3, <2>1
       DEF ConnectInv, QueueConnected, Accounted, Positions
  <2>3. SourceConnected'
    <3>1. ASSUME NEW q \in Producers, IsVideo(q)
          PROVE  \/ Accounted(LastBefore(q), Positions)'
                 \/ waitForH264IFrame' \/ disposed'
                 \/ producerAt'[q] \in Inside /\ frame'[q].kind = "I"
      <4>1. CASE IsH264Frame(frame[p])
        BY <1>1, <1>8, <1>9, <2>1, <3>1, <4>1 DEF Accounted
      <4>2. CASE ~IsH264Frame(frame[p])
        <5>1. /\ LastBefore(q)' = LastBefore(q)
              /\ ~(producerAt[q] \in Inside /\ frame[q].kind = "I")
          BY <1>1, <1>8, <1>9, <3>1, <4>2 DEF IsH264Frame
        <5> QED
          BY <1>1, <1>3, <2>1, <3>1, <5>1
             DEF ConnectInv, SourceConnected, Accounted, Positions
      <4> QED
        BY <4>1, <4>2
    <3> QED
      BY <3>1 DEF SourceConnected
  <2> QED
    BY <1>2, <1>4, <1>5, <2>2, <2>3 DEF ConnectInv
<1>11. CASE Added(p)
  <2>1. /\ Positions' = Positions \union {Len(queue) + 1}
        /\ Len(queue) + 1 \notin Positions /\ Len(queue) \in Nat
        /\ \A i \in Positions : queue'[i] = queue[i]
        /\ queue'[Len(queue) + 1] = frame[p]
    BY <1>11, FrameAdded
  <2>2. UNCHANGED refused
    BY <1>11 DEF Added
  <2>3. ~IsH264Frame(frame[p]) => UNCHANGED waitForH264IFrame
    BY <1>11 DEF Added, IsH264Frame, IsH264IFrame, IInv, TypeOK
  <2>4. \A i \in Positions : \A j \in 1 .. i - 1 : j \in Positions
    BY <2>1 DEF Positions
  <2>5. \A id : Accounted(id, Positions) => Accounted(id, Positions)'
    BY <1>1, <2>1, <2>2 DEF Accounted
  <2>6. QueueConnected'
    <3>1. ASSUME NEW i \in Positions, queue'[i].kind = "P",
                 ~(i = 1 /\ loopAt' = "claimed" /\ overtaken')
          PROVE  Accounted(queue[i].prev, 1 .. i - 1)'
      <4>1. Accounted(queue[i].prev, 1 .. i - 1)
        BY <1>1, <2>1, <3>1 DEF ConnectInv, QueueConnected
      <4> QED
        BY <1>1, <2>1, <2>2, <2>4, <4>1 DEF Accounted
    <3>2. ASSUME NEW i, i = Len(queue) + 1, frame[p].kind = "P"
          PROVE  Accounted(frame[p].prev, 1 .. i - 1)'
      <4>1. Accounted(frame[p].prev, Positions)
        BY <1>1, <3>2 DEF ConnectInv, PConnected
      <4>2. \A j \in Positions : j \in 1 .. i - 1 /\ queue'[j] = queue[j]
        BY <2>1, <3>2 DEF Positions
      <4> QED
        BY <1>1, <2>2, <4>1, <4>2 DEF Accounted
    <3>3. ASSUME NEW i \in Positions', queue'[i].kind = "P",
                 ~(i = 1 /\ loopAt' = "claimed" /\ overtaken')
          PROVE  Accounted(queue[i].prev, 1 .. i - 1)'
      <4>1. CASE i \in Positions
        BY <3>1, <3>3, <4>1
      <4>2. CASE i = Len(queue) + 1
        BY <1>1, <2>1, <3>2, <3>3, <4>2 DEF Accounted
      <4> QED
        BY <2>1, <4>1, <4>2
    <3> QED
      BY <3>3 DEF QueueConnected
  <2>7. SourceConnected'
    <3>1. ASSUME NEW q \in Producers, IsVideo(q)
          PROVE  \/ Accounted(LastBefore(q), Positions)'
                 \/ waitForH264IFrame' \/ disposed'
                 \/ producerAt'[q] \in Inside /\ frame'[q].kind = "I"
      <4>1. CASE IsH264Frame(frame[p])
        BY <1>8, <1>9, <2>1, <3>1, <4>1 DEF Accounted
      <4>2. CASE ~IsH264Frame(frame[p])
        <5>1. /\ LastBefore(q)' = LastBefore(q)
              /\ ~(producerAt[q] \in Inside /\ frame[q].kind = "I")
          BY <1>1, <1>8, <1>9, <3>1, <4>2 DEF IsH264Frame
        <5>2. Accounted(LastBefore(q), Positions)
                \/ waitForH264IFrame \/ disposed
          BY <3>1, <5>1 DEF ConnectInv, SourceConnected
        <5>3. Accounted(LastBefore(q), Positions) =>
                Accounted(LastBefore(q), Positions)'
          BY <2>5, <5>1 DEF Accounted
        <5> QED
          BY <1>1, <2>3, <4>2, <5>2, <5>3
      <4> QED
        BY <4>1, <4>2
    <3> QED
      BY <3>1 DEF SourceConnected
  <2> QED
    BY <1>2, <1>4, <1>5, <2>6, <2>7 DEF ConnectInv
<1> QED
  BY <1>10, <1>11 DEF TryEnqueueCopied

LEMMA DequeueKeepsConnect ==
  ASSUME IInv, ConnectInv, Dequeue
  PROVE  ConnectInv'
<1> USE DEF queueVars, loopVars, genVars
<1>1. /\ 1 \in Positions /\ copiedFrame = NoFrame /\ copiedFrame' = queue[1]
      /\ \A i \in Positions' : /\ i \in Nat \ {0} /\ i + 1 \in Positions
                               /\ queue'[i] = queue[i + 1]
      /\ \A i \in Positions : i # 1 => i - 1 \in Positions'
      /\ UNCHANGED <<lastShown, lastH264Frame, refused, disposed, frame,
                     producerAt, waitForH264IFrame, overtaken>>
      /\ loopAt = "claimed" /\ loopAt' = "dequeued"
  BY HeadDequeued DEF Dequeue, LoopStep
<1>2. \A i \in Positions : i \in Nat \ {0}
  BY DEF Positions
<1>3. \A id : Accounted(id, Positions) => Accounted(id, Positions)'
  <2> SUFFICES ASSUME NEW id, Accounted(id, Positions)
               PROVE  Accounted(id, Positions)'
    OBVIOUS
  <2>1. ASSUME NEW j \in Positions, IsH264Frame(queue[j]), queue[j].id = id
        PROVE  Accounted(id, Positions)'
    <3>1. CASE j = 1
      BY <1>1, <2>1, <3>1 DEF Accounted
    <3>2. CASE j # 1
      <4>1. j - 1 \in Positions' /\ queue'[j - 1] = queue[j]
        BY <1>1, <1>2, <3>2
      <4> QED
        BY <2>1, <4>1 DEF Accounted
    <3> QED
      BY <3>1, <3>2
  <2> QED
    BY <1>1, <2>1, NoFrameKind DEF Accounted
<1>4. ASSUME NEW i \in Positions', NEW id, Accounted(id, 1 .. i)
      PROVE  Accounted(id, 1 .. i - 1)'
  <2>1. ASSUME NEW j \in 1 .. i, IsH264Frame(queue[j]), queue[j].id = id
        PROVE  Accounted(id, 1 .. i - 1)'
    <3>1. CASE j = 1
      BY <1>1, <2>1, <3>1 DEF Accounted
    <3>2. CASE j # 1
      <4>1. j - 1 \in 1 .. i - 1 /\ j - 1 \in Positions'
        BY <1>1, <3>2 DEF Positions
      <4>2. queue'[j - 1] = queue[j]
        BY <1>1, <2>1, <4>1
      <4> QED
        BY <2>1, <4>1, <4>2 DEF Accounted
    <3> QED
      BY <3>1, <3>2
  <2> QED
    BY <1>1, <1>4, <2>1, NoFrameKind DEF Accounted
<1>5. FlushOvertakes'
  BY <1>1 DEF FlushOvertakes
<1>6. HandConnected'
  <2> SUFFICES ASSUME queue[1].kind = "P", ~overtaken
               PROVE  queue[1].prev \in refused \union {lastShown}
    BY <1>1 DEF HandConnected
  <2>1. ~Draining
    BY <1>1 DEF ConnectInv, FlushOvertakes, Flushing, Draining
  <2>2. Accounted(queue[1].prev, 1 .. 1 - 1)
    BY <1>1, <2>1 DEF ConnectInv, QueueConnected
  <2> QED
    BY <1>1, <2>2, NoFrameKind DEF Accounted
<1>7. QueueConnected'
  <2> SUFFICES ASSUME ~Draining, NEW i \in Positions', queue'[i].kind = "P"
               PROVE  Accounted(queue[i].prev, 1 .. i - 1)'
    BY <1>1 DEF QueueConnected, Draining
  <2> DEFINE before == queue[i + 1].prev
  <2>1. i + 1 # 1 /\ (i + 1) - 1 = i
    BY <1>1
  <2>2. Accounted(before, 1 .. (i + 1) - 1)
    BY <1>1, <2>1 DEF ConnectInv, QueueConnected
  <2>3. Accounted(before, 1 .. i)
    BY <2>1, <2>2
  <2> HIDE DEF before
  <2>4. \A id : Accounted(id, 1 .. i) => Accounted(id, 1 .. i - 1)'
    BY <1>4
  <2>5. queue'[i].prev = before
    BY <1>1 DEF before
  <2> QED
    BY <2>3, <2>4, <2>5 DEF Accounted
<1>8. SourceConnected'
  <2>1. ASSUME NEW q \in Producers PROVE LastBefore(q)' = LastBefore(q)
    BY <1>1 DEF LastBefore, Busy
  <2> QED
    BY <1>1, <1>3, <2>1 DEF ConnectInv, SourceConnected, Accounted
<1>9. PConnected'
  BY <1>1, <1>3 DEF ConnectInv, PConnected, Accounted
<1> QED
  BY <1>5, <1>6, <1>7, <1>8, <1>9 DEF ConnectInv

LEMMA HandlerEndsKeepsConnect ==
  ASSUME IInv, OrderInv, ConnectInv, HandlerEnds
  PROVE  ConnectInv'
<1> USE DEF queueVars, loopVars, genVars
<1>1. /\ UNCHANGED <<queue, lastH264Frame, refused, disposed, frame,
                     producerAt, waitForH264IFrame, overtaken>>
      /\ loopAt = "handling" /\ loopAt' = "waiting"
      /\ copiedFrame' = NoFrame
      /\ lastShown' = IF IsH264Frame(copiedFrame) THEN copiedFrame.id
                                                  ELSE lastShown
  BY DEF HandlerEnds, LoopStep
\* What was handed over last replaces what was shown before it.
<1>2. ASSUME NEW id \in Nat, NEW S, Accounted(id, S),
             IsH264Frame(copiedFrame) => copiedFrame.id <= id
      PROVE  Accounted(id, S)'
  <2>1. IsH264Frame(copiedFrame) => lastShown # id
    BY <1>2, OrderFacts DEF OrderInv, HandOrdered
  <2> QED
    BY <1>1, <1>2, <2>1 DEF Accounted
<1>3. FlushOvertakes' /\ HandConnected'
  BY <1>1, NoFrameKind DEF FlushOvertakes, HandConnected
<1>4. QueueConnected'
  <2> SUFFICES ASSUME ~Draining, NEW i \in Positions, queue[i].kind = "P"
               PROVE  Accounted(queue[i].prev, 1 .. i - 1)'
    BY <1>1 DEF QueueConnected, Draining, Positions
  <2>1. Accounted(queue[i].prev, 1 .. i - 1)
    BY <1>1 DEF ConnectInv, QueueConnected
  <2>2. IsH264Frame(copiedFrame) => copiedFrame.id <= queue[i].prev
    BY DEF OrderInv, QueueOrdered, IsH264Frame
  <2>3. queue[i].prev \in Nat
    BY OrderFacts
  <2> DEFINE before == queue[i].prev
  <2>4. before' = before
    BY <1>1
  <2> HIDE DEF before
  <2>5. Accounted(before, 1 .. i - 1)'
    BY <1>2, <2>1, <2>2, <2>3, <2>4 DEF before
  <2> QED
    BY <2>5 DEF before
<1>5. SourceConnected'
  <2>1. ASSUME NEW q \in Producers, IsVideo(q)
        PROVE  /\ LastBefore(q)' = LastBefore(q) /\ LastBefore(q) \in Nat
               /\ IsH264Frame(copiedFrame) => copiedFrame.id <= LastBefore(q)
    BY <1>1, <2>1, OrderFacts DEF LastBefore, Busy, OrderInv, SourceOrdered
  <2>2. ASSUME NEW q \in Producers, IsVideo(q),
               Accounted(LastBefore(q), Positions)
        PROVE  Accounted(LastBefore(q), Positions)'
    BY <1>1, <1>2, <2>1, <2>2 DEF Accounted, Positions
  <2> QED
    BY <1>1, <2>2 DEF ConnectInv, SourceConnected
<1>6. PConnected'
  <2> SUFFICES ASSUME NEW q \in Producers, frame[q].kind = "P",
                      producerAt[q] \in {"deciding", "adding"}
               PROVE  Accounted(frame[q].prev, Positions)'
    BY <1>1 DEF PConnected
  <2>1. IsVideo(q) /\ LastBefore(q) = frame[q].prev
    BY VideoFrame DEF LastBefore, Busy, IsH264Frame
  <2>2. /\ IsH264Frame(copiedFrame) => copiedFrame.id <= frame[q].prev
        /\ frame[q].prev \in Nat
    BY <2>1, OrderFacts DEF OrderInv, SourceOrdered
  <2>3. Accounted(frame[q].prev, Positions)
    BY DEF ConnectInv, PConnected
  <2> QED
    BY <1>1, <1>2, <2>2, <2>3 DEF Accounted, Positions
<1> QED
  BY <1>3, <1>4, <1>5, <1>6 DEF ConnectInv

LEMMA ConnectInductive ==
  ASSUME OneVideoThread
  PROVE  IInv /\ WaitInv /\ OrderInv /\ ConnectInv /\ [Next]_vars => ConnectInv'
<1> SUFFICES ASSUME IInv, WaitInv, OrderInv, ConnectInv, [Next]_vars
             PROVE  ConnectInv'
  OBVIOUS
<1> USE DEF queueVars, loopVars, genVars
<1>1. ASSUME NEW p \in Producers, CallTryEnqueue(p) \/ InTryEnqueue(p)
      PROVE  ConnectInv'
  BY <1>1, CallTryEnqueueKeepsConnect, LockKeepsConnect, DecideKeepsConnect,
     MakeRoomKeepsConnect, MakeRoomFailsKeepsConnect, DrainKeepsConnect,
     DrainEndsKeepsConnect, TryEnqueueCopiedKeepsConnect DEF InTryEnqueue
<1>2. ASSUME NEW c \in Threads, CallDispose(c) \/ InDispose(c)
      PROVE  ConnectInv'
  <2>1. /\ UNCHANGED <<queue, copiedFrame, lastShown, lastH264Frame, frame,
                       producerAt, refused, waitForH264IFrame, loopAt,
                       overtaken>>
        /\ disposed => disposed'
    BY <1>2 DEF CallDispose, InDispose, CompleteAdding, Joined
  <2> QED
    BY <2>1, QuietConnect
<1>3. CASE DispatchLoop
  <2>1. CASE LoopStarts \/ CallHandler \/ LoopEnds
    <3>1. /\ UNCHANGED <<queue, copiedFrame, lastShown, lastH264Frame, frame,
                         producerAt, refused, waitForH264IFrame, disposed,
                         overtaken>>
          /\ loopAt # "claimed" /\ loopAt' # "claimed"
      BY <2>1 DEF LoopStarts, CallHandler, LoopEnds, LoopStep
    <3> QED
      BY <3>1, QuietConnect
  <2>2. CASE Claim
    <3>1. /\ UNCHANGED <<queue, copiedFrame, lastShown, lastH264Frame, frame,
                         producerAt, refused, waitForH264IFrame, disposed>>
          /\ loopAt # "claimed" /\ copiedFrame = NoFrame
          /\ overtaken' = Flushing
      BY <2>2 DEF Claim, LoopStep, IInv, LoopHoldsFrame
    <3> QED
      BY <3>1, QuietConnect
  <2> QED
    BY <1>3, <2>1, <2>2, DequeueKeepsConnect, HandlerEndsKeepsConnect
       DEF DispatchLoop
<1>4. CASE UNCHANGED vars
  BY <1>4, QuietConnect DEF vars
<1> QED
  BY <1>1, <1>2, <1>3, <1>4 DEF Next

\* A broken chain ends with its flush (RawFrameDispatcher.cs:50-81): a P-frame
\* reaches the handler without the frame it depends on only if TryAdd refused
\* a frame of its chain, or a flush and the dispatch thread emptied the queue
\* at the same time.
THEOREM DamagedChainsAreFlushed ==
  ASSUME OneVideoThread
  PROVE  Spec => []ChainsEndWithAFlush
<1>1. IInv /\ OrderInv /\ ConnectInv => DamageNeedsARace
  <2> SUFFICES ASSUME IInv, OrderInv, ConnectInv, copiedFrame.kind = "P",
                      ~overtaken, copiedFrame.prev # lastShown
               PROVE  \E id \in refused : lastShown < id /\ id < copiedFrame.id
    BY DEF DamageNeedsARace
  <2>1. copiedFrame.prev \in refused
    BY DEF ConnectInv, HandConnected
  <2>2. lastShown < copiedFrame.prev /\ copiedFrame.prev < copiedFrame.id
    BY OrderFacts DEF OrderInv, HandOrdered, IsH264Frame
  <2> QED
    BY <2>1, <2>2
<1>2. DamageNeedsARace /\ WaitingMeansFlushed => ChainsEndWithAFlush
  BY DEF ChainsEndWithAFlush
<1>3. Init => OrderInv /\ ConnectInv
  BY OrderFirst, ConnectFirst
<1>4. /\ IInv /\ WaitInv /\ OrderInv /\ ConnectInv /\ [Next]_vars
            => (OrderInv /\ ConnectInv)'
  BY OrderInductive, ConnectInductive
<1> QED
  BY <1>1, <1>2, <1>3, <1>4, Invariance, WaitsInvariant, WaitingIsFlushed, PTL
     DEF Spec
=============================================================================
