------------------------- MODULE RawFrameDispatcher -------------------------
(***************************************************************************)
(* Utils/RawFrameDispatcher.cs: receive threads call TryEnqueue, one       *)
(* dispatch thread takes the frames out of a bounded BlockingCollection    *)
(* and calls the application's handler, any thread (the dispatch thread    *)
(* too, from inside the handler) calls Dispose.                            *)
(*                                                                         *)
(* A BlockingCollection is a ConcurrentQueue between two semaphores: an    *)
(* add waits for a free slot and releases an occupied one, a take waits    *)
(* for an occupied slot, dequeues, and only then releases a free one.      *)
(* Count is the value of the occupied semaphore.  The three steps of the   *)
(* dispatch thread's take are separate actions.                            *)
(***************************************************************************)
EXTENDS Naturals, Sequences, FiniteSets

CONSTANTS
  Producers,        \* receive threads
  Closers,          \* application threads that call Dispose
  DispatchThread,
  KindsOf,          \* the kinds of frame each producer generates
  MaxQueuedFrames,
  MaxFrames,        \* bound on the frames generated
  None

ASSUME ProducersAssumption ==
  /\ DispatchThread \notin Closers
  /\ None \notin Producers
ASSUME KindsAssumption == KindsOf \in [Producers -> SUBSET {"I", "P", "other"}]
ASSUME CapacityAssumption == MaxQueuedFrames \in Nat /\ MaxQueuedFrames > 1
ASSUME BoundAssumption == MaxFrames \in Nat

VARIABLES
  queue,              \* _queue's ConcurrentQueue
  freeSlots,          \* _queue's two semaphores
  occupiedSlots,
  addingCompleted,    \* _queue.IsAddingCompleted
  disposed,           \* _disposed
  waitForH264IFrame,  \* _waitForH264IFrame
  enqueueLock,        \* the producer that holds _enqueueLock
  producerAt,         \* where each producer is in TryEnqueue
  frame,              \* its argument
  closerAt,           \* where each thread is in Dispose
  loopAt,             \* where the dispatch thread is in DispatchLoop
  copiedFrame,        \* the frame it took
  generated,          \* the number of frames generated
  lastH264Frame,      \* the last H.264 frame generated
  rented,             \* frames whose copy holds a pooled buffer
  lastShown,          \* the H.264 frame the handler saw before copiedFrame
  refused,            \* H.264 frames TryAdd found no free slot for
  overtaken           \* the dispatch thread claimed copiedFrame during a flush,
                      \* or a flush took frames between its claim and dequeue

queueVars == <<queue, freeSlots, occupiedSlots>>
loopVars == <<loopAt, copiedFrame, lastShown>>
genVars == <<generated, lastH264Frame>>
vars == <<queueVars, loopVars, genVars, addingCompleted, disposed,
          waitForH264IFrame, enqueueLock, producerAt, frame, closerAt, rented,
          refused, overtaken>>

\* A frame: its number in the order of generation, its kind, and the H.264
\* frame before it, which a P-frame needs to be decoded.
Frame ==
  [id : 1 .. MaxFrames, kind : {"I", "P", "other"}, prev : 0 .. MaxFrames]
NoFrame == [id |-> 0, kind |-> "none", prev |-> 0]

IsH264Frame(f) == f.kind \in {"I", "P"}
IsH264IFrame(f) == f.kind = "I"

Threads == Closers \union {DispatchThread}

Init ==
  /\ queue = <<>> /\ freeSlots = MaxQueuedFrames /\ occupiedSlots = 0
  /\ addingCompleted = FALSE /\ disposed = FALSE
  /\ waitForH264IFrame = FALSE
  /\ enqueueLock = None
  /\ producerAt = [p \in Producers |-> "idle"]
  /\ frame = [p \in Producers |-> NoFrame]
  /\ closerAt = [c \in Threads |-> "idle"]
  /\ loopAt = "starting" /\ copiedFrame = NoFrame
  /\ generated = 0 /\ lastH264Frame = 0
  /\ rented = {} /\ lastShown = 0 /\ refused = {} /\ overtaken = FALSE

(***************************************************************************)
(* TryEnqueue                                                              *)
(***************************************************************************)
\* The semaphore value that stands for _queue.Count.
Count == occupiedSlots

IsFull == Count >= MaxQueuedFrames

\* A mutant of Return: the lock is kept.
ReturnHoldingLock(p) ==
  /\ producerAt' = [producerAt EXCEPT ![p] = "idle"]
  /\ enqueueLock' = p

Return(p) ==
  /\ producerAt' = [producerAt EXCEPT ![p] = "idle"]
  /\ enqueueLock' = None

\* A parser generated a frame; TryEnqueue returns at once when disposed.
CallTryEnqueue(p) ==
  /\ producerAt[p] = "idle"
  /\ generated < MaxFrames
  /\ generated' = generated + 1
  /\ \E kind \in KindsOf[p] :
       LET f == [id |-> generated', kind |-> kind, prev |-> lastH264Frame]
       IN  /\ frame' = [frame EXCEPT ![p] = f]
           /\ lastH264Frame' = IF IsH264Frame(f) THEN f.id ELSE lastH264Frame
  /\ producerAt' = [producerAt EXCEPT ![p] = IF disposed THEN @ ELSE "locking"]
  /\ UNCHANGED <<queueVars, loopVars, addingCompleted, disposed, enqueueLock,
                 waitForH264IFrame, closerAt, rented, refused, overtaken>>

\* A mutant of TurnsAway: disposal is not tested again under the lock.
TurnsAwayUnrechecked(f) == waitForH264IFrame /\ f.kind = "P"

TurnsAway(f) == disposed \/ (waitForH264IFrame /\ f.kind = "P")

\* lock (_enqueueLock) and the tests made first thing under it.
Lock(p) ==
  /\ producerAt[p] = "locking"
  /\ enqueueLock = None
  /\ \/ /\ TurnsAway(frame[p])
        /\ Return(p)
     \/ /\ ~TurnsAway(frame[p])
        /\ producerAt' = [producerAt EXCEPT ![p] = "deciding"]
        /\ enqueueLock' = p
  /\ UNCHANGED <<queueVars, loopVars, genVars, addingCompleted, disposed,
                 waitForH264IFrame, frame, closerAt, rented, refused,
                 overtaken>>

\* A mutant of BeginFlush: the queue keeps its frames.
BeginFlushKeepsQueue(p) ==
  /\ waitForH264IFrame' = TRUE
  /\ producerAt' = [producerAt EXCEPT ![p] = "adding"]

BeginFlush(p) ==
  /\ waitForH264IFrame' = TRUE
  /\ producerAt' = [producerAt EXCEPT ![p] = "draining"]

Decide(p) ==
  /\ producerAt[p] = "deciding"
  /\ \/ /\ IsFull /\ IsH264Frame(frame[p])
        /\ BeginFlush(p)
     \/ /\ IsFull /\ ~IsH264Frame(frame[p])
        /\ producerAt' = [producerAt EXCEPT ![p] = "makingRoom"]
        /\ UNCHANGED waitForH264IFrame
     \/ /\ ~IsFull
        /\ producerAt' = [producerAt EXCEPT ![p] = "adding"]
        /\ UNCHANGED waitForH264IFrame
  /\ UNCHANGED <<queueVars, loopVars, genVars, addingCompleted, disposed,
                 enqueueLock, frame, closerAt, rented, refused, overtaken>>

Flushing == \E p \in Producers : producerAt[p] \in {"makingRoom", "draining"}

\* A mutant of AfterDispose: the buffer is not returned to the pool.
AfterDisposeLeaks(f) == rented

\* The buffers in use after f's copy is disposed.
AfterDispose(f) == rented \ {f.id}

\* A successful _queue.TryTake of a producer; the copy is disposed.
TakeAndDispose ==
  /\ occupiedSlots > 0
  /\ occupiedSlots' = occupiedSlots - 1
  /\ queue' = Tail(queue)
  /\ freeSlots' = freeSlots + 1
  /\ rented' = AfterDispose(Head(queue))
  /\ overtaken' = (overtaken \/ loopAt = "claimed")

\* A full queue and a frame that is not H.264: the oldest frame makes room,
\* and if that one was H.264 its chain goes with it.
MakeRoom(p) ==
  /\ producerAt[p] = "makingRoom"
  /\ TakeAndDispose
  /\ IF IsH264Frame(Head(queue))
       THEN BeginFlush(p)
       ELSE /\ producerAt' = [producerAt EXCEPT ![p] = "adding"]
            /\ UNCHANGED waitForH264IFrame
  /\ UNCHANGED <<loopVars, genVars, addingCompleted, disposed, enqueueLock,
                 frame, closerAt, refused>>

\* The dispatch thread emptied the queue meanwhile: TryTake fails.
MakeRoomFails(p) ==
  /\ producerAt[p] = "makingRoom"
  /\ occupiedSlots = 0
  /\ producerAt' = [producerAt EXCEPT ![p] = "adding"]
  /\ UNCHANGED <<queueVars, loopVars, genVars, addingCompleted, disposed,
                 enqueueLock, waitForH264IFrame, frame, closerAt, rented,
                 refused, overtaken>>

\* DrainQueue, one frame of it.
Drain(p) ==
  /\ producerAt[p] = "draining"
  /\ TakeAndDispose
  /\ UNCHANGED <<loopVars, genVars, addingCompleted, disposed, enqueueLock,
                 waitForH264IFrame, producerAt, frame, closerAt, refused>>

\* The queue is empty: an I-frame starts a new chain, others are dropped.
DrainEnds(p) ==
  /\ producerAt[p] = "draining"
  /\ occupiedSlots = 0
  /\ IF IsH264IFrame(frame[p])
       THEN /\ waitForH264IFrame' = FALSE
            /\ producerAt' = [producerAt EXCEPT ![p] = "adding"]
            /\ UNCHANGED enqueueLock
       ELSE Return(p) /\ UNCHANGED waitForH264IFrame
  /\ UNCHANGED <<queueVars, loopVars, genVars, addingCompleted, disposed,
                 frame, closerAt, rented, refused, overtaken>>

SlotIsFree == freeSlots > 0

\* TryEnqueueCopied: the frame is copied and added if a slot is free at this
\* moment; a copy that is not added is disposed.
Added(p) ==
  /\ ~addingCompleted /\ SlotIsFree
  /\ freeSlots' = freeSlots - 1
  /\ queue' = Append(queue, frame[p])
  /\ occupiedSlots' = occupiedSlots + 1
  /\ rented' = rented \union {frame[p].id}
  /\ waitForH264IFrame' = (waitForH264IFrame /\ ~IsH264IFrame(frame[p]))
  /\ UNCHANGED refused

NotAdded(p) ==
  /\ addingCompleted \/ ~SlotIsFree
  /\ refused' = IF IsH264Frame(frame[p]) THEN refused \union {frame[p].id}
                                         ELSE refused
  /\ UNCHANGED <<queueVars, rented, waitForH264IFrame>>

TryEnqueueCopied(p) ==
  /\ producerAt[p] = "adding"
  /\ Added(p) \/ NotAdded(p)
  /\ Return(p)
  /\ UNCHANGED <<loopVars, genVars, addingCompleted, disposed, frame, closerAt,
                 overtaken>>

(***************************************************************************)
(* Dispose                                                                 *)
(***************************************************************************)
IsFirstDispose(c) == ~disposed

\* Only the first call goes on.  The dispatch thread is in Dispose only from
\* inside the handler.
CallDispose(c) ==
  /\ closerAt[c] = "idle"
  /\ c = DispatchThread => loopAt = "handling"
  /\ disposed' = TRUE
  /\ closerAt' = [closerAt EXCEPT ![c] =
                                IF IsFirstDispose(c) THEN "locking"
                                                     ELSE "returned"]
  /\ UNCHANGED <<queueVars, loopVars, genVars, addingCompleted, enqueueLock,
                 waitForH264IFrame, producerAt, frame, rented, refused,
                 overtaken>>

CompleteAdding(c) ==
  /\ closerAt[c] = "locking"
  /\ enqueueLock = None
  /\ addingCompleted' = TRUE
  /\ closerAt' = [closerAt EXCEPT ![c] = IF c = DispatchThread THEN "returned"
                                                               ELSE "joining"]
  /\ UNCHANGED <<queueVars, loopVars, genVars, disposed, enqueueLock,
                 waitForH264IFrame, producerAt, frame, rented, refused,
                 overtaken>>

\* _dispatchTask.Wait returns when the loop ended or after one second.
Joined(c) ==
  /\ closerAt[c] = "joining"
  /\ closerAt' = [closerAt EXCEPT ![c] = "returned"]
  /\ UNCHANGED <<queueVars, loopVars, genVars, addingCompleted, disposed,
                 enqueueLock, waitForH264IFrame, producerAt, frame, rented,
                 refused, overtaken>>

(***************************************************************************)
(* DispatchLoop                                                            *)
(***************************************************************************)
LoopStep(from, to) ==
  /\ loopAt = from
  /\ loopAt' = to
  /\ UNCHANGED <<genVars, addingCompleted, disposed, enqueueLock,
                 waitForH264IFrame, producerAt, frame, closerAt, refused>>

LoopStarts ==
  /\ LoopStep("starting", "waiting")
  /\ UNCHANGED <<queueVars, copiedFrame, lastShown, rented, overtaken>>

\* The occupied semaphore is taken: Count is lower, no slot is free yet.
Claim ==
  /\ LoopStep("waiting", "claimed")
  /\ occupiedSlots > 0
  /\ occupiedSlots' = occupiedSlots - 1
  /\ overtaken' = Flushing
  /\ UNCHANGED <<queue, freeSlots, copiedFrame, lastShown, rented>>

Dequeue ==
  /\ LoopStep("claimed", "dequeued")
  /\ copiedFrame' = Head(queue)
  /\ queue' = Tail(queue)
  /\ UNCHANGED <<freeSlots, occupiedSlots, lastShown, rented, overtaken>>

\* The free semaphore is released and the handler called.
CallHandler ==
  /\ LoopStep("dequeued", "handling")
  /\ freeSlots' = freeSlots + 1
  /\ UNCHANGED <<queue, occupiedSlots, copiedFrame, lastShown, rented,
                 overtaken>>

\* It returns or throws; the copy is disposed either way.
HandlerEnds ==
  /\ LoopStep("handling", "waiting")
  /\ closerAt[DispatchThread] # "locking"
  /\ lastShown' = IF IsH264Frame(copiedFrame) THEN copiedFrame.id ELSE lastShown
  /\ rented' = AfterDispose(copiedFrame)
  /\ copiedFrame' = NoFrame
  /\ UNCHANGED <<queueVars, overtaken>>

\* A mutant of IsCompleted: the frames still queued are abandoned.
IsCompletedEarly == addingCompleted

IsCompleted == addingCompleted /\ occupiedSlots = 0

\* GetConsumingEnumerable ends when adding is completed and nothing is left.
LoopEnds ==
  /\ LoopStep("waiting", "ended")
  /\ IsCompleted
  /\ UNCHANGED <<queueVars, copiedFrame, lastShown, rented, overtaken>>

InTryEnqueue(p) ==
  \/ Lock(p) \/ Decide(p) \/ MakeRoom(p) \/ MakeRoomFails(p)
  \/ Drain(p) \/ DrainEnds(p) \/ TryEnqueueCopied(p)

InDispose(c) == CompleteAdding(c) \/ Joined(c)

DispatchLoop ==
  LoopStarts \/ Claim \/ Dequeue \/ CallHandler \/ HandlerEnds \/ LoopEnds

Next ==
  \/ \E p \in Producers : CallTryEnqueue(p) \/ InTryEnqueue(p)
  \/ \E c \in Threads : CallDispose(c) \/ InDispose(c)
  \/ DispatchLoop

Spec == Init /\ [][Next]_vars

\* Threads that can run do run: the operating system schedules them, the lock
\* and the semaphores are released by code that never waits, and the
\* application's handler is assumed to return.
FairSpec ==
  /\ Spec
  /\ \A p \in Producers : WF_vars(InTryEnqueue(p))
  /\ \A c \in Threads : WF_vars(InDispose(c))
  /\ WF_vars(DispatchLoop)

(***************************************************************************)
(* Properties                                                              *)
(***************************************************************************)
TypeOK ==
  /\ queue \in Seq(Frame)
  /\ freeSlots \in Nat /\ occupiedSlots \in Nat
  /\ addingCompleted \in BOOLEAN /\ disposed \in BOOLEAN
  /\ waitForH264IFrame \in BOOLEAN
  /\ enqueueLock \in Producers \union {None}
  /\ producerAt \in [Producers -> {"idle", "locking", "deciding", "makingRoom",
                                   "draining", "adding"}]
  /\ frame \in [Producers -> Frame \union {NoFrame}]
  /\ closerAt \in [Threads -> {"idle", "locking", "joining", "returned"}]
  /\ loopAt \in {"starting", "waiting", "claimed", "dequeued", "handling",
                 "ended"}
  /\ copiedFrame \in Frame \union {NoFrame}
  /\ generated \in 0 .. MaxFrames /\ lastH264Frame \in 0 .. generated
  /\ rented \subseteq 1 .. MaxFrames /\ lastShown \in 0 .. MaxFrames
  /\ refused \subseteq 1 .. MaxFrames /\ overtaken \in BOOLEAN

\* A slot is free, occupied, or being given back by the dispatch thread, and
\* every item of the queue is counted by the semaphore or claimed by it.
SlotsAddUp ==
  /\ freeSlots + occupiedSlots +
       (IF loopAt \in {"claimed", "dequeued"} THEN 1 ELSE 0) = MaxQueuedFrames
  /\ Len(queue) = occupiedSlots + (IF loopAt = "claimed" THEN 1 ELSE 0)

\* TryAdd finds no slot for a frame that TryEnqueue decided to take
\* (RawFrameDispatcher.cs:151) only while the dispatch thread has taken a
\* frame and not yet given its slot back - never after a flush (:57, :73).
RefusedOnlyInTheWindow ==
  \A p \in Producers :
    producerAt[p] = "adding" /\ freeSlots = 0 =>
      /\ loopAt \in {"claimed", "dequeued"}
      /\ occupiedSlots = MaxQueuedFrames - 1

\* CompleteAdding never lands inside a TryEnqueue: the InvalidOperationException
\* RawFrameDispatcher.cs:85 and :159 guard against is never thrown.
CompleteAddingExcludesEnqueue ==
  \A p \in Producers :
    producerAt[p] \notin {"idle", "locking"} => ~addingCompleted

\* TryAdd neither throws nor refuses a frame, but in that one window.
TryAddIsSafe == RefusedOnlyInTheWindow /\ CompleteAddingExcludesEnqueue

\* Every buffer taken from the pool for a copy is with a queued frame or with
\* the frame in the handler, and no frame there has lost its buffer
\* (RawFrameDispatcher.cs:79, :134, :142, :164).
NoBufferLost ==
  rented = {queue[i].id : i \in 1 .. Len(queue)} \union
             (IF copiedFrame = NoFrame THEN {} ELSE {copiedFrame.id})

\* The comment at RawFrameDispatcher.cs:54-56: the handler never sees a P-frame
\* unless it saw the frame it depends on.
ChainNeverDamaged ==
  loopAt = "handling" /\ copiedFrame.kind = "P" =>
    copiedFrame.prev = lastShown

\* A chain reaches the handler damaged only through one of two races: TryAdd
\* found no slot for one of its frames, or a flush and the dispatch thread
\* emptied the queue at the same time.
DamageNeedsARace ==
  loopAt = "handling" /\ copiedFrame.kind = "P" =>
    \/ copiedFrame.prev = lastShown
    \/ \E id \in refused : lastShown < id /\ id < copiedFrame.id
    \/ overtaken

\* A dispatcher that waits for an I-frame (RawFrameDispatcher.cs:57, :72) keeps
\* no P-frame of the broken chain, but for one the dispatch thread had claimed.
WaitingMeansFlushed ==
  waitForH264IFrame /\ ~Flushing =>
    \A i \in 1 .. Len(queue) :
      queue[i].kind = "P" => i = 1 /\ loopAt = "claimed"

\* A broken chain ends with its flush (RawFrameDispatcher.cs:50-81): only the
\* two races let more of it through.
ChainsEndWithAFlush == DamageNeedsARace /\ WaitingMeansFlushed

\* After Dispose the dispatch loop hands over what was queued and ends.
DisposeEndsTheLoop == disposed ~> loopAt = "ended"

\* TryEnqueue returns, whatever the dispatch thread and Dispose do.
TryEnqueueReturns ==
  \A p \in Producers : producerAt[p] # "idle" ~> producerAt[p] = "idle"

\* Producers, Dispose and the dispatch thread, which the handler may call
\* Dispose from, do not wait for each other for ever.
NobodyIsStuck == DisposeEndsTheLoop /\ TryEnqueueReturns

\* The dispatcher is a FrameChannel.
Channel == INSTANCE FrameChannel WITH
  Capacity <- MaxQueuedFrames,
  waiting <- queue,
  inHand <- copiedFrame,
  flushing <- Flushing,
  closed <- addingCompleted,
  ended <- loopAt = "ended"

IsAFrameChannel == Channel!Spec
=============================================================================
