------------------------- MODULE RtpClient_proofs --------------------------
(***************************************************************************)
(* Theorems about RtpClient, for any number of receives, datagrams and     *)
(* threads that call Dispose.                                              *)
(***************************************************************************)
EXTENDS RtpClient, FiniteSetTheorems, TLAPS

(***************************************************************************)
(* The inductive invariant.  A dispatcher keeps its owner because a        *)
(* Dispose that is to take one holds none yet (ClosersHold); frames stay   *)
(* intact because, as long as no receive was abandoned, the only receive   *)
(* under way is the one the call waits for (OneActive).                    *)
(***************************************************************************)
ClosersHold == \A c \in Closers : closerAt[c] # "disposing" => closing[c] = Null

OwnersOK == ClosersHold /\ DispatchersHaveOwners

Active(r) == receiveAt[r] \notin {"unused", "done", "failed"}

OneActive ==
  ~abandoned => \A r \in Receives : Active(r) => r = current /\ InCall

BufferIntact ==
  ~abandoned =>
    \A r \in Receives : receiveAt[r] = "received" => receiveBuffer = datagram[r]

StableOK == OneActive /\ BufferIntact /\ StableUnlessAbandoned

IInv == TypeOK /\ OwnersOK /\ StableOK

LEMMA Initially == Init => IInv
<1> SUFFICES ASSUME Init PROVE IInv
  OBVIOUS
<1>1. TypeOK
  <2>1. /\ arrived \in 0 .. MaxDatagrams
        /\ receiveBuffer \in 0 .. MaxDatagrams /\ storage \in 0 .. MaxDatagrams
        /\ datagram \in [Receives -> 0 .. MaxDatagrams]
        /\ frameOf \in [Receives -> 0 .. MaxDatagrams]
        /\ accepted \in [Receives -> SUBSET (0 .. MaxDatagrams)]
    BY BoundsAssumption DEF Init
  <2>2. /\ receiveAt \in [Receives -> {"unused"}]
        /\ closerAt \in [Closers -> {"idle"}]
        /\ closing \in [Closers -> {Null}] /\ using \in [Receives -> {Null}]
        /\ dispatcher \in [Receives -> {"none"}]
    BY DEF Init
  <2> QED
    BY <2>1, <2>2 DEF Init, TypeOK
<1>2. OwnersOK
  BY DEF Init, OwnersOK, ClosersHold, DispatchersHaveOwners
<1>3. StableOK
  BY DEF Init, StableOK, OneActive, Active, BufferIntact,
         StableUnlessAbandoned, FrameIsStable, Delivering
<1> QED
  BY <1>1, <1>2, <1>3 DEF IInv

LEMMA TypeStep == IInv /\ [Next]_vars => TypeOK'
<1> SUFFICES ASSUME IInv, [Next]_vars PROVE TypeOK'
  OBVIOUS
<1> USE DEF IInv, TypeOK, Delivering,
           vars, connectVars, callVars, receiveVars, dataVars, disposeVars,
           dispatcherVars, counters
<1>1. CASE OpenSocket
  BY <1>1 DEF OpenSocket
<1>2. CASE AssignClient
  BY <1>2 DEF AssignClient
<1>3. CASE SetupConnection
  BY <1>3 DEF SetupConnection
<1>4. CASE SetupFails
  BY <1>4 DEF SetupFails
<1>5. CASE CallReturns
  BY <1>5 DEF CallReturns
<1>6. CASE ReceiveTimesOut
  BY <1>6 DEF ReceiveTimesOut
<1>7. CASE CloseOnCancel
  BY <1>7 DEF CloseOnCancel
<1>8. CASE CancelledCallReturns
  BY <1>8 DEF CancelledCallReturns
<1>9. CASE Cancel
  BY <1>9 DEF Cancel
<1>10. ASSUME NEW r \in Receives, ReceiveAsync(r) PROVE TypeOK'
  BY <1>10 DEF ReceiveAsync, StartReceive
<1>11. ASSUME NEW r \in Receives, ReceiveLoopAsync(r) PROVE TypeOK'
  BY <1>11 DEF ReceiveLoopAsync, StartReceive
<1>12. ASSUME NEW r \in Receives, Arrive(r) PROVE TypeOK'
  <2>1. /\ arrived' \in 0 .. MaxDatagrams /\ receiveBuffer' \in 0 .. MaxDatagrams
        /\ datagram' \in [Receives -> 0 .. MaxDatagrams]
    BY <1>12, BoundsAssumption DEF Arrive
  <2> QED
    BY <1>12, <2>1 DEF Arrive
<1>13. ASSUME NEW r \in Receives, ReceiveFails(r) PROVE TypeOK'
  BY <1>13 DEF ReceiveFails
<1>14. ASSUME NEW r \in Receives, Process(r) PROVE TypeOK'
  BY <1>14 DEF Process
<1>15. ASSUME NEW r \in Receives, Finish(r) PROVE TypeOK'
  BY <1>15 DEF Finish
<1>16. ASSUME NEW r \in Receives, DeliverInline(r) PROVE TypeOK'
  BY <1>16 DEF DeliverInline, DeliveryStep
<1>17. ASSUME NEW r \in Receives, CheckDisposed(r) PROVE TypeOK'
  BY <1>17 DEF CheckDisposed, DeliveryStep, Drop
<1>18. ASSUME NEW r \in Receives, ReadDispatcher(r) PROVE TypeOK'
  BY <1>18 DEF ReadDispatcher, DeliveryStep
<1>19. ASSUME NEW r \in Receives, CreateDispatcher(r) PROVE TypeOK'
  BY <1>19 DEF CreateDispatcher, DeliveryStep
<1>20. ASSUME NEW r \in Receives, RecheckDisposed(r) PROVE TypeOK'
  BY <1>20 DEF RecheckDisposed, DeliveryStep, Drop
<1>21. ASSUME NEW r \in Receives, Publish(r) PROVE TypeOK'
  BY <1>21 DEF Publish, DeliveryStep, PublishedOver
<1>22. ASSUME NEW r \in Receives, DisposeLoser(r) PROVE TypeOK'
  BY <1>22 DEF DisposeLoser, DeliveryStep, LoserState
<1>23. ASSUME NEW r \in Receives, TryEnqueue(r) PROVE TypeOK'
  BY <1>23 DEF TryEnqueue, DeliveryStep, Drop
<1>24. ASSUME NEW c \in Closers, CallDispose(c) PROVE TypeOK'
  BY <1>24 DEF CallDispose, DisposeStep
<1>25. ASSUME NEW c \in Closers, TakeDispatcher(c) PROVE TypeOK'
  BY <1>25 DEF TakeDispatcher, DisposeStep
<1>26. ASSUME NEW c \in Closers, DisposeDispatcher(c) PROVE TypeOK'
  BY <1>26 DEF DisposeDispatcher, DisposeStep
<1>27. ASSUME NEW c \in Closers, CloseClient(c) PROVE TypeOK'
  BY <1>27 DEF CloseClient, DisposeStep
<1>28. CASE UNCHANGED vars
  BY <1>28
<1> QED
  BY <1>1, <1>2, <1>3, <1>4, <1>5, <1>6, <1>7, <1>8, <1>9, <1>10, <1>11, <1>12, <1>13, <1>14, <1>15, <1>16, <1>17, <1>18, <1>19, <1>20, <1>21, <1>22, <1>23, <1>24, <1>25, <1>26, <1>27, <1>28
     DEF Next, Connect, Call, ReceiveStep, Deliver, Dispose

LEMMA OwnersStep == IInv /\ [Next]_vars => OwnersOK'
<1> SUFFICES ASSUME IInv, [Next]_vars PROVE OwnersOK'
  OBVIOUS
<1> USE DEF IInv, OwnersOK, ClosersHold, DispatchersHaveOwners, TypeOK, Null,
           Receives, vars, connectVars, callVars, receiveVars, dataVars, disposeVars,
           dispatcherVars, counters
<1>1. CASE OpenSocket
  BY <1>1 DEF OpenSocket
<1>2. CASE AssignClient
  BY <1>2 DEF AssignClient
<1>3. CASE SetupConnection
  BY <1>3 DEF SetupConnection
<1>4. CASE SetupFails
  BY <1>4 DEF SetupFails
<1>5. CASE CallReturns
  BY <1>5 DEF CallReturns
<1>6. CASE ReceiveTimesOut
  BY <1>6 DEF ReceiveTimesOut
<1>7. CASE CloseOnCancel
  BY <1>7 DEF CloseOnCancel
<1>8. CASE CancelledCallReturns
  BY <1>8 DEF CancelledCallReturns
<1>9. CASE Cancel
  BY <1>9 DEF Cancel
<1>10. ASSUME NEW r \in Receives, ReceiveAsync(r) PROVE OwnersOK'
  BY <1>10 DEF ReceiveAsync, StartReceive
<1>11. ASSUME NEW r \in Receives, ReceiveLoopAsync(r) PROVE OwnersOK'
  BY <1>11 DEF ReceiveLoopAsync, StartReceive
<1>12. ASSUME NEW r \in Receives, Arrive(r) PROVE OwnersOK'
  BY <1>12 DEF Arrive
<1>13. ASSUME NEW r \in Receives, ReceiveFails(r) PROVE OwnersOK'
  BY <1>13 DEF ReceiveFails
<1>14. ASSUME NEW r \in Receives, Process(r) PROVE OwnersOK'
  <2>1. /\ receiveAt[r] = "received"
        /\ \E at : receiveAt' = [receiveAt EXCEPT ![r] = at]
        /\ UNCHANGED <<dispatcher, frameDispatcher, closing, closerAt>>
    BY <1>14 DEF Process
  <2>2. \A d \in Receives : d # r => receiveAt'[d] = receiveAt[d]
    BY <2>1
  <2>3. ClosersHold'
    BY <2>1
  <2>4. ASSUME NEW d \in Receives, dispatcher'[d] = "running"
        PROVE  \/ d = frameDispatcher'
               \/ receiveAt'[d] \in {"created", "publishing", "losing"}
               \/ \E c \in Closers : closing'[c] = d
    <3>1. \/ d = frameDispatcher
          \/ receiveAt[d] \in {"created", "publishing", "losing"}
          \/ \E c \in Closers : closing[c] = d
      BY <2>1, <2>4
    <3> QED BY <2>1, <2>2, <3>1
  <2> QED BY <2>3, <2>4
<1>15. ASSUME NEW r \in Receives, Finish(r) PROVE OwnersOK'
  BY <1>15 DEF Finish
<1>16. ASSUME NEW r \in Receives, DeliverInline(r) PROVE OwnersOK'
  BY <1>16 DEF DeliverInline, DeliveryStep
<1>17. ASSUME NEW r \in Receives, CheckDisposed(r) PROVE OwnersOK'
  <2>1. ClosersHold'
    BY <1>17 DEF CheckDisposed, DeliveryStep
  <2>2. ASSUME NEW d \in Receives, dispatcher'[d] = "running"
        PROVE  \/ d = frameDispatcher'
               \/ receiveAt'[d] \in {"created", "publishing", "losing"}
               \/ \E c \in Closers : closing'[c] = d
    <3>1. CASE d = r
      BY <1>17, <2>2, <3>1 DEF CheckDisposed, DeliveryStep
    <3>2. CASE d # r
      <4>1. /\ dispatcher' = dispatcher
            /\ frameDispatcher' = frameDispatcher
        BY <1>17, <3>2 DEF CheckDisposed, DeliveryStep, Drop
      <4>2. closing' = closing /\ receiveAt'[d] = receiveAt[d]
        BY <1>17, <3>2 DEF CheckDisposed, DeliveryStep, Drop
      <4>3. dispatcher[d] = "running"
        BY <2>2, <4>1
      <4>4. \/ d = frameDispatcher
            \/ receiveAt[d] \in {"created", "publishing", "losing"}
            \/ \E c \in Closers : closing[c] = d
        BY <4>3
      <4> QED
        BY <4>1, <4>2, <4>4
    <3> QED
      BY <3>1, <3>2
  <2> QED
    BY <2>1, <2>2
<1>18. ASSUME NEW r \in Receives, ReadDispatcher(r) PROVE OwnersOK'
  <2>1. ClosersHold'
    BY <1>18 DEF ReadDispatcher, DeliveryStep
  <2>2. ASSUME NEW d \in Receives, dispatcher'[d] = "running"
        PROVE  \/ d = frameDispatcher'
               \/ receiveAt'[d] \in {"created", "publishing", "losing"}
               \/ \E c \in Closers : closing'[c] = d
    <3>1. CASE d = r
      BY <1>18, <2>2, <3>1 DEF ReadDispatcher, DeliveryStep
    <3>2. CASE d # r
      <4>1. /\ dispatcher' = dispatcher
            /\ frameDispatcher' = frameDispatcher
        BY <1>18, <3>2 DEF ReadDispatcher, DeliveryStep
      <4>2. closing' = closing /\ receiveAt'[d] = receiveAt[d]
        BY <1>18, <3>2 DEF ReadDispatcher, DeliveryStep
      <4>3. dispatcher[d] = "running"
        BY <2>2, <4>1
      <4>4. \/ d = frameDispatcher
            \/ receiveAt[d] \in {"created", "publishing", "losing"}
            \/ \E c \in Closers : closing[c] = d
        BY <4>3
      <4> QED
        BY <4>1, <4>2, <4>4
    <3> QED
      BY <3>1, <3>2
  <2> QED
    BY <2>1, <2>2
<1>19. ASSUME NEW r \in Receives, CreateDispatcher(r) PROVE OwnersOK'
  BY <1>19 DEF CreateDispatcher, DeliveryStep
<1>20. ASSUME NEW r \in Receives, RecheckDisposed(r) PROVE OwnersOK'
  <2>1. ClosersHold'
    BY <1>20 DEF RecheckDisposed, DeliveryStep
  <2>2. ASSUME NEW d \in Receives, dispatcher'[d] = "running"
        PROVE  \/ d = frameDispatcher'
               \/ receiveAt'[d] \in {"created", "publishing", "losing"}
               \/ \E c \in Closers : closing'[c] = d
    <3>1. CASE d = r
      <4>1. \/ receiveAt' = [receiveAt EXCEPT ![r] = "publishing"]
            \/ dispatcher' = [dispatcher EXCEPT ![r] = "disposed"]
        BY <1>20 DEF RecheckDisposed, DeliveryStep
      <4>2. CASE receiveAt' = [receiveAt EXCEPT ![r] = "publishing"]
        BY <3>1, <4>2
      <4>3. CASE dispatcher' = [dispatcher EXCEPT ![r] = "disposed"]
        BY <2>2, <3>1, <4>3
      <4> QED BY <4>1, <4>2, <4>3
    <3>2. CASE d # r
      <4>1. /\ dispatcher'[d] = dispatcher[d]
            /\ frameDispatcher' = frameDispatcher
        BY <1>20, <3>2 DEF RecheckDisposed, DeliveryStep, Drop
      <4>2. closing' = closing /\ receiveAt'[d] = receiveAt[d]
        BY <1>20, <3>2 DEF RecheckDisposed, DeliveryStep, Drop
      <4>3. dispatcher[d] = "running"
        BY <2>2, <4>1
      <4>4. \/ d = frameDispatcher
            \/ receiveAt[d] \in {"created", "publishing", "losing"}
            \/ \E c \in Closers : closing[c] = d
        BY <4>3
      <4> QED
        BY <4>1, <4>2, <4>4
    <3> QED
      BY <3>1, <3>2
  <2> QED
    BY <2>1, <2>2
<1>21. ASSUME NEW r \in Receives, Publish(r) PROVE OwnersOK'
  <2>1. ClosersHold'
    BY <1>21 DEF Publish, DeliveryStep
  <2>2. ASSUME NEW d \in Receives, dispatcher'[d] = "running"
        PROVE  \/ d = frameDispatcher'
               \/ receiveAt'[d] \in {"created", "publishing", "losing"}
               \/ \E c \in Closers : closing'[c] = d
    <3>1. CASE d = r
      BY <1>21, <2>2, <3>1 DEF Publish, DeliveryStep, PublishedOver
    <3>2. CASE d # r
      <4>1. /\ dispatcher' = dispatcher
            /\ frameDispatcher # Null => frameDispatcher' = frameDispatcher
        BY <1>21, <3>2 DEF Publish, DeliveryStep, PublishedOver
      <4>2. closing' = closing /\ receiveAt'[d] = receiveAt[d]
        <5>1. CASE frameDispatcher = Null
          BY <1>21, <3>2, <5>1 DEF Publish, DeliveryStep, PublishedOver
        <5>2. CASE frameDispatcher # Null
          BY <1>21, <3>2, <5>2 DEF Publish, DeliveryStep, PublishedOver
        <5> QED
          BY <5>1, <5>2
      <4>3. dispatcher[d] = "running"
        BY <2>2, <4>1
      <4>4. \/ d = frameDispatcher
            \/ receiveAt[d] \in {"created", "publishing", "losing"}
            \/ \E c \in Closers : closing[c] = d
        BY <4>3
      <4>5. d # Null
        OBVIOUS
      <4> QED
        BY <4>1, <4>2, <4>4, <4>5
    <3> QED
      BY <3>1, <3>2
  <2> QED
    BY <2>1, <2>2
<1>22. ASSUME NEW r \in Receives, DisposeLoser(r) PROVE OwnersOK'
  BY <1>22 DEF DisposeLoser, DeliveryStep, LoserState
<1>23. ASSUME NEW r \in Receives, TryEnqueue(r) PROVE OwnersOK'
  BY <1>23 DEF TryEnqueue, DeliveryStep, Drop
<1>24. ASSUME NEW c \in Closers, CallDispose(c) PROVE OwnersOK'
  <2>1. /\ \E at \in {"returned", "taking"} : closerAt' = [closerAt EXCEPT ![c] = at]
        /\ closerAt[c] = "idle"
        /\ UNCHANGED <<receiveAt, dispatcher, frameDispatcher, closing>>
    BY <1>24 DEF CallDispose, DisposeStep
  <2>2. ClosersHold'
    BY <2>1
  <2>3. DispatchersHaveOwners'
    BY <2>1
  <2> QED BY <2>2, <2>3
<1>25. ASSUME NEW c \in Closers, TakeDispatcher(c) PROVE OwnersOK'
  BY <1>25 DEF TakeDispatcher, DisposeStep
<1>26. ASSUME NEW c \in Closers, DisposeDispatcher(c) PROVE OwnersOK'
  BY <1>26 DEF DisposeDispatcher, DisposeStep
<1>27. ASSUME NEW c \in Closers, CloseClient(c) PROVE OwnersOK'
  BY <1>27 DEF CloseClient, DisposeStep
<1>28. CASE UNCHANGED vars
  BY <1>28
<1> QED
  BY <1>1, <1>2, <1>3, <1>4, <1>5, <1>6, <1>7, <1>8, <1>9, <1>10, <1>11, <1>12, <1>13, <1>14, <1>15, <1>16, <1>17, <1>18, <1>19, <1>20, <1>21, <1>22, <1>23, <1>24, <1>25, <1>26, <1>27, <1>28
     DEF Next, Connect, Call, ReceiveStep, Deliver, Dispose

LEMMA StableStep == IInv /\ [Next]_vars => StableOK'
<1> SUFFICES ASSUME IInv, [Next]_vars PROVE StableOK'
  OBVIOUS
<1> USE DEF IInv, StableOK, OneActive, BufferIntact, StableUnlessAbandoned, FrameIsStable,
           Active, InCall, Ended, HasResult, Delivering, TypeOK,
           vars, connectVars, callVars, receiveVars, dataVars, disposeVars,
           dispatcherVars, counters
<1>1. CASE OpenSocket
  BY <1>1 DEF OpenSocket
<1>2. CASE AssignClient
  BY <1>2 DEF AssignClient
<1>3. CASE SetupConnection
  BY <1>3 DEF SetupConnection
<1>4. CASE SetupFails
  BY <1>4 DEF SetupFails
<1>5. CASE CallReturns
  BY <1>5 DEF CallReturns
<1>6. CASE ReceiveTimesOut
  BY <1>6 DEF ReceiveTimesOut
<1>7. CASE CloseOnCancel
  BY <1>7 DEF CloseOnCancel
<1>8. CASE CancelledCallReturns
  BY <1>8 DEF CancelledCallReturns
<1>9. CASE Cancel
  BY <1>9 DEF Cancel
<1>10. ASSUME NEW r \in Receives, ReceiveAsync(r) PROVE StableOK'
  BY <1>10 DEF ReceiveAsync, StartReceive
<1>11. ASSUME NEW r \in Receives, ReceiveLoopAsync(r) PROVE StableOK'
  BY <1>11 DEF ReceiveLoopAsync, StartReceive
<1>12. ASSUME NEW r \in Receives, Arrive(r) PROVE StableOK'
  BY <1>12 DEF Arrive
<1>13. ASSUME NEW r \in Receives, ReceiveFails(r) PROVE StableOK'
  BY <1>13 DEF ReceiveFails
<1>14. ASSUME NEW r \in Receives, Process(r) PROVE StableOK'
  BY <1>14 DEF Process
<1>15. ASSUME NEW r \in Receives, Finish(r) PROVE StableOK'
  BY <1>15 DEF Finish
<1>16. ASSUME NEW r \in Receives, DeliverInline(r) PROVE StableOK'
  BY <1>16 DEF DeliverInline, DeliveryStep
<1>17. ASSUME NEW r \in Receives, CheckDisposed(r) PROVE StableOK'
  BY <1>17 DEF CheckDisposed, DeliveryStep, Drop
<1>18. ASSUME NEW r \in Receives, ReadDispatcher(r) PROVE StableOK'
  BY <1>18 DEF ReadDispatcher, DeliveryStep
<1>19. ASSUME NEW r \in Receives, CreateDispatcher(r) PROVE StableOK'
  BY <1>19 DEF CreateDispatcher, DeliveryStep
<1>20. ASSUME NEW r \in Receives, RecheckDisposed(r) PROVE StableOK'
  BY <1>20 DEF RecheckDisposed, DeliveryStep, Drop
<1>21. ASSUME NEW r \in Receives, Publish(r) PROVE StableOK'
  BY <1>21 DEF Publish, DeliveryStep, PublishedOver
<1>22. ASSUME NEW r \in Receives, DisposeLoser(r) PROVE StableOK'
  BY <1>22 DEF DisposeLoser, DeliveryStep, LoserState
<1>23. ASSUME NEW r \in Receives, TryEnqueue(r) PROVE StableOK'
  BY <1>23 DEF TryEnqueue, DeliveryStep, Drop
<1>24. ASSUME NEW c \in Closers, CallDispose(c) PROVE StableOK'
  BY <1>24 DEF CallDispose, DisposeStep
<1>25. ASSUME NEW c \in Closers, TakeDispatcher(c) PROVE StableOK'
  BY <1>25 DEF TakeDispatcher, DisposeStep
<1>26. ASSUME NEW c \in Closers, DisposeDispatcher(c) PROVE StableOK'
  BY <1>26 DEF DisposeDispatcher, DisposeStep
<1>27. ASSUME NEW c \in Closers, CloseClient(c) PROVE StableOK'
  BY <1>27 DEF CloseClient, DisposeStep
<1>28. CASE UNCHANGED vars
  BY <1>28
<1> QED
  BY <1>1, <1>2, <1>3, <1>4, <1>5, <1>6, <1>7, <1>8, <1>9, <1>10, <1>11, <1>12, <1>13, <1>14, <1>15, <1>16, <1>17, <1>18, <1>19, <1>20, <1>21, <1>22, <1>23, <1>24, <1>25, <1>26, <1>27, <1>28
     DEF Next, Connect, Call, ReceiveStep, Deliver, Dispose

LEMMA Inductive == IInv /\ [Next]_vars => IInv'
BY TypeStep, OwnersStep, StableStep DEF IInv

THEOREM Invariance == Spec => []IInv
BY Initially, Inductive, PTL DEF Spec

\* Every variable keeps its type.
THEOREM TypeCorrect == Spec => []TypeOK
<1>1. IInv => TypeOK
  BY DEF IInv
<1> QED
  BY <1>1, Invariance, PTL

\* A running dispatcher is never forgotten (RtpClient.cs:537-558, :417).
THEOREM DispatchersAlwaysHaveOwners == Spec => []DispatchersHaveOwners
<1>1. IInv => DispatchersHaveOwners
  BY DEF IInv, OwnersOK
<1> QED
  BY <1>1, Invariance, PTL

\* Frames stay intact while ReceiveAsync gave up on no receive
\* (RtpClient.cs:359-388).
THEOREM FramesStayIntact == Spec => []StableUnlessAbandoned
<1>1. IInv => StableUnlessAbandoned
  BY DEF IInv, StableOK
<1> QED
  BY <1>1, Invariance, PTL

(***************************************************************************)
(* The frames add up.  What is counted are sets, so a frame that a         *)
(* dispatcher accepts must be new to all of them: each receive that holds  *)
(* a datagram holds one of its own (NoTwins), and it enqueues to a         *)
(* dispatcher that was made (UsesOne).                                     *)
(***************************************************************************)
Held     == UNION { accepted[d] : d \in Receives }
OnTheWay == { r \in Receives : receiveAt[r] \in Delivering }

Holds(r) == receiveAt[r] \in {"received"} \cup Delivering

NoTwins ==
  /\ Held \subseteq 1 .. arrived
  /\ \A r \in Receives : Holds(r) =>
       /\ datagram[r] \in (1 .. arrived) \ Held
       /\ \A q \in Receives : q # r /\ Holds(q) => datagram[q] # datagram[r]

UsesOne ==
  \A r \in Receives :
    receiveAt[r] \in {"losing", "enqueueing"} => using[r] \in Receives

CountInv == NoTwins /\ UsesOne /\ FramesAddUp

LEMMA CountFirst == Init => CountInv
<1> SUFFICES ASSUME Init PROVE CountInv
  OBVIOUS
<1>1. Held = {} /\ OnTheWay = {}
  BY DEF Init, Held, OnTheWay, Delivering
<1>2. NoTwins /\ UsesOne
  BY <1>1 DEF Init, NoTwins, UsesOne, Holds, Delivering
<1>3. Cardinality(Held) = 0 /\ Cardinality(OnTheWay) = 0
  BY <1>1, FS_EmptySet
<1>4. FramesAddUp
  BY <1>3 DEF Init, FramesAddUp, Held, OnTheWay
<1> QED
  BY <1>2, <1>4 DEF CountInv

\* What is counted is finite.
LEMMA CountedIsFinite ==
  ASSUME TypeOK
  PROVE  /\ IsFiniteSet(Held) /\ Cardinality(Held) \in Nat
         /\ IsFiniteSet(OnTheWay) /\ Cardinality(OnTheWay) \in Nat
<1>1. IsFiniteSet(0 .. MaxDatagrams) /\ IsFiniteSet(Receives)
  BY BoundsAssumption, FS_Interval DEF Receives
<1>2. Held \subseteq 0 .. MaxDatagrams /\ OnTheWay \subseteq Receives
  BY DEF TypeOK, Held, OnTheWay
<1> QED
  BY <1>1, <1>2, FS_Subset, FS_CardinalityType

\* A step that neither generates a frame nor settles one.
Quiet ==
  /\ UNCHANGED <<datagram, arrived, accepted, counters>>
  /\ OnTheWay' = OnTheWay
  /\ \A r \in Receives : Holds(r)' => Holds(r)

\* A step in which the frame of r goes nowhere else.
Settles(r) ==
  /\ receiveAt[r] \in Delivering
  /\ receiveAt' = [receiveAt EXCEPT ![r] = "processed"]
  /\ UNCHANGED <<datagram, arrived, generated>>

LEMMA QuietKeepsCount ==
  ASSUME NoTwins, FramesAddUp, Quiet
  PROVE  NoTwins' /\ FramesAddUp'
<1>1. Held' = Held /\ OnTheWay' = OnTheWay
  BY DEF Quiet, Held
<1>2. NoTwins'
  BY <1>1 DEF NoTwins, Quiet
<1>3. FramesAddUp'
  BY <1>1 DEF FramesAddUp, Quiet, Held, OnTheWay, counters
<1> QED
  BY <1>2, <1>3

LEMMA ArriveKeepsCount ==
  ASSUME TypeOK, NoTwins, FramesAddUp, NEW r \in Receives, Arrive(r)
  PROVE  NoTwins' /\ FramesAddUp'
<1> USE DEF counters, dispatcherVars
<1>1. /\ receiveAt[r] = "pending" /\ receiveAt'[r] = "received"
      /\ \A q \in Receives \ {r} : receiveAt'[q] = receiveAt[q]
      /\ datagram'[r] = arrived + 1 /\ arrived' = arrived + 1 /\ arrived \in Nat
      /\ \A q \in Receives \ {r} : datagram'[q] = datagram[q]
      /\ UNCHANGED <<accepted, generated, dropped, settled>>
  BY DEF Arrive, TypeOK
<1>2. Held' = Held /\ OnTheWay' = OnTheWay
  BY <1>1 DEF Held, OnTheWay, Delivering
<1>3. \A q \in Receives \ {r} : Holds(q)' <=> Holds(q)
  BY <1>1 DEF Holds
<1>4. NoTwins'
  BY <1>1, <1>2, <1>3 DEF NoTwins
<1>5. FramesAddUp'
  BY <1>1, <1>2 DEF FramesAddUp, Held, OnTheWay
<1> QED
  BY <1>4, <1>5

LEMMA GeneratedKeepsCount ==
  ASSUME TypeOK, NoTwins, FramesAddUp, NEW r \in Receives, Process(r),
         generated' = generated + 1,
         receiveAt' = [receiveAt EXCEPT ![r] = "generated"]
  PROVE  NoTwins' /\ FramesAddUp'
<1> USE DEF dispatcherVars
<1>1. /\ receiveAt[r] = "received" /\ receiveAt'[r] = "generated"
      /\ \A q \in Receives \ {r} : receiveAt'[q] = receiveAt[q]
      /\ UNCHANGED <<accepted, datagram, arrived, dropped, settled>>
      /\ generated \in Nat /\ dropped \in Nat /\ settled \in Nat
  BY DEF Process, TypeOK
<1>2. /\ Held' = Held /\ OnTheWay' = OnTheWay \cup {r} /\ r \notin OnTheWay
      /\ \A q \in Receives : Holds(q)' <=> Holds(q)
  BY <1>1 DEF Held, OnTheWay, Delivering, Holds
<1>3. NoTwins'
  BY <1>1, <1>2 DEF NoTwins
<1>4. Cardinality(OnTheWay') = Cardinality(OnTheWay) + 1
  BY <1>2, CountedIsFinite, FS_AddElement
<1>5. FramesAddUp'
  BY <1>1, <1>2, <1>4, CountedIsFinite DEF FramesAddUp, Held, OnTheWay
<1> QED
  BY <1>3, <1>5

LEMMA SettlesKeepsCount ==
  ASSUME TypeOK, NoTwins, FramesAddUp, NEW r \in Receives, Settles(r),
         \/ dropped' = dropped + 1 /\ UNCHANGED <<settled, accepted>>
         \/ settled' = settled + 1 /\ UNCHANGED <<dropped, accepted>>
         \/ /\ \E d \in Receives :
                 accepted' = [accepted EXCEPT ![d] = @ \cup {datagram[r]}]
            /\ UNCHANGED <<dropped, settled>>
  PROVE  NoTwins' /\ FramesAddUp'
<1>1. /\ receiveAt[r] \in Delivering /\ receiveAt'[r] = "processed"
      /\ \A q \in Receives \ {r} : receiveAt'[q] = receiveAt[q]
      /\ UNCHANGED <<datagram, arrived, generated>>
      /\ generated \in Nat /\ dropped \in Nat /\ settled \in Nat
  BY DEF Settles, TypeOK
<1>2. /\ OnTheWay' = OnTheWay \ {r} /\ r \in OnTheWay
      /\ Holds(r) /\ ~Holds(r)'
      /\ \A q \in Receives \ {r} : Holds(q)' <=> Holds(q)
  BY <1>1 DEF OnTheWay, Delivering, Holds
<1>3. Cardinality(OnTheWay') = Cardinality(OnTheWay) - 1
  BY <1>2, CountedIsFinite, FS_RemoveElement
<1>4. ASSUME UNCHANGED accepted, dropped' + settled' = dropped + settled + 1,
             dropped' \in Nat, settled' \in Nat
      PROVE  NoTwins' /\ FramesAddUp'
  <2>1. Held' = Held
    BY <1>4 DEF Held
  <2>2. NoTwins'
    BY <1>1, <1>2, <2>1 DEF NoTwins
  <2>3. /\ generated = dropped + settled + Cardinality(Held)
                        + Cardinality(OnTheWay)
        /\ Cardinality(Held) \in Nat /\ Cardinality(OnTheWay) \in Nat
    BY CountedIsFinite DEF FramesAddUp, Held, OnTheWay
  <2>4. Cardinality(Held') = Cardinality(Held)
    BY <2>1
  <2>5. generated' = dropped' + settled' + Cardinality(Held')
                       + Cardinality(OnTheWay')
    <3>1. generated' = (dropped + settled + 1) + Cardinality(Held)
                         + (Cardinality(OnTheWay) - 1)
      BY <1>1, <2>3
    <3> QED
      BY <1>1, <1>3, <1>4, <2>3, <2>4, <3>1
  <2> QED
    BY <2>2, <2>5 DEF FramesAddUp, Held, OnTheWay
<1>5. CASE dropped' = dropped + 1 /\ UNCHANGED <<settled, accepted>>
  BY <1>1, <1>4, <1>5
<1>6. CASE settled' = settled + 1 /\ UNCHANGED <<dropped, accepted>>
  BY <1>1, <1>4, <1>6
<1>7. ASSUME NEW d \in Receives, UNCHANGED <<dropped, settled>>,
             accepted' = [accepted EXCEPT ![d] = @ \cup {datagram[r]}]
      PROVE  NoTwins' /\ FramesAddUp'
  <2>1. Held' = Held \cup {datagram[r]}
    <3>1. \A c \in Receives :
            accepted'[c] = IF c = d THEN accepted[d] \cup {datagram[r]}
                                    ELSE accepted[c]
      BY <1>7 DEF TypeOK
    <3> QED
      BY <3>1 DEF Held
  <2>2. datagram[r] \in 1 .. arrived /\ datagram[r] \notin Held
    BY <1>2 DEF NoTwins
  <2>3. NoTwins'
    BY <1>1, <1>2, <2>1, <2>2 DEF NoTwins
  <2>4. Cardinality(Held') = Cardinality(Held) + 1
    BY <2>1, <2>2, CountedIsFinite, FS_AddElement
  <2>5. /\ generated = dropped + settled + Cardinality(Held)
                        + Cardinality(OnTheWay)
        /\ Cardinality(Held) \in Nat /\ Cardinality(OnTheWay) \in Nat
    BY CountedIsFinite DEF FramesAddUp, Held, OnTheWay
  <2>6. generated' = dropped' + settled' + Cardinality(Held')
                       + Cardinality(OnTheWay')
    BY <1>1, <1>3, <1>7, <2>4, <2>5
  <2> QED
    BY <2>3, <2>6 DEF FramesAddUp, Held, OnTheWay
<1> QED
  BY <1>5, <1>6, <1>7

LEMMA QuietByPlace ==
  ASSUME UNCHANGED <<datagram, arrived, accepted, counters>>,
         \A r \in Receives :
           /\ receiveAt'[r] \in Delivering <=> receiveAt[r] \in Delivering
           /\ receiveAt'[r] = "received" => receiveAt[r] = "received"
  PROVE  Quiet
BY DEF Quiet, OnTheWay, Holds

LEMMA DeliveryKeepsCount ==
  ASSUME TypeOK, CountInv, NEW r \in Receives, Deliver(r)
  PROVE  NoTwins' /\ FramesAddUp'
<1> USE DEF CountInv, counters, dispatcherVars, dataVars, DeliveryStep, Delivering
<1>0. receiveAt \in [Receives -> Delivering \cup
                      {"unused", "pending", "received", "processed", "done",
                       "failed"}]
  BY DEF TypeOK
<1>1. ASSUME NEW from \in Delivering, NEW to \in Delivering,
             receiveAt[r] = from, receiveAt' = [receiveAt EXCEPT ![r] = to],
             UNCHANGED <<datagram, arrived, accepted, counters>>
      PROVE  NoTwins' /\ FramesAddUp'
  BY <1>0, <1>1, QuietByPlace, QuietKeepsCount
<1>2. CASE DeliverInline(r)
  BY <1>2, SettlesKeepsCount DEF DeliverInline, Settles
<1>3. CASE CheckDisposed(r)
  <2>1. CASE Drop
    BY <1>3, <2>1, SettlesKeepsCount DEF CheckDisposed, Settles, Drop, TypeOK
  <2>2. CASE ~Drop
    BY <1>1, <1>3, <2>2 DEF CheckDisposed
  <2> QED
    BY <2>1, <2>2
<1>4. CASE ReadDispatcher(r)
  BY <1>1, <1>4 DEF ReadDispatcher
<1>5. CASE CreateDispatcher(r)
  BY <1>1, <1>5 DEF CreateDispatcher
<1>6. CASE RecheckDisposed(r)
  <2>1. CASE Drop
    BY <1>6, <2>1, SettlesKeepsCount DEF RecheckDisposed, Settles, Drop, TypeOK
  <2>2. CASE ~Drop
    BY <1>1, <1>6, <2>2 DEF RecheckDisposed
  <2> QED
    BY <2>1, <2>2
<1>7. CASE Publish(r)
  BY <1>1, <1>7 DEF Publish
<1>8. CASE DisposeLoser(r)
  BY <1>1, <1>8 DEF DisposeLoser
<1>9. CASE TryEnqueue(r)
  <2>1. Settles(r)
    BY <1>9 DEF TryEnqueue, Settles
  <2>2. CASE Drop /\ UNCHANGED accepted
    BY <1>9, <2>1, <2>2, SettlesKeepsCount DEF Drop
  <2>3. CASE accepted' = [accepted EXCEPT ![using[r]] = @ \cup {datagram[r]}]
             /\ UNCHANGED <<dropped, settled>>
    <3>1. using[r] \in Receives
      BY <1>9 DEF TryEnqueue, UsesOne
    <3> QED
      BY <2>1, <2>3, <3>1, SettlesKeepsCount
  <2> QED
    BY <1>9, <2>2, <2>3 DEF TryEnqueue
<1> QED
  BY <1>2, <1>3, <1>4, <1>5, <1>6, <1>7, <1>8, <1>9 DEF Deliver

LEMMA UsesOneStep ==
  ASSUME TypeOK, UsesOne, [Next]_vars
  PROVE  UsesOne'
<1> USE DEF TypeOK, UsesOne, Delivering, vars, connectVars, callVars,
            receiveVars, dataVars, disposeVars, dispatcherVars, counters
<1>1. ASSUME UNCHANGED using,
             \A r \in Receives : receiveAt'[r] \in {"losing", "enqueueing"}
                                   => receiveAt[r] \in {"losing", "enqueueing"}
      PROVE  UsesOne'
  BY <1>1
<1>2. CASE UNCHANGED vars \/ Connect \/ Call \/ Cancel
  BY <1>1, <1>2
  DEF Connect, OpenSocket, AssignClient, SetupConnection, SetupFails, Call,
      CallReturns, ReceiveTimesOut, CloseOnCancel, CancelledCallReturns, Cancel
<1>3. ASSUME NEW c \in Closers, Dispose(c) PROVE UsesOne'
  BY <1>1, <1>3
  DEF Dispose, DisposeStep, CallDispose, TakeDispatcher, DisposeDispatcher,
      CloseClient
<1>4. ASSUME NEW r \in Receives,
             \/ ReceiveAsync(r) \/ ReceiveLoopAsync(r) \/ Arrive(r)
             \/ ReceiveFails(r) \/ Process(r) \/ Finish(r)
      PROVE  UsesOne'
  BY <1>1, <1>4
  DEF ReceiveAsync, ReceiveLoopAsync, StartReceive, Arrive, ReceiveFails,
      Process, Finish
<1>5. ASSUME NEW r \in Receives, Deliver(r) PROVE UsesOne'
  <2> USE DEF DeliveryStep
  <2>1. CASE ReadDispatcher(r)
    BY <1>5, <2>1 DEF ReadDispatcher, Null
  <2>2. CASE Publish(r)
    BY <1>5, <2>2 DEF Publish, PublishedOver, Null
  <2>3. CASE \/ DeliverInline(r) \/ CheckDisposed(r) \/ CreateDispatcher(r)
             \/ RecheckDisposed(r) \/ DisposeLoser(r) \/ TryEnqueue(r)
    BY <1>1, <2>3 DEF DeliverInline, CheckDisposed, CreateDispatcher,
                      RecheckDisposed, DisposeLoser, TryEnqueue
  <2> QED
    BY <1>5, <2>1, <2>2, <2>3 DEF Deliver
<1> QED
  BY <1>2, <1>3, <1>4, <1>5 DEF Next, ReceiveStep

LEMMA CountInductive == IInv /\ CountInv /\ [Next]_vars => CountInv'
<1> SUFFICES ASSUME IInv, CountInv, [Next]_vars
             PROVE  NoTwins' /\ FramesAddUp'
  BY UsesOneStep DEF IInv, CountInv
<1>0. TypeOK /\ NoTwins /\ FramesAddUp
  BY DEF IInv, CountInv
<1>1. ASSUME Quiet PROVE NoTwins' /\ FramesAddUp'
  BY <1>0, <1>1, QuietKeepsCount
<1> USE DEF vars, connectVars, callVars, receiveVars, dataVars, disposeVars,
            dispatcherVars
<1>2. CASE UNCHANGED vars \/ Connect \/ Call \/ Cancel
  BY <1>1, <1>2, QuietByPlace
  DEF Connect, OpenSocket, AssignClient, SetupConnection, SetupFails, Call,
      CallReturns, ReceiveTimesOut, CloseOnCancel, CancelledCallReturns, Cancel
<1>3. ASSUME NEW c \in Closers, Dispose(c) PROVE NoTwins' /\ FramesAddUp'
  BY <1>1, <1>3, QuietByPlace
  DEF Dispose, DisposeStep, CallDispose, TakeDispatcher, DisposeDispatcher,
      CloseClient
<1>4. ASSUME NEW r \in Receives,
             \/ ReceiveAsync(r) \/ ReceiveLoopAsync(r) \/ ReceiveFails(r)
             \/ Finish(r)
      PROVE  NoTwins' /\ FramesAddUp'
  <2>1. Quiet
    BY <1>0, <1>4, QuietByPlace
    DEF ReceiveAsync, ReceiveLoopAsync, StartReceive, ReceiveFails, Finish,
        TypeOK, Delivering
  <2> QED
    BY <1>1, <2>1
<1>5. ASSUME NEW r \in Receives, Process(r) PROVE NoTwins' /\ FramesAddUp'
  <2>1. CASE /\ generated' = generated + 1
             /\ receiveAt' = [receiveAt EXCEPT ![r] = "generated"]
    BY <1>0, <1>5, <2>1, GeneratedKeepsCount
  <2>2. CASE /\ UNCHANGED generated
             /\ \E to \in {"processed", "failed"} :
                  receiveAt' = [receiveAt EXCEPT ![r] = to]
    <3>1. Quiet
      BY <1>0, <1>5, <2>2, QuietByPlace DEF Process, TypeOK, Delivering, counters
    <3> QED
      BY <1>1, <3>1
  <2> QED
    BY <1>5, <2>1, <2>2 DEF Process
<1>6. ASSUME NEW r \in Receives, Arrive(r) PROVE NoTwins' /\ FramesAddUp'
  BY <1>0, <1>6, ArriveKeepsCount
<1>7. ASSUME NEW r \in Receives, Deliver(r) PROVE NoTwins' /\ FramesAddUp'
  BY <1>0, <1>7, DeliveryKeepsCount
<1> QED
  BY <1>2, <1>3, <1>4, <1>5, <1>6, <1>7 DEF Next, ReceiveStep

\* Every frame generated is accepted by exactly one dispatcher, counted as
\* dropped, shown inline or on its way, whatever receives, cancelled or given
\* up, race with each other and with Dispose (RtpClient.cs:506-534).
THEOREM FramesAlwaysAddUp == Spec => []FramesAddUp
<1>1. CountInv => FramesAddUp
  BY DEF CountInv
<1> QED
  BY <1>1, Initially, Inductive, CountFirst, CountInductive, PTL DEF Spec
=============================================================================
