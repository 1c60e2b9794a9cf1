----------------------------- MODULE RtpClient -----------------------------
(***************************************************************************)
(* RtpClient/RtpClient.cs: the client of a plain UDP stream.  The          *)
(* application connects, then either calls ReceiveAsync again and again    *)
(* (one datagram a call, or a timeout) or ReceiveLoopAsync once; any       *)
(* thread may call Dispose.  A socket receive that ReceiveAsync gave up    *)
(* waiting for is not cancelled: it completes later, on a thread of the    *)
(* pool, and processes its datagram there.                                 *)
(*                                                                         *)
(* All receives share _receiveBuffer, and all parsing shares the parser's  *)
(* storage, which a generated frame points into until it was copied to the *)
(* dispatcher.  The dispatcher is made when the first frame needs it.      *)
(***************************************************************************)
EXTENDS Naturals, FiniteSets

CONSTANTS
  MaxReceives,      \* bound on the socket receives started
  MaxDatagrams,     \* bound on the datagrams that arrive
  Closers           \* threads that call Dispose

ASSUME BoundsAssumption == MaxReceives \in Nat /\ MaxDatagrams \in Nat

\* The receives in the order they are started.  A receive makes at most one
\* dispatcher, which is named after it; 0 stands for null.
Receives == 1 .. MaxReceives
Null == 0

VARIABLES
  connectAt,        \* where ConnectAsync is
  socket,           \* the UdpClient's socket
  rtpClient,        \* _rtpClient is not null
  cancelled,        \* the token of the receive calls
  callAt,           \* where the application's receive call is
  current,          \* the receive it waits for
  abandoned,        \* ReceiveAsync gave up waiting for a receive
  receiveAt,        \* where each receive is
  looping,          \* the receives of ReceiveLoopAsync
  datagram,         \* the datagram each receive got
  arrived,          \* the number of datagrams that arrived
  receiveBuffer,    \* the datagram in _receiveBuffer
  storage,          \* the datagram the parser's storage was filled from
  frameOf,          \* the datagram each receive's frame was generated from
  inlineDelivery,   \* UseInlineFrameDelivery
  disposed,         \* _disposed
  closerAt,         \* where each thread is in Dispose
  closing,          \* the dispatcher it took out of _frameDispatcher
  frameDispatcher,  \* _frameDispatcher
  dispatcher,       \* the dispatcher each receive made
  using,            \* the dispatcher each receive enqueues its frame to
  accepted,         \* the frames each dispatcher accepted
  generated,        \* _generatedFrameCount
  dropped,          \* _dispatcherDroppedFrameCount
  settled           \* frames shown inline, or generated for no subscriber

connectVars == <<connectAt, rtpClient>>
callVars == <<cancelled, callAt, current, abandoned>>
dataVars == <<datagram, arrived, receiveBuffer, storage, frameOf>>
disposeVars == <<disposed, closerAt, closing>>
dispatcherVars == <<frameDispatcher, dispatcher, using, accepted>>
counters == <<generated, dropped, settled>>
receiveVars == <<receiveAt, looping>>
vars == <<connectVars, socket, callVars, receiveVars, dataVars, inlineDelivery,
          disposeVars, dispatcherVars, counters>>

Init ==
  /\ connectAt = "idle" /\ socket = "none" /\ rtpClient = FALSE
  /\ cancelled = FALSE /\ callAt = "idle" /\ current = Null
  /\ abandoned = FALSE
  /\ receiveAt = [r \in Receives |-> "unused"] /\ looping = {}
  /\ datagram = [r \in Receives |-> 0] /\ arrived = 0
  /\ receiveBuffer = 0 /\ storage = 0
  /\ frameOf = [r \in Receives |-> 0]
  /\ inlineDelivery \in BOOLEAN
  /\ disposed = FALSE
  /\ closerAt = [c \in Closers |-> "idle"]
  /\ closing = [c \in Closers |-> Null]
  /\ frameDispatcher = Null
  /\ dispatcher = [r \in Receives |-> "none"]
  /\ using = [r \in Receives |-> Null]
  /\ accepted = [r \in Receives |-> {}]
  /\ generated = 0 /\ dropped = 0 /\ settled = 0

(***************************************************************************)
(* ConnectAsync                                                            *)
(***************************************************************************)
\* CreateRtpClientInternal opens and binds the socket.  The application does
\* not connect a client it has disposed.
OpenSocket ==
  /\ connectAt = "idle" /\ ~disposed
  /\ connectAt' = "opened"
  /\ socket' = "open"
  /\ UNCHANGED <<rtpClient, callVars, receiveVars, dataVars, inlineDelivery,
                 disposeVars, dispatcherVars, counters>>

AssignClient ==
  /\ connectAt = "opened"
  /\ connectAt' = "assigned"
  /\ rtpClient' = TRUE
  /\ UNCHANGED <<socket, callVars, receiveVars, dataVars, inlineDelivery,
                 disposeVars, dispatcherVars, counters>>

\* SetupConnection makes the stream and its parser; it never waits.
SetupConnection ==
  /\ connectAt = "assigned"
  /\ connectAt' = "connected"
  /\ UNCHANGED <<socket, rtpClient, callVars, receiveVars, dataVars,
                 inlineDelivery, disposeVars, dispatcherVars, counters>>

SetupFails ==
  /\ connectAt = "assigned"
  /\ connectAt' = "failed"
  /\ socket' = "closed" /\ rtpClient' = FALSE
  /\ UNCHANGED <<callVars, receiveVars, dataVars, inlineDelivery, disposeVars,
                 dispatcherVars, counters>>

Connect == OpenSocket \/ AssignClient \/ SetupConnection \/ SetupFails

(***************************************************************************)
(* ReceiveAsync and ReceiveLoopAsync                                       *)
(***************************************************************************)
\* The next receive; its first socket call fails when the socket is closed.
StartReceive(r) ==
  /\ connectAt = "connected" /\ rtpClient
  /\ callAt = "idle"
  /\ receiveAt[r] = "unused"
  /\ \A q \in Receives : q < r => receiveAt[q] # "unused"
  /\ current' = r
  /\ receiveAt' = [receiveAt EXCEPT ![r] = "pending"]
  /\ UNCHANGED <<connectVars, socket, cancelled, abandoned, dataVars,
                 inlineDelivery, disposeVars, dispatcherVars, counters>>

ReceiveAsync(r) ==
  /\ StartReceive(r)
  /\ callAt' = "receiving"
  /\ UNCHANGED looping

ReceiveLoopAsync(r) ==
  /\ StartReceive(r)
  /\ callAt' = "looping"
  /\ looping' = looping \union {r}

Ended(r) == receiveAt[r] \in {"done", "failed"}

\* A mutant of HasResult: the call returns as soon as a datagram arrived.
HasResultOnArrival == receiveAt[current] # "pending"

\* The receive task of the call has completed, frame delivery included.
HasResult == Ended(current)

\* The call returns or throws what its receive ended with.
CallReturns ==
  /\ callAt \in {"receiving", "looping"}
  /\ HasResult
  /\ callAt' = IF callAt = "looping" \/ cancelled THEN "ended" ELSE "idle"
  /\ UNCHANGED <<connectVars, socket, cancelled, current, abandoned,
                 receiveVars, dataVars, inlineDelivery, disposeVars,
                 dispatcherVars, counters>>

\* ReceiveAsync: the timeout task won, "Receive timeout" is thrown, and the
\* receive goes on.
ReceiveTimesOut ==
  /\ callAt = "receiving"
  /\ ~Ended(current)
  /\ callAt' = "idle"
  /\ abandoned' = TRUE
  /\ UNCHANGED <<connectVars, socket, cancelled, current, receiveVars,
                 dataVars, inlineDelivery, disposeVars, dispatcherVars,
                 counters>>

Cancel ==
  /\ ~cancelled
  /\ cancelled' = TRUE
  /\ UNCHANGED <<connectVars, socket, callAt, current, abandoned, receiveVars,
                 dataVars, inlineDelivery, disposeVars, dispatcherVars,
                 counters>>

\* A mutant of WakesReceive: only ReceiveAsync reacts to the token.
WakesReceiveOnly == cancelled /\ callAt = "receiving"

WakesReceive == cancelled /\ callAt \in {"receiving", "looping"}

\* The token closes the socket: ReceiveAsync disposes _rtpClient and goes on
\* to wait for the receive, ReceiveLoopBlocking registered Socket.Close.
CloseOnCancel ==
  /\ WakesReceive
  /\ callAt = "receiving" => ~Ended(current)
  /\ socket = "open"
  /\ socket' = "closed"
  /\ callAt' = IF callAt = "receiving" THEN "cancelling" ELSE callAt
  /\ UNCHANGED <<connectVars, cancelled, current, abandoned, receiveVars,
                 dataVars, inlineDelivery, disposeVars, dispatcherVars,
                 counters>>

CancelledCallReturns ==
  /\ callAt = "cancelling"
  /\ Ended(current)
  /\ callAt' = "ended"
  /\ UNCHANGED <<connectVars, socket, cancelled, current, abandoned,
                 receiveVars, dataVars, inlineDelivery, disposeVars,
                 dispatcherVars, counters>>

(***************************************************************************)
(* A socket receive and ProcessReceivedDatagram                            *)
(***************************************************************************)
\* A datagram completes the receive that was started first.
Arrive(r) ==
  /\ socket = "open"
  /\ receiveAt[r] = "pending"
  /\ \A q \in Receives : q < r => receiveAt[q] # "pending"
  /\ arrived < MaxDatagrams
  /\ arrived' = arrived + 1
  /\ datagram' = [datagram EXCEPT ![r] = arrived']
  /\ receiveBuffer' = arrived'
  /\ receiveAt' = [receiveAt EXCEPT ![r] = "received"]
  /\ UNCHANGED <<connectVars, socket, callVars, looping, storage, frameOf,
                 inlineDelivery, disposeVars, dispatcherVars, counters>>

\* A pending receive fails when the socket is closed, and a blocking one also
\* when nothing arrives for Timeout milliseconds.
ReceiveFails(r) ==
  /\ receiveAt[r] = "pending"
  /\ socket = "closed" \/ r \in looping
  /\ receiveAt' = [receiveAt EXCEPT ![r] = "failed"]
  /\ UNCHANGED <<connectVars, socket, callVars, looping, dataVars,
                 inlineDelivery, disposeVars, dispatcherVars, counters>>

\* stream.Process: the parser works on what the buffer holds now, and a frame
\* is complete, or not, or the parser throws.
Process(r) ==
  /\ receiveAt[r] = "received"
  /\ storage' = receiveBuffer
  /\ \/ /\ receiveAt' = [receiveAt EXCEPT ![r] = "generated"]
        /\ frameOf' = [frameOf EXCEPT ![r] = storage']
        /\ generated' = generated + 1
     \/ /\ receiveAt' = [receiveAt EXCEPT ![r] = "processed"]
        /\ UNCHANGED <<frameOf, generated>>
     \/ /\ receiveAt' = [receiveAt EXCEPT ![r] = "failed"]
        /\ UNCHANGED <<frameOf, generated>>
  /\ UNCHANGED <<connectVars, socket, callVars, looping, datagram, arrived,
                 receiveBuffer, inlineDelivery, disposeVars, dispatcherVars,
                 dropped, settled>>

\* The receive is over; the blocking loop tests the token and goes on.
Finish(r) ==
  /\ receiveAt[r] = "processed"
  /\ receiveAt' = [receiveAt EXCEPT ![r] =
                     IF r \in looping /\ ~cancelled THEN "pending" ELSE "done"]
  /\ UNCHANGED <<connectVars, socket, callVars, looping, dataVars,
                 inlineDelivery, disposeVars, dispatcherVars, counters>>

(***************************************************************************)
(* OnFrameGeneratedThreadSafe                                              *)
(***************************************************************************)
\* A step of r's delivery: its frame goes from one place to the next.
DeliveryStep(r, from, to) ==
  /\ receiveAt[r] = from
  /\ receiveAt' = [receiveAt EXCEPT ![r] = to]
  /\ UNCHANGED <<connectVars, socket, callVars, looping, dataVars,
                 inlineDelivery, disposeVars, generated>>

\* The subscribers run on this thread, or there are none.
DeliverInline(r) ==
  /\ DeliveryStep(r, "generated", "processed")
  /\ settled' = settled + 1
  /\ UNCHANGED <<dispatcherVars, dropped>>

\* A mutant of Drop: the frame is not counted.
DropUncounted == UNCHANGED <<dropped, settled>>

\* A mutant of Drop: the counter goes the wrong way.
DropCountedDown ==
  /\ dropped' = dropped - 1
  /\ UNCHANGED settled

Drop ==
  /\ dropped' = dropped + 1
  /\ UNCHANGED settled

\* GetFrameDispatcher's first test of _disposed.
CheckDisposed(r) ==
  /\ ~inlineDelivery
  /\ \/ /\ disposed
        /\ DeliveryStep(r, "generated", "processed")
        /\ Drop
     \/ /\ ~disposed
        /\ DeliveryStep(r, "generated", "reading")
        /\ UNCHANGED <<dropped, settled>>
  /\ UNCHANGED dispatcherVars

ReadDispatcher(r) ==
  /\ IF frameDispatcher # Null
       THEN DeliveryStep(r, "reading", "enqueueing")
       ELSE DeliveryStep(r, "reading", "creating")
  /\ using' = [using EXCEPT ![r] = frameDispatcher]
  /\ UNCHANGED <<frameDispatcher, dispatcher, accepted, dropped, settled>>

CreateDispatcher(r) ==
  /\ DeliveryStep(r, "creating", "created")
  /\ dispatcher' = [dispatcher EXCEPT ![r] = "running"]
  /\ UNCHANGED <<frameDispatcher, using, accepted, dropped, settled>>

RecheckDisposed(r) ==
  /\ \/ /\ disposed
        /\ DeliveryStep(r, "created", "processed")
        /\ dispatcher' = [dispatcher EXCEPT ![r] = "disposed"]
        /\ Drop
     \/ /\ ~disposed
        /\ DeliveryStep(r, "created", "publishing")
        /\ UNCHANGED <<dispatcher, dropped, settled>>
  /\ UNCHANGED <<frameDispatcher, using, accepted>>

\* A mutant of PublishedOver: a plain write instead of CompareExchange.
PublishedOverAnything == Null

\* What CompareExchange found in _frameDispatcher.
PublishedOver == frameDispatcher

Publish(r) ==
  /\ IF PublishedOver = Null
       THEN /\ DeliveryStep(r, "publishing", "enqueueing")
            /\ frameDispatcher' = r
            /\ using' = [using EXCEPT ![r] = r]
       ELSE /\ DeliveryStep(r, "publishing", "losing")
            /\ using' = [using EXCEPT ![r] = PublishedOver]
            /\ UNCHANGED frameDispatcher
  /\ UNCHANGED <<dispatcher, accepted, dropped, settled>>

LoserState == "disposed"

DisposeLoser(r) ==
  /\ DeliveryStep(r, "losing", "enqueueing")
  /\ dispatcher' = [dispatcher EXCEPT ![r] = LoserState]
  /\ UNCHANGED <<frameDispatcher, using, accepted, dropped, settled>>

\* TryEnqueue copies the frame, unless the dispatcher is disposed or turns the
\* frame away.
TryEnqueue(r) ==
  /\ DeliveryStep(r, "enqueueing", "processed")
  /\ \/ /\ dispatcher[using[r]] = "running"
        /\ accepted' = [accepted EXCEPT ![using[r]] = @ \union {datagram[r]}]
        /\ UNCHANGED <<dropped, settled>>
     \/ /\ Drop
        /\ UNCHANGED accepted
  /\ UNCHANGED <<frameDispatcher, dispatcher, using>>

(***************************************************************************)
(* Dispose                                                                 *)
(***************************************************************************)
DisposeStep(c, from, to) ==
  /\ closerAt[c] = from
  /\ closerAt' = [closerAt EXCEPT ![c] = to]
  /\ UNCHANGED <<connectVars, callVars, receiveVars, dataVars, inlineDelivery,
                 using, accepted, counters>>

CallDispose(c) ==
  /\ IF disposed THEN DisposeStep(c, "idle", "returned")
                 ELSE DisposeStep(c, "idle", "taking")
  /\ disposed' = TRUE
  /\ UNCHANGED <<socket, closing, frameDispatcher, dispatcher>>

\* Interlocked.Exchange(ref _frameDispatcher, null)
TakeDispatcher(c) ==
  /\ DisposeStep(c, "taking", "disposing")
  /\ closing' = [closing EXCEPT ![c] = frameDispatcher]
  /\ frameDispatcher' = Null
  /\ UNCHANGED <<socket, disposed, dispatcher>>

DisposeDispatcher(c) ==
  /\ DisposeStep(c, "disposing", "closing")
  /\ dispatcher' = [r \in Receives |->
                      IF r = closing[c] THEN "disposed" ELSE dispatcher[r]]
  /\ closing' = [closing EXCEPT ![c] = Null]
  /\ UNCHANGED <<socket, disposed, frameDispatcher>>

\* _rtpClient?.Dispose()
CloseClient(c) ==
  /\ DisposeStep(c, "closing", "returned")
  /\ socket' = IF rtpClient THEN "closed" ELSE socket
  /\ UNCHANGED <<disposed, closing, frameDispatcher, dispatcher>>

(***************************************************************************)
(* The specification                                                       *)
(***************************************************************************)
Deliver(r) ==
  \/ DeliverInline(r) \/ CheckDisposed(r) \/ ReadDispatcher(r)
  \/ CreateDispatcher(r) \/ RecheckDisposed(r) \/ Publish(r)
  \/ DisposeLoser(r) \/ TryEnqueue(r)

Call ==
  \/ CallReturns \/ ReceiveTimesOut \/ CloseOnCancel \/ CancelledCallReturns

ReceiveStep(r) ==
  \/ Arrive(r) \/ ReceiveFails(r) \/ Process(r) \/ Finish(r) \/ Deliver(r)

Dispose(c) ==
  \/ CallDispose(c) \/ TakeDispatcher(c) \/ DisposeDispatcher(c)
  \/ CloseClient(c)

Next ==
  \/ Connect \/ Call \/ Cancel
  \/ \E r \in Receives : ReceiveAsync(r) \/ ReceiveLoopAsync(r) \/ ReceiveStep(r)
  \/ \E c \in Closers : Dispose(c)

Spec == Init /\ [][Next]_vars

\* The threads run, the operating system fails a receive on a closed socket,
\* and the token's callback is called.  Nothing makes a datagram arrive.
FairSpec ==
  /\ Spec
  /\ WF_vars(CallReturns \/ CancelledCallReturns) /\ WF_vars(CloseOnCancel)
  /\ \A r \in Receives :
       /\ WF_vars(socket = "closed" /\ ReceiveFails(r))
       /\ WF_vars(Process(r) \/ Finish(r) \/ Deliver(r))

(***************************************************************************)
(* Properties                                                              *)
(***************************************************************************)
Delivering == {"generated", "reading", "creating", "created", "publishing",
               "losing", "enqueueing"}

TypeOK ==
  /\ connectAt \in {"idle", "opened", "assigned", "connected", "failed"}
  /\ socket \in {"none", "open", "closed"}
  /\ rtpClient \in BOOLEAN /\ cancelled \in BOOLEAN /\ abandoned \in BOOLEAN
  /\ callAt \in {"idle", "receiving", "looping", "cancelling", "ended"}
  /\ current \in Receives \union {Null}
  /\ receiveAt \in [Receives -> Delivering \union
                      {"unused", "pending", "received", "processed", "done",
                       "failed"}]
  /\ looping \subseteq Receives
  /\ datagram \in [Receives -> 0 .. MaxDatagrams]
  /\ arrived \in 0 .. MaxDatagrams
  /\ receiveBuffer \in 0 .. MaxDatagrams /\ storage \in 0 .. MaxDatagrams
  /\ frameOf \in [Receives -> 0 .. MaxDatagrams]
  /\ inlineDelivery \in BOOLEAN /\ disposed \in BOOLEAN
  /\ closerAt \in [Closers -> {"idle", "taking", "disposing", "closing",
                               "returned"}]
  /\ closing \in [Closers -> Receives \union {Null}]
  /\ frameDispatcher \in Receives \union {Null}
  /\ dispatcher \in [Receives -> {"none", "running", "disposed"}]
  /\ using \in [Receives -> Receives \union {Null}]
  /\ accepted \in [Receives -> SUBSET (0 .. MaxDatagrams)]
  /\ generated \in Nat /\ dropped \in Nat /\ settled \in Nat

\* GeneratedFrameCount and DispatcherDroppedFrameCount (RtpClient.cs:506, :534)
\* tell the truth whatever threads deliver: every frame generated was accepted
\* by one dispatcher, counted as dropped, shown inline, or is on its way.
FramesAddUp ==
  generated = dropped + settled
                + Cardinality(UNION {accepted[d] : d \in Receives})
                + Cardinality({r \in Receives : receiveAt[r] \in Delivering})

\* However many receives race to make the dispatcher with however many calls of
\* Dispose (RtpClient.cs:537-558, :417), a running one is never forgotten: it is
\* in _frameDispatcher, or with the receive that made it and has not published
\* or disposed it yet, or with the Dispose that took it.
DispatchersHaveOwners ==
  \A d \in Receives : dispatcher[d] = "running" =>
    \/ d = frameDispatcher
    \/ receiveAt[d] \in {"created", "publishing", "losing"}
    \/ \E c \in Closers : closing[c] = d

\* The comment at RtpClient.cs:507-509: a frame points into storage the parser
\* uses again for the next frame, and it is copied or shown before that.
FrameIsStable ==
  \A r \in Receives : receiveAt[r] \in Delivering =>
    storage = frameOf[r] /\ frameOf[r] = datagram[r]

\* Frames are stable, and made of the datagram their receive got, as long as
\* ReceiveAsync (RtpClient.cs:359-388) gave up on no receive.
StableUnlessAbandoned == abandoned \/ FrameIsStable

\* A receive call ends after its token was cancelled (RtpClient.cs:298, :379),
\* whether or not anything arrives.
InCall == callAt \in {"receiving", "looping", "cancelling"}
CancelEndsTheCall == cancelled /\ InCall ~> ~InCall
=============================================================================
