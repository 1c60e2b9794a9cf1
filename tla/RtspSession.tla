---------------------------- MODULE RtspSession ----------------------------
(***************************************************************************)
(* RtspClient.cs and Rtsp/RtspClientInternal.cs: the life of RTSP sessions *)
(* on one client.  The application connects, receives until cancellation,  *)
(* a timeout or an error, and may connect again; each ConnectAsync makes a *)
(* new RtspClientInternal, a session here, with a control connection (the  *)
(* transport) and, over UDP, a pair of sockets for each track.             *)
(*                                                                         *)
(* The application's call waits for the session's own task and for a       *)
(* timer.  When it gives up, the task is not stopped: Dispose pulls the    *)
(* connection and the sockets from under it while it may still be opening  *)
(* them.  Any thread may call RtspClient.Dispose meanwhile.                *)
(***************************************************************************)
EXTENDS Naturals, FiniteSets

CONSTANTS
  MaxSessions,       \* bound on the calls of ConnectAsync
  TrackCount,        \* the tracks the server describes
  Transports,        \* the values of RtpTransport to choose from
  Closers,           \* threads that call RtspClient.Dispose
  App                \* the thread that connects and receives

ASSUME TransportAssumption == Transports \subseteq {"TCP", "UDP", "MULTICAST"}
ASSUME BoundsAssumption == MaxSessions \in Nat /\ TrackCount \in Nat \ {0}
ASSUME CallersAssumption == App \notin Closers

Sessions == 1 .. MaxSessions
Tracks == 1 .. TrackCount
Callers == Closers \union {App}
Null == 0

\* The receive loops of a session: one over TCP, two for each track over UDP.
TcpLoops == {<<Null, "tcp">>}
UdpLoops == Tracks \X {"rtp", "rtcp"}
AllLoops == TcpLoops \union UdpLoops

VARIABLES
  parameters,         \* the client's ConnectionParameters
  appAt,              \* where the application is in ConnectAsync, ReceiveAsync
  client,             \* _rtspClientInternal
  created,            \* the number of sessions made
  cancelled,          \* the application's token
  disposed,           \* RtspClient._disposed
  closerAt,           \* where each thread is in Dispose
  closing,            \* the session it disposes
  sessionDisposed,    \* RtspClientInternal._disposed
  transport,          \* _rtspTransportClient and its TCP connection
  transportDisposed,  \* the transport's _disposed
  sockets,            \* the UDP sockets of each track
  mapped,             \* the tracks in _udpClientsMap
  connectAt,          \* where each session's ConnectAsync is
  track,              \* the track it sets up
  keepsAlive,         \* _isServerSupportsGetParameterRequest
  serverCancelled,    \* _serverCancellationTokenSource
  receiveAt,          \* where each session's ReceiveAsync is
  loopAt,             \* its receive loops
  byeSent,            \* the tracks whose RTCP BYE was sent
  late                \* something was opened or mapped during or after Dispose

appVars == <<appAt, client, created, cancelled>>
closerVars == <<disposed, closerAt, closing, sessionDisposed>>
transportVars == <<transport, transportDisposed>>
socketVars == <<sockets, mapped>>
connectVars == <<connectAt, track, keepsAlive>>
receiveVars == <<serverCancelled, receiveAt, loopAt, byeSent>>
vars == <<parameters, appVars, closerVars, transportVars, socketVars,
          connectVars, receiveVars, late>>

OverUdp == parameters.rtpTransport # "TCP"
Loops == IF OverUdp THEN UdpLoops ELSE TcpLoops

Init ==
  /\ parameters \in [rtpTransport : Transports, cancelTimeoutIsZero : BOOLEAN]
  /\ appAt = "idle" /\ client = Null /\ created = 0 /\ cancelled = FALSE
  /\ disposed = FALSE
  /\ closerAt = [c \in Callers |-> "idle"]
  /\ closing = [c \in Callers |-> Null]
  /\ sessionDisposed = [s \in Sessions |-> FALSE]
  /\ transport = [s \in Sessions |-> "none"]
  /\ transportDisposed = [s \in Sessions |-> FALSE]
  /\ sockets = [s \in Sessions |-> [k \in Tracks |-> "none"]]
  /\ mapped = [s \in Sessions |-> {}]
  /\ connectAt = [s \in Sessions |-> "none"]
  /\ track = [s \in Sessions |-> 0]
  /\ keepsAlive \in [Sessions -> BOOLEAN]
  /\ serverCancelled = [s \in Sessions |-> FALSE]
  /\ receiveAt = [s \in Sessions |-> "none"]
  /\ loopAt = [s \in Sessions |-> [l \in AllLoops |-> "none"]]
  /\ byeSent = [s \in Sessions |-> {}]
  /\ late = [s \in Sessions |-> FALSE]

(***************************************************************************)
(* The session's ConnectAsync                                              *)
(***************************************************************************)
ConnectStep(s, from, to) ==
  /\ connectAt[s] = from
  /\ connectAt' = [connectAt EXCEPT ![s] = to]
  /\ UNCHANGED <<parameters, appVars, closerVars, keepsAlive, receiveVars>>

MakeTransport(s) ==
  /\ ConnectStep(s, "created", "made")
  /\ transport' = [transport EXCEPT ![s] = "made"]
  /\ UNCHANGED <<transportDisposed, socketVars, track, late>>

\* RtspTcpTransportClient.ConnectAsync makes its TcpClient without a look at
\* its _disposed.
OpenTransport(s) ==
  /\ ConnectStep(s, "made", "connecting")
  /\ transport' = [transport EXCEPT ![s] = "open"]
  /\ late' = [late EXCEPT ![s] = @ \/ sessionDisposed[s]]
  /\ UNCHANGED <<transportDisposed, socketVars, track>>

\* The server answered; the token is looked at before the next request.
Proceeds(s) == transport[s] = "open" /\ ~cancelled

Connected(s) ==
  /\ Proceeds(s)
  /\ ConnectStep(s, "connecting", "describing")
  /\ UNCHANGED <<transportVars, socketVars, track, late>>

\* A mutant of MoreTracks: one too many.
MoreTracksThanThereAre(s) == track[s] <= TrackCount

MoreTracks(s) == track[s] < TrackCount

\* SetupTrackAsync up to its request: over UDP the sockets are made first.
BeginSetup(s, from) ==
  /\ Proceeds(s)
  /\ MoreTracks(s)
  /\ ConnectStep(s, from, "settingUp")
  /\ track' = [track EXCEPT ![s] = @ + 1]
  /\ sockets' = IF OverUdp THEN [sockets EXCEPT ![s][track'[s]] = "open"]
                           ELSE sockets
  /\ UNCHANGED <<transportVars, mapped, late>>

\* OPTIONS and DESCRIBE were answered, or the last SETUP was.
Setup(s) == BeginSetup(s, "describing") \/ BeginSetup(s, "setUp")

SetupAnswered(s) ==
  /\ transport[s] = "open"
  /\ ConnectStep(s, "settingUp", IF OverUdp THEN "mapping" ELSE "setUp")
  /\ UNCHANGED <<transportVars, socketVars, track, late>>

\* Unicast sockets are closed when the request fails, multicast ones are not.
SetupFails(s) ==
  /\ ConnectStep(s, "settingUp", "failed")
  /\ sockets' = IF parameters.rtpTransport = "UDP"
                  THEN [sockets EXCEPT ![s][track[s]] = "closed"] ELSE sockets
  /\ UNCHANGED <<transportVars, mapped, track, late>>

\* The response is read, the sockets bound or connected, and put in the map.
MapSockets(s) ==
  /\ ConnectStep(s, "mapping", "setUp")
  /\ mapped' = [mapped EXCEPT ![s] = @ \union {track[s]}]
  /\ late' = [late EXCEPT ![s] = @ \/ sessionDisposed[s]]
  /\ UNCHANGED <<transportVars, sockets, track>>

\* A header is missing or the sockets fail; only a multicast group that could
\* not be joined closes them.
MappingFails(s) ==
  /\ ConnectStep(s, "mapping", "failed")
  /\ \/ UNCHANGED sockets
     \/ /\ parameters.rtpTransport = "MULTICAST"
        /\ sockets' = [sockets EXCEPT ![s][track[s]] = "closed"]
  /\ UNCHANGED <<transportVars, mapped, track, late>>

SendPlay(s) ==
  /\ Proceeds(s)
  /\ ~MoreTracks(s)
  /\ ConnectStep(s, "setUp", "playing")
  /\ UNCHANGED <<transportVars, socketVars, track, late>>

PlayAnswered(s) ==
  /\ transport[s] = "open"
  /\ ConnectStep(s, "playing", "done")
  /\ UNCHANGED <<transportVars, socketVars, track, late>>

\* A request fails: the answer is an error, the connection is closed, or the
\* token is found cancelled.
RequestFails(s) ==
  /\ connectAt[s] \in {"connecting", "describing", "setUp", "playing"}
  /\ ConnectStep(s, connectAt[s], "failed")
  /\ UNCHANGED <<transportVars, socketVars, track, late>>

(***************************************************************************)
(* The session's ReceiveAsync                                              *)
(***************************************************************************)
LinkedCancelled(s) == cancelled \/ serverCancelled[s]

\* What a loop reads from is still open.
Readable(s, l) ==
  IF OverUdp THEN sockets[s][l[1]] = "open" ELSE transport[s] = "open"

LoopStep(s, l, to) ==
  /\ loopAt[s][l] = "running"
  /\ loopAt' = [loopAt EXCEPT ![s][l] = to]
  /\ UNCHANGED <<parameters, appVars, closerVars, transportVars, socketVars,
                 connectVars,
                 serverCancelled, receiveAt, late>>

\* An RTCP BYE arrives: SessionShutdown cancels the server's token.
ServerSaysBye(s, l) ==
  /\ loopAt[s][l] = "running" /\ l[2] # "rtp" /\ Readable(s, l)
  /\ serverCancelled' = [serverCancelled EXCEPT ![s] = TRUE]
  /\ UNCHANGED <<parameters, appVars, closerVars, transportVars, socketVars,
                 connectVars,
                 receiveAt, loopAt, byeSent, late>>

\* Over TCP a token cancelled during a read ends the loop with an exception,
\* which WithCancellation throws.
TcpLoopCancelled(s, l) ==
  /\ ~OverUdp /\ LinkedCancelled(s)
  /\ LoopStep(s, l, "canceled")
  /\ UNCHANGED byeSent

\* The loop sees the token; an RTP loop then sends its BYE.
LoopStops(s, l) ==
  /\ LinkedCancelled(s)
  /\ l[2] = "rtp" => Readable(s, l)
  /\ LoopStep(s, l, "stopped")
  /\ byeSent' = IF l[2] = "rtp" THEN [byeSent EXCEPT ![s] = @ \union {l[1]}]
                                ELSE byeSent

\* A socket error, at any time and certainly once the socket is closed.
LoopFails(s, l) ==
  /\ LoopStep(s, l, "faulted")
  /\ UNCHANGED byeSent

\* A mutant of LoopsEnded: WhenAny instead of WhenAll.
SomeLoopEnded(s) == \E l \in Loops : loopAt[s][l] # "running"

\* The receive task is complete.
LoopsEnded(s) == \A l \in Loops : loopAt[s][l] # "running"

ReceiveStep(s, from, to) ==
  /\ receiveAt[s] = from
  /\ receiveAt' = [receiveAt EXCEPT ![s] = to]
  /\ UNCHANGED <<parameters, appVars, closerVars, transportVars, socketVars,
                 connectVars,
                 serverCancelled, loopAt, byeSent, late>>

\* The keep-alive delay is over.  Until the request was answered (over UDP)
\* the end of the receive task goes unnoticed.
SendKeepAlive(s) ==
  /\ keepsAlive[s] /\ ~LoopsEnded(s) /\ ~LinkedCancelled(s)
  /\ ReceiveStep(s, "receiving", "keepAlive")

KeepAliveDone(s) ==
  /\ transport[s] = "open"
  /\ ReceiveStep(s, "keepAlive", "receiving")

KeepAliveFails(s) == ReceiveStep(s, "keepAlive", "failed")

\* All loops stopped because of the token: TEARDOWN is sent.
SendTeardown(s) ==
  /\ LoopsEnded(s)
  /\ \A l \in Loops : loopAt[s][l] \notin {"faulted", "canceled"}
  /\ ReceiveStep(s, "receiving", "teardown")

TeardownDone(s) ==
  /\ transport[s] = "open"
  /\ ReceiveStep(s, "teardown", "ended")

TeardownFails(s) == ReceiveStep(s, "teardown", "failed")

ReceiveTaskFails(s) ==
  /\ LoopsEnded(s)
  /\ \E l \in Loops : loopAt[s][l] \in {"faulted", "canceled"}
  /\ ReceiveStep(s, "receiving", "failed")

(***************************************************************************)
(* Dispose: RtspClient.Dispose by any thread, and RtspClientInternal's by  *)
(* it and by the application's own calls when they end                     *)
(***************************************************************************)
DisposeStep(c, from, to) ==
  /\ closerAt[c] = from
  /\ closerAt' = [closerAt EXCEPT ![c] = to]
  /\ UNCHANGED <<parameters, appVars, disposed, connectVars, receiveVars, late>>

Returned(c) == IF c = App THEN "idle" ELSE "returned"

\* The first call disposes the session _rtspClientInternal holds now, if any.
CallDispose(c) ==
  /\ closerAt[c] = "idle"
  /\ disposed' = TRUE
  /\ IF disposed \/ client = Null
       THEN /\ closerAt' = [closerAt EXCEPT ![c] = "returned"]
            /\ UNCHANGED closing
       ELSE /\ closerAt' = [closerAt EXCEPT ![c] = "flagging"]
            /\ closing' = [closing EXCEPT ![c] = client]
  /\ UNCHANGED <<parameters, appVars, sessionDisposed, connectVars,
                 receiveVars, transportVars, socketVars, late>>

\* Only the first Dispose of a session goes on.
FlagSession(c) ==
  LET s == closing[c]
  IN  /\ DisposeStep(c, "flagging", IF sessionDisposed[s] THEN Returned(c)
                                                          ELSE "closingSockets")
      /\ sessionDisposed' = [sessionDisposed EXCEPT ![s] = TRUE]
      /\ closing' = IF sessionDisposed[s] THEN [closing EXCEPT ![c] = Null]
                                          ELSE closing
      /\ UNCHANGED <<transportVars, socketVars>>

\* A mutant of AfterClose: the sockets are left to the transport.
AfterCloseNothing(s) == sockets[s]

\* The sockets of the tracks in the map are closed.
AfterClose(s) ==
  [k \in Tracks |-> IF k \in mapped[s] THEN "closed" ELSE sockets[s][k]]

CloseSockets(c) ==
  /\ DisposeStep(c, "closingSockets", "closingTransport")
  /\ sockets' = [sockets EXCEPT ![closing[c]] = AfterClose(closing[c])]
  /\ UNCHANGED <<closing, sessionDisposed, transportVars, mapped>>

\* The transport closes its connection if it was made by now.
CloseTransport(c) ==
  LET s == closing[c]
  IN  /\ DisposeStep(c, "closingTransport", Returned(c))
      /\ closing' = [closing EXCEPT ![c] = Null]
      /\ transportDisposed' =
           [transportDisposed EXCEPT ![s] = @ \/ transport[s] # "none"]
      /\ transport' = IF transport[s] = "open" /\ ~transportDisposed[s]
                        THEN [transport EXCEPT ![s] = "closed"] ELSE transport
      /\ UNCHANGED <<sessionDisposed, socketVars>>

SessionDispose(c) == FlagSession(c) \/ CloseSockets(c) \/ CloseTransport(c)

(***************************************************************************)
(* The application                                                         *)
(***************************************************************************)
AppStep(from, to) ==
  /\ appAt = from
  /\ appAt' = to
  /\ UNCHANGED <<parameters, disposed, sessionDisposed, transportVars,
                 socketVars, late>>

\* The application does not connect a client it has disposed, and Task.Run
\* does not start when the token is cancelled.
ConnectAsync ==
  /\ ~disposed /\ ~cancelled
  /\ created < MaxSessions
  /\ AppStep("idle", "connecting")
  /\ created' = created + 1
  /\ client' = created'
  /\ connectAt' = [connectAt EXCEPT ![created'] = "created"]
  /\ UNCHANGED <<cancelled, closerAt, closing, track, keepsAlive, receiveVars>>

ConnectSucceeds ==
  /\ appAt = "connecting" /\ connectAt[client] = "done"
  /\ AppStep("connecting", "connected")
  /\ UNCHANGED <<client, created, cancelled, closerAt, closing, connectVars,
                 receiveVars>>

\* The application begins to dispose the session.
AppDisposes(from, to) ==
  /\ AppStep(from, to)
  /\ closerAt' = [closerAt EXCEPT ![App] = "flagging"]
  /\ closing' = [closing EXCEPT ![App] = client]
  /\ UNCHANGED <<client, created, cancelled, connectVars, receiveVars>>

ConnectFails ==
  /\ appAt = "connecting" /\ connectAt[client] = "failed"
  /\ AppDisposes("connecting", "failing")

\* The connect timeout is over or the token cancelled, seen once the session's
\* ConnectAsync waits for the server.
ConnectGivesUp ==
  /\ appAt = "connecting"
  /\ connectAt[client] \notin {"created", "made", "done", "failed"}
  /\ AppDisposes("connecting", "failing")

\* Over TCP GetStream throws when the connection is closed already.
ReceiveAsync ==
  LET starts == OverUdp \/ transport[client] = "open"
  IN  /\ AppStep("connected", "receiving")
      /\ receiveAt' = [receiveAt EXCEPT ![client] =
                         IF starts THEN "receiving" ELSE "failed"]
      /\ loopAt' = IF starts
                     THEN [loopAt EXCEPT ![client] =
                            [l \in AllLoops |->
                               IF l \in Loops THEN "running" ELSE "none"]]
                     ELSE loopAt
      /\ UNCHANGED <<client, created, cancelled, closerAt, closing, connectVars,
                     serverCancelled, byeSent>>

SessionEnded == receiveAt[client] \in {"ended", "failed"}

ReceiveCompletes ==
  /\ appAt \in {"receiving", "cancelling", "awaiting"}
  /\ SessionEnded
  /\ AppDisposes(appAt, "finishing")

\* No frame for a whole ReceiveTimeout.
ReceiveTimesOut == AppDisposes("receiving", "finishing")

ReceiveCancelled ==
  /\ cancelled /\ ~parameters.cancelTimeoutIsZero
  /\ AppStep("receiving", "cancelling")
  /\ UNCHANGED <<client, created, cancelled, closerAt, closing, connectVars,
                 receiveVars>>

\* A mutant of CancelTimesOut: the session is only waited for.
CancelTimesOutWaiting ==
  /\ \E from \in {"receiving", "cancelling"} : AppStep(from, "awaiting")
  /\ cancelled
  /\ UNCHANGED <<client, created, cancelled, closerAt, closing, connectVars,
                 receiveVars>>

\* The session had CancelTimeout to end by itself.
CancelTimesOut ==
  \/ /\ cancelled /\ parameters.cancelTimeoutIsZero
     /\ AppDisposes("receiving", "cutting")
  \/ AppDisposes("cancelling", "cutting")

\* After the Dispose on cancellation the session's task is waited for.
AwaitSession ==
  /\ closerAt[App] = "idle"
  /\ AppStep("cutting", "awaiting")
  /\ UNCHANGED <<client, created, cancelled, closerAt, closing, connectVars,
                 receiveVars>>

\* The call ends; the application may connect again.
ClearClient ==
  /\ appAt \in {"failing", "finishing"} /\ closerAt[App] = "idle"
  /\ AppStep(appAt, "idle")
  /\ client' = Null
  /\ UNCHANGED <<created, cancelled, closerAt, closing, connectVars, receiveVars>>

Cancel ==
  /\ ~cancelled
  /\ cancelled' = TRUE
  /\ UNCHANGED <<parameters, appAt, client, created, closerVars,
                 transportVars, socketVars, connectVars, receiveVars, late>>

(***************************************************************************)
(* The specification                                                       *)
(***************************************************************************)
Connecting(s) ==
  \/ MakeTransport(s) \/ OpenTransport(s) \/ Connected(s) \/ Setup(s)
  \/ SetupAnswered(s) \/ SetupFails(s) \/ MapSockets(s) \/ MappingFails(s)
  \/ SendPlay(s) \/ PlayAnswered(s) \/ RequestFails(s)

Receiving(s) ==
  \/ \E l \in Loops : \/ ServerSaysBye(s, l) \/ TcpLoopCancelled(s, l)
                      \/ LoopStops(s, l) \/ LoopFails(s, l)
  \/ SendKeepAlive(s) \/ KeepAliveDone(s) \/ KeepAliveFails(s)
  \/ SendTeardown(s) \/ TeardownDone(s) \/ TeardownFails(s)
  \/ ReceiveTaskFails(s)

AppProgress ==
  \/ ConnectSucceeds \/ ConnectFails \/ ConnectGivesUp
  \/ ReceiveCompletes \/ ReceiveCancelled \/ CancelTimesOut
  \/ AwaitSession \/ ClearClient

Next ==
  \/ ConnectAsync \/ ReceiveAsync \/ Cancel \/ AppProgress \/ ReceiveTimesOut
  \/ \E s \in Sessions : Connecting(s) \/ Receiving(s)
  \/ \E c \in Closers : CallDispose(c)
  \/ \E c \in Callers : SessionDispose(c)

Spec == Init /\ [][Next]_vars

\* What ends without the server: a call on a closed connection fails, a loop
\* that sees the token or a closed socket ends, local calls return.
EndsByItself(s) ==
  \/ MakeTransport(s) \/ OpenTransport(s) \/ MapSockets(s) \/ MappingFails(s)
  \/ /\ transport[s] = "closed"
     /\ RequestFails(s) \/ SetupFails(s) \/ KeepAliveFails(s) \/ TeardownFails(s)
  \/ SendTeardown(s) \/ ReceiveTaskFails(s)

LoopEnds(s, l) ==
  \/ TcpLoopCancelled(s, l) \/ LoopStops(s, l)
  \/ l \in Loops /\ ~Readable(s, l) /\ LoopFails(s, l)

\* Threads run and timers fire.  Nothing makes the server answer or be silent.
FairSpec ==
  /\ Spec
  /\ WF_vars(AppProgress)
  /\ \A c \in Callers : WF_vars(SessionDispose(c))
  /\ \A s \in Sessions :
       /\ WF_vars(EndsByItself(s))
       /\ \A l \in AllLoops : WF_vars(LoopEnds(s, l))

(***************************************************************************)
(* Properties                                                              *)
(***************************************************************************)
TypeOK ==
  /\ parameters \in [rtpTransport : Transports, cancelTimeoutIsZero : BOOLEAN]
  /\ appAt \in {"idle", "connecting", "failing", "connected", "receiving",
                "cancelling", "cutting", "awaiting", "finishing"}
  /\ client \in 0 .. created /\ created \in 0 .. MaxSessions
  /\ cancelled \in BOOLEAN /\ disposed \in BOOLEAN
  /\ closerAt \in [Callers -> {"idle", "flagging", "closingSockets",
                               "closingTransport", "returned"}]
  /\ closing \in [Callers -> 0 .. created]
  /\ sessionDisposed \in [Sessions -> BOOLEAN]
  /\ transport \in [Sessions -> {"none", "made", "open", "closed"}]
  /\ transportDisposed \in [Sessions -> BOOLEAN]
  /\ sockets \in [Sessions -> [Tracks -> {"none", "open", "closed"}]]
  /\ mapped \in [Sessions -> SUBSET Tracks]
  /\ connectAt \in [Sessions -> {"none", "created", "made", "connecting",
                                 "describing", "settingUp", "mapping", "setUp",
                                 "playing", "done", "failed"}]
  /\ track \in [Sessions -> 0 .. TrackCount]
  /\ keepsAlive \in [Sessions -> BOOLEAN]
  /\ serverCancelled \in [Sessions -> BOOLEAN]
  /\ receiveAt \in [Sessions -> {"none", "receiving", "keepAlive", "teardown",
                                 "ended", "failed"}]
  /\ loopAt \in [Sessions -> [AllLoops -> {"none", "running", "stopped",
                                           "canceled", "faulted"}]]
  /\ byeSent \in [Sessions -> SUBSET Tracks]
  /\ late \in [Sessions -> BOOLEAN]

\* No Dispose is at work on s.
Undisturbed(s) == \A c \in Callers : closing[c] # s

AllClosed(s) ==
  /\ transport[s] \notin {"made", "open"}
  /\ \A k \in Tracks : sockets[s][k] # "open"

\* A session that was connected is closed to the last socket once it was
\* disposed (RtspClientInternal.cs:157-172), whoever disposed it and whatever
\* was under way, unless that came before the transport or the sockets.
ClosedUnlessLate ==
  \A s \in Sessions :
    sessionDisposed[s] /\ Undisturbed(s) /\ connectAt[s] = "done" =>
      AllClosed(s) \/ late[s]

\* Before TEARDOWN every RTP loop has stopped and sent its RTCP BYE
\* (RtspClientInternal.cs:141, :152, :779-785).
ByeBeforeTeardown ==
  \A s \in Sessions :
    OverUdp /\ receiveAt[s] \in {"teardown", "ended"} => byeSent[s] = Tracks

\* The application gives a session up (RtspClient.cs:98, :200) only when it was
\* disposed, so a new ConnectAsync never leaves an older session connected.
GivenUpIsDisposed ==
  \A s \in Sessions : s <= created /\ s # client => sessionDisposed[s]

\* From ConnectAsync to the last socket: a session that is given up was
\* disposed, and what was disposed is closed.
NothingIsLeftOpen == GivenUpIsDisposed /\ ClosedUnlessLate

\* ReceiveAsync ends after its token was cancelled, even if the server says
\* nothing more (RtspClient.cs:162-171): either the session ends by itself or
\* the connection is pulled from under it.
CancelEndsReceive ==
  cancelled /\ appAt \in {"receiving", "cancelling", "cutting", "awaiting"} ~>
    appAt = "idle" \/ late[created]

\* A session that was given up winds down: what its ConnectAsync and its loops
\* wait for fails (RtspClient.cs:83, :175).
SessionsWindDown ==
  \A s \in Sessions :
    sessionDisposed[s] ~>
      \/ late[s]
      \/ /\ connectAt[s] \in {"done", "failed"}
         /\ receiveAt[s] \in {"none", "ended", "failed"}
         /\ \A l \in Loops : loopAt[s][l] # "running"

\* Both ends of a session come: for the caller and for what works for it.
SessionEnds == CancelEndsReceive /\ SessionsWindDown
=============================================================================
