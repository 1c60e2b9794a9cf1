------------------------- MODULE RtspSession_proofs -------------------------
(***************************************************************************)
(* Proofs about RtspSession, for any number of sessions, tracks and        *)
(* threads that dispose.  The invariant has a part for each actor: the     *)
(* threads in Dispose, the application, the receive loops and the session's*)
(* own ConnectAsync; the last part says what a disposed session holds.     *)
(* The clocks of a receiving session, SessionTimers, follow at the end.    *)
(***************************************************************************)
EXTENDS RtspSession, SessionTimers, TLAPS

Closing == {"closingSockets", "closingTransport"}

\* A thread inside Dispose works on a session; once past the flag it is the
\* only one, and the session's transport was not disposed before.
CloserInv ==
  /\ \A c \in Callers :
       /\ closerAt[c] \in {"idle", "returned"} => closing[c] = Null
       /\ closerAt[c] \notin {"idle", "returned"} => closing[c] \in 1 .. created
       /\ closerAt[c] \in Closing =>
            sessionDisposed[closing[c]] /\ ~transportDisposed[closing[c]]
  /\ \A c, d \in Callers :
       closerAt[c] \in Closing /\ closerAt[d] \in Closing
         /\ closing[c] = closing[d] => c = d
  /\ \A s \in Sessions : transportDisposed[s] => sessionDisposed[s]

\* Where the application disposes its session, it has been flagged by the time
\* the application's own call of Dispose is over.
AppInv ==
  /\ appAt = "idle" => client = Null
  /\ appAt # "idle" => client \in 1 .. created
  /\ closerAt[App] # "returned"
  /\ closerAt[App] # "idle" =>
       appAt \in {"failing", "cutting", "finishing"} /\ closing[App] = client
  /\ closerAt[App] = "idle" /\ appAt \in {"failing", "cutting", "finishing"} =>
       sessionDisposed[client]
  /\ GivenUpIsDisposed

\* A session that receives has started its loops, and a loop that stopped has
\* said BYE.
LoopInv ==
  /\ \A s \in Sessions :
       /\ receiveAt[s] \in {"receiving", "keepAlive"} =>
            \A l \in Loops : loopAt[s][l] # "none"
       /\ \A k \in Tracks : loopAt[s][<<k, "rtp">>] = "stopped" => k \in byeSent[s]
  /\ ByeBeforeTeardown

\* Sockets are in the map once their track is set up, and the transport is made
\* and opened where ConnectAsync does it.
SetupInv ==
  \A s \in Sessions :
    /\ \A k \in Tracks : sockets[s][k] = "open" =>
         /\ OverUdp
         /\ k \in mapped[s] \/ connectAt[s] = "failed"
              \/ (connectAt[s] \in {"settingUp", "mapping"} /\ k = track[s])
    /\ \A k \in mapped[s] : k <= track[s]
    /\ connectAt[s] \in {"settingUp", "mapping"} => track[s] \in Tracks
    /\ connectAt[s] \in {"none", "created"} => transport[s] = "none"
    /\ connectAt[s] = "made" => transport[s] = "made"
    /\ connectAt[s] \notin {"none", "created", "made"} =>
         transport[s] \in {"open", "closed"}

\* What was opened and mapped before the flag is closed, or a thread is about
\* to close it.
DisposedInv ==
  \A s \in Sessions : sessionDisposed[s] /\ ~late[s] =>
    /\ \/ \E c \in Callers : closing[c] = s /\ closerAt[c] = "closingSockets"
       \/ \A k \in mapped[s] : sockets[s][k] # "open"
    /\ \/ \E c \in Callers : closing[c] = s /\ closerAt[c] \in Closing
       \/ transport[s] # "open"

\* A session that was not made yet has not begun to connect.
CreatedInv == \A s \in Sessions : s > created => connectAt[s] = "none"

IInv ==
  /\ TypeOK /\ CloserInv /\ AppInv /\ LoopInv /\ SetupInv /\ DisposedInv
  /\ CreatedInv
-----------------------------------------------------------------------------
LEMMA InitInv == Init => IInv
<1> SUFFICES ASSUME Init PROVE IInv
  OBVIOUS
<1> USE BoundsAssumption, CallersAssumption DEF Init, Sessions, Tracks,
    Callers, Null
<1>1. TypeOK
  <2>1. client \in 0 .. created /\ created \in 0 .. MaxSessions
    <3>1. client = 0 /\ created = 0 /\ MaxSessions \in Nat
      OBVIOUS
    <3> QED BY ONLY <3>1
  <2>2. /\ parameters \in [rtpTransport : Transports, cancelTimeoutIsZero : BOOLEAN]
        /\ appAt = "idle" /\ cancelled \in BOOLEAN /\ disposed \in BOOLEAN
    OBVIOUS
  <2>3. /\ closerAt \in [Callers -> {"idle", "flagging", "closingSockets",
                                     "closingTransport", "returned"}]
        /\ closing \in [Callers -> 0 .. created]
    BY <2>1
  <2>4. /\ sessionDisposed \in [Sessions -> BOOLEAN]
        /\ transportDisposed \in [Sessions -> BOOLEAN]
        /\ serverCancelled \in [Sessions -> BOOLEAN]
        /\ late \in [Sessions -> BOOLEAN] /\ keepsAlive \in [Sessions -> BOOLEAN]
    OBVIOUS
  <2>5. /\ sockets \in [Sessions -> [Tracks -> {"none", "open", "closed"}]]
        /\ loopAt \in [Sessions -> [AllLoops -> {"none", "running", "stopped",
                                                 "canceled", "faulted"}]]
    OBVIOUS
  <2> QED BY <2>1, <2>4, <2>5, <2>3, <2>2 DEF TypeOK
<1>2. CloserInv BY DEF CloserInv, Closing
<1>3. AppInv BY DEF AppInv, GivenUpIsDisposed
<1>4. LoopInv
  BY DEF LoopInv, ByeBeforeTeardown, Loops, AllLoops, TcpLoops, UdpLoops
<1>5. SetupInv BY DEF SetupInv
<1>6. DisposedInv BY DEF DisposedInv
<1>7. CreatedInv BY DEF CreatedInv
<1> QED BY <1>1, <1>2, <1>3, <1>4, <1>5, <1>6, <1>7 DEF IInv
-----------------------------------------------------------------------------

\* What a step may do to a disposed session without a mark in late.
OpensNothingUnnoticed ==
  \A s \in Sessions : sessionDisposed[s] /\ ~late'[s] =>
    /\ ~late[s]
    /\ mapped'[s] = mapped[s]
    /\ transport'[s] = "open" => transport[s] = "open"
    /\ \A k \in mapped[s] : sockets'[s][k] = "open" => sockets[s][k] = "open"

LEMMA DisposedStays ==
  ASSUME DisposedInv, OpensNothingUnnoticed, UNCHANGED <<sessionDisposed, closerAt, closing>>
  PROVE  DisposedInv'
  BY DEF DisposedInv, OpensNothingUnnoticed, Closing

\* A step of a session's ConnectAsync.
LEMMA ConnectingStep ==
  ASSUME IInv, NEW s \in Sessions, Connecting(s)
  PROVE  IInv'
<1> USE BoundsAssumption, CallersAssumption
<1>1. UNCHANGED <<parameters, appVars, closerVars, receiveVars, keepsAlive,
                  transportDisposed>>
  BY DEF Connecting, MakeTransport, OpenTransport, Connected, Setup, BeginSetup,
         SetupAnswered, SetupFails, MapSockets, MappingFails, SendPlay,
         PlayAnswered, RequestFails, ConnectStep, transportVars
<1>2. CloserInv' /\ AppInv' /\ LoopInv'
  BY <1>1 DEF IInv, CloserInv, Closing, AppInv, GivenUpIsDisposed, LoopInv,
              ByeBeforeTeardown, Loops, OverUdp, appVars, closerVars, receiveVars
<1>3. /\ TypeOK /\ SetupInv /\ mapped[s] \subseteq Tracks /\ TrackCount \in Nat
      /\ connectAt \in [Sessions -> {"none", "created", "made", "connecting", "describing",
                                  "settingUp", "mapping", "setUp", "playing", "done",
                                  "failed"}]
      /\ transport \in [Sessions -> {"none", "made", "open", "closed"}]
      /\ sockets \in [Sessions -> [Tracks -> {"none", "open", "closed"}]]
      /\ mapped \in [Sessions -> SUBSET Tracks]
      /\ track \in [Sessions -> 0 .. TrackCount]
      /\ late \in [Sessions -> BOOLEAN]
  BY DEF IInv, TypeOK
<1>4. /\ transport' \in [Sessions -> {"none", "made", "open", "closed"}]
      /\ sockets' \in [Sessions -> [Tracks -> {"none", "open", "closed"}]]
      /\ mapped' \in [Sessions -> SUBSET Tracks]
      /\ connectAt' \in [Sessions -> {"none", "created", "made", "connecting", "describing",
                                  "settingUp", "mapping", "setUp", "playing", "done",
                                  "failed"}]
      /\ track' \in [Sessions -> 0 .. TrackCount]
      /\ late' \in [Sessions -> BOOLEAN]
      => TypeOK'
  BY <1>1, <1>3 DEF TypeOK, appVars, closerVars, receiveVars
<1>5. connectAt[s] # "none" /\ \E x : connectAt' = [connectAt EXCEPT ![s] = x]
  BY DEF Connecting, MakeTransport, OpenTransport, Connected, Setup, BeginSetup,
         SetupAnswered, SetupFails, MapSockets, MappingFails, SendPlay,
         PlayAnswered, RequestFails, ConnectStep
<1>6. CreatedInv'
  BY <1>1, <1>3, <1>5 DEF IInv, CreatedInv, appVars
<1>7. SUFFICES TypeOK' /\ SetupInv' /\ OpensNothingUnnoticed
  BY <1>1, <1>2, <1>6, DisposedStays DEF IInv, closerVars
<1>8. /\ OverUdp' = OverUdp /\ UNCHANGED <<sessionDisposed, closerAt, closing>>
  BY <1>1 DEF OverUdp, closerVars
<1>9. CASE Connected(s) \/ SetupAnswered(s) \/ SendPlay(s) \/ PlayAnswered(s)
             \/ RequestFails(s)
  <2>1. UNCHANGED <<transport, sockets, mapped, track, late>>
    BY <1>9 DEF Connected, SetupAnswered, SendPlay, PlayAnswered, RequestFails,
                transportVars, socketVars
  <2>2. PICK to \in {"describing", "mapping", "setUp", "playing", "done", "failed"} :
          /\ connectAt' = [connectAt EXCEPT ![s] = to]
          /\ connectAt[s] \notin {"none", "created", "made"}
          /\ to = "mapping" => connectAt[s] = "settingUp"
          /\ connectAt[s] \in {"settingUp", "mapping"} => to = "mapping" \/ ~OverUdp
          /\ to = "failed" \/ connectAt[s] # "failed"
    BY <1>9 DEF Connected, SetupAnswered, SendPlay, PlayAnswered, RequestFails,
                ConnectStep
  <2>3. TypeOK'
    BY <1>3, <1>4, <2>1, <2>2
  <2>4. SetupInv'
    BY <1>3, <1>8, <2>1, <2>2 DEF SetupInv
  <2>5. OpensNothingUnnoticed
    BY <2>1 DEF OpensNothingUnnoticed
  <2> QED BY <2>3, <2>4, <2>5
<1>10. CASE MakeTransport(s) \/ OpenTransport(s)
  <2>1. /\ UNCHANGED <<sockets, mapped, track>>
        /\ \/ /\ connectAt[s] = "created"
              /\ connectAt' = [connectAt EXCEPT ![s] = "made"]
              /\ transport' = [transport EXCEPT ![s] = "made"] /\ late' = late
           \/ /\ connectAt[s] = "made"
              /\ connectAt' = [connectAt EXCEPT ![s] = "connecting"]
              /\ transport' = [transport EXCEPT ![s] = "open"]
              /\ late' = [late EXCEPT ![s] = @ \/ sessionDisposed[s]]
    BY <1>10 DEF MakeTransport, OpenTransport, ConnectStep, socketVars
  <2>2. late' \in [Sessions -> BOOLEAN]
    BY <1>3, <2>1
  <2>3. TypeOK'
    BY <1>3, <1>4, <2>1, <2>2
  <2>4. SetupInv'
    BY <1>3, <1>8, <2>1 DEF SetupInv
  <2>5. \A x \in Sessions :
          /\ late[x] => late'[x]
          /\ \/ transport'[x] = transport[x]
             \/ transport'[x] = "made"
             \/ x = s /\ (sessionDisposed[s] => late'[s])
    BY <1>3, <2>1
  <2>6. OpensNothingUnnoticed
    BY <2>1, <2>5 DEF OpensNothingUnnoticed
  <2> QED BY <2>3, <2>4, <2>6
<1>11. CASE Setup(s)
  <2> DEFINE k == track[s] + 1
  <2>1. /\ track' = [track EXCEPT ![s] = k]
        /\ track'[s] = k /\ k \in Tracks /\ track[s] < k /\ track[s] \in Nat
        /\ k \in 0 .. TrackCount
    BY <1>3, <1>11 DEF Setup, BeginSetup, MoreTracks, Tracks
  <2>2. sockets' = IF OverUdp THEN [sockets EXCEPT ![s][k] = "open"] ELSE sockets
    BY <1>11, <2>1 DEF Setup, BeginSetup
  <2>3. /\ connectAt' = [connectAt EXCEPT ![s] = "settingUp"]
        /\ connectAt[s] \in {"describing", "setUp"}
        /\ UNCHANGED <<mapped, transport, late>>
    BY <1>11 DEF Setup, BeginSetup, ConnectStep, transportVars
  <2>4. \A j \in mapped[s] : j <= k /\ j # k
    BY <1>3, <2>1 DEF SetupInv, Tracks
  <2> HIDE DEF k
  <2>5. sockets' \in [Sessions -> [Tracks -> {"none", "open", "closed"}]]
    BY <1>3, <2>2
  <2>6. \A x \in Sessions, j \in Tracks :
          \/ sockets'[x][j] = sockets[x][j]
          \/ OverUdp /\ x = s /\ j = k
    BY <1>3, <2>1, <2>2
  <2>7. TypeOK'
    BY <1>3, <1>4, <2>1, <2>3, <2>5
  <2>8. SetupInv'
    BY <1>3, <1>8, <2>1, <2>3, <2>4, <2>6 DEF SetupInv
  <2>9. OpensNothingUnnoticed
    BY <1>3, <2>3, <2>4, <2>6 DEF OpensNothingUnnoticed
  <2> QED BY <2>7, <2>8, <2>9
<1>12. CASE SetupFails(s) \/ MappingFails(s)
  <2>1. /\ UNCHANGED <<mapped, transport, track, late>>
        /\ connectAt' = [connectAt EXCEPT ![s] = "failed"]
        /\ connectAt[s] \in {"settingUp", "mapping"}
        /\ \/ sockets' = sockets
           \/ sockets' = [sockets EXCEPT ![s][track[s]] = "closed"]
    BY <1>12 DEF SetupFails, MappingFails, ConnectStep, transportVars
  <2>2. sockets' \in [Sessions -> [Tracks -> {"none", "open", "closed"}]]
    <3> DEFINE k == track[s]
    <3>1. \/ sockets' = sockets
          \/ sockets' = [sockets EXCEPT ![s][k] = "closed"]
      BY <2>1
    <3> HIDE DEF k
    <3> QED BY <1>3, <3>1
  <2>3. \A x \in Sessions, j \in Tracks : sockets'[x][j] = "open" => sockets[x][j] = "open"
    BY <1>3, <2>1
  <2>4. TypeOK'
    BY <1>3, <1>4, <2>1, <2>2
  <2>5. SetupInv'
    BY <1>3, <1>8, <2>1, <2>3 DEF SetupInv
  <2>6. OpensNothingUnnoticed
    BY <1>3, <2>1, <2>3 DEF OpensNothingUnnoticed
  <2> QED BY <2>4, <2>5, <2>6
<1>13. CASE MapSockets(s)
  <2>1. /\ UNCHANGED <<sockets, transport, track>>
        /\ connectAt' = [connectAt EXCEPT ![s] = "setUp"] /\ connectAt[s] = "mapping"
        /\ mapped' = [mapped EXCEPT ![s] = @ \union {track[s]}]
        /\ late' = [late EXCEPT ![s] = @ \/ sessionDisposed[s]]
    BY <1>13 DEF MapSockets, ConnectStep, transportVars
  <2>2. track[s] \in Tracks /\ track[s] <= track[s]
    BY <1>3, <2>1 DEF SetupInv, Tracks
  <2>3. mapped' \in [Sessions -> SUBSET Tracks] /\ late' \in [Sessions -> BOOLEAN]
    BY <1>3, <2>1, <2>2
  <2>4. TypeOK'
    BY <1>3, <1>4, <2>1, <2>3
  <2>5. SetupInv'
    BY <1>3, <1>8, <2>1, <2>2 DEF SetupInv
  <2>6. OpensNothingUnnoticed
    BY <1>3, <2>1 DEF OpensNothingUnnoticed
  <2> QED BY <2>4, <2>5, <2>6
<1> QED BY <1>9, <1>10, <1>11, <1>12, <1>13 DEF Connecting
-----------------------------------------------------------------------------
\* A step of a session's ReceiveAsync.
LEMMA ReceivingStep ==
  ASSUME IInv, NEW s \in Sessions, Receiving(s)
  PROVE  IInv'
<1>1. UNCHANGED <<parameters, appVars, closerVars, transportVars, socketVars,
                  connectVars, late>>
  BY DEF Receiving, ServerSaysBye, TcpLoopCancelled, LoopStops, LoopFails,
         SendKeepAlive, KeepAliveDone, KeepAliveFails, SendTeardown,
         TeardownDone, TeardownFails, ReceiveTaskFails, LoopStep, ReceiveStep
<1>2. CloserInv' /\ AppInv'
  BY <1>1 DEF IInv, CloserInv, Closing, AppInv, GivenUpIsDisposed, appVars,
              closerVars, transportVars
<1>3. SetupInv' /\ CreatedInv'
  BY <1>1 DEF IInv, SetupInv, OverUdp, CreatedInv, appVars, transportVars,
              socketVars, connectVars
<1>4. DisposedInv'
  BY <1>1 DEF IInv, DisposedInv, Closing, closerVars, transportVars, socketVars
<1>5. SUFFICES TypeOK' /\ LoopInv'
  BY <1>2, <1>3, <1>4 DEF IInv
<1>6. /\ serverCancelled' \in [Sessions -> BOOLEAN]
      /\ receiveAt' \in [Sessions -> {"none", "receiving", "keepAlive", "teardown",
                                      "ended", "failed"}]
      /\ loopAt' \in [Sessions -> [AllLoops -> {"none", "running", "stopped",
                                                "canceled", "faulted"}]]
      /\ byeSent' \in [Sessions -> SUBSET Tracks]
      => TypeOK'
  BY <1>1 DEF IInv, TypeOK, appVars, closerVars, transportVars, socketVars,
              connectVars
<1>7. Loops' = Loops /\ OverUdp' = OverUdp
  BY <1>1 DEF Loops, OverUdp
<1>8. Loops \subseteq AllLoops
  BY DEF Loops, AllLoops
<1>9. ASSUME NEW l \in Loops, ServerSaysBye(s, l) PROVE TypeOK' /\ LoopInv'
  <2>1. /\ serverCancelled' = [serverCancelled EXCEPT ![s] = TRUE]
        /\ UNCHANGED <<receiveAt, loopAt, byeSent>>
    BY <1>9 DEF ServerSaysBye
  <2>2. TypeOK'
    BY <1>6, <2>1 DEF IInv, TypeOK
  <2>3. LoopInv'
    BY <1>7, <2>1 DEF IInv, LoopInv, ByeBeforeTeardown
  <2> QED BY <2>2, <2>3
<1>10. ASSUME NEW l \in Loops, NEW to \in {"stopped", "canceled", "faulted"},
              LoopStep(s, l, to),
              \/ UNCHANGED byeSent /\ to # "stopped"
              \/ byeSent' = [byeSent EXCEPT ![s] = @ \union {l[1]}] /\ l[2] = "rtp"
              \/ UNCHANGED byeSent /\ l[2] # "rtp"
       PROVE  TypeOK' /\ LoopInv'
  <2>1. /\ loopAt' = [loopAt EXCEPT ![s][l] = to]
        /\ UNCHANGED <<serverCancelled, receiveAt>>
    BY <1>10 DEF LoopStep
  <2>2. l \in AllLoops /\ (l[2] = "rtp" => l[1] \in Tracks)
    BY DEF Loops, AllLoops, TcpLoops, UdpLoops
  <2>3. /\ serverCancelled \in [Sessions -> BOOLEAN]
        /\ receiveAt \in [Sessions -> {"none", "receiving", "keepAlive", "teardown",
                                      "ended", "failed"}]
        /\ loopAt \in [Sessions -> [AllLoops -> {"none", "running", "stopped",
                                                 "canceled", "faulted"}]]
        /\ byeSent \in [Sessions -> SUBSET Tracks]
    BY DEF IInv, TypeOK
  <2>4. loopAt' \in [Sessions -> [AllLoops -> {"none", "running", "stopped",
                                              "canceled", "faulted"}]]
    BY <2>1, <2>2, <2>3
  <2>5. byeSent' \in [Sessions -> SUBSET Tracks]
    BY <1>10, <2>2, <2>3
  <2>6. \A x \in Sessions : byeSent[x] \subseteq byeSent'[x]
    BY <1>10, <2>3
  <2>7. \A x \in Sessions, k \in AllLoops :
          \/ loopAt'[x][k] = loopAt[x][k]
          \/ x = s /\ k = l /\ loopAt'[x][k] = to
    BY <2>1, <2>2, <2>3
  <2>8. TypeOK'
    BY <1>6, <2>1, <2>3, <2>4, <2>5
  <2>9. ASSUME NEW x \in Sessions, NEW k \in Tracks,
               loopAt'[x][<<k, "rtp">>] = "stopped"
        PROVE  k \in byeSent'[x]
    <3>1. <<k, "rtp">> \in AllLoops
      BY DEF AllLoops, UdpLoops
    <3>2. CASE loopAt[x][<<k, "rtp">>] = "stopped"
      BY <3>2, <2>6 DEF IInv, LoopInv
    <3>3. CASE x = s /\ <<k, "rtp">> = l /\ to = "stopped"
      <4>1. l[1] = k /\ l[2] = "rtp"
        BY <3>3
      <4> QED BY <1>10, <3>3, <4>1, <2>3
    <3> QED BY <3>1, <3>2, <3>3, <2>7, <2>9
  <2>10. ASSUME NEW x \in Sessions, receiveAt'[x] \in {"receiving", "keepAlive"}
         PROVE  \A k \in Loops' : loopAt'[x][k] # "none"
    BY <1>7, <1>8, <2>1, <2>7, <2>10 DEF IInv, LoopInv
  <2>11. ByeBeforeTeardown'
    BY <1>7, <2>1, <2>5, <2>6 DEF IInv, LoopInv, ByeBeforeTeardown
  <2>12. LoopInv'
    BY <2>9, <2>10, <2>11 DEF LoopInv
  <2> QED BY <2>8, <2>12
<1>11. ASSUME NEW l \in Loops, TcpLoopCancelled(s, l) \/ LoopFails(s, l)
       PROVE  TypeOK' /\ LoopInv'
  BY <1>10, <1>11 DEF TcpLoopCancelled, LoopFails
<1>12. ASSUME NEW l \in Loops, LoopStops(s, l) PROVE TypeOK' /\ LoopInv'
  BY <1>10, <1>12 DEF LoopStops
<1>13. CASE SendKeepAlive(s)
  BY <1>6, <1>7, <1>8, <1>13
  DEF SendKeepAlive, ReceiveStep, IInv, TypeOK, LoopInv, ByeBeforeTeardown
<1>14. CASE KeepAliveDone(s)
  BY <1>6, <1>7, <1>8, <1>14
  DEF KeepAliveDone, ReceiveStep, IInv, TypeOK, LoopInv, ByeBeforeTeardown
<1>15. CASE KeepAliveFails(s)
  BY <1>6, <1>7, <1>8, <1>15
  DEF KeepAliveFails, ReceiveStep, IInv, TypeOK, LoopInv, ByeBeforeTeardown
<1>16. CASE SendTeardown(s)
  <2>1. /\ receiveAt' = [receiveAt EXCEPT ![s] = "teardown"]
        /\ UNCHANGED <<serverCancelled, loopAt, byeSent>>
    BY <1>16 DEF SendTeardown, ReceiveStep
  <2>2. TypeOK'
    BY <1>6, <2>1 DEF IInv, TypeOK
  <2>3. ASSUME OverUdp PROVE byeSent[s] = Tracks
    <3>1. \A k \in Tracks : <<k, "rtp">> \in Loops /\ <<k, "rtp">> \in AllLoops
      BY <2>3 DEF Loops, UdpLoops, AllLoops
    <3>2. \A l \in Loops : loopAt[s][l] \notin {"running", "faulted", "canceled", "none"}
      BY <1>16 DEF SendTeardown, LoopsEnded, ReceiveStep, IInv, LoopInv
    <3>3. ASSUME NEW k \in Tracks PROVE k \in byeSent[s]
      <4>1. loopAt[s][<<k, "rtp">>] \in {"none", "running", "stopped", "canceled",
                                       "faulted"}
        <5> DEFINE l == <<k, "rtp">>
        <5>1. l \in AllLoops
          BY <3>1
        <5>2. loopAt \in [Sessions -> [AllLoops -> {"none", "running", "stopped",
                                                   "canceled", "faulted"}]]
          BY DEF IInv, TypeOK
        <5> HIDE DEF l
        <5>3. loopAt[s][l] \in {"none", "running", "stopped", "canceled", "faulted"}
          BY <5>1, <5>2
        <5> QED BY <5>3 DEF l
      <4>2. loopAt[s][<<k, "rtp">>] = "stopped"
        BY <3>1, <3>2, <4>1
      <4> QED BY <4>2 DEF IInv, LoopInv
    <3>4. byeSent[s] \subseteq Tracks
      BY DEF IInv, TypeOK
    <3> QED BY <3>3, <3>4
  <2>4. LoopInv'
    BY <1>7, <2>1, <2>3 DEF IInv, TypeOK, LoopInv, ByeBeforeTeardown
  <2> QED BY <2>2, <2>4
<1>17. CASE TeardownDone(s)
  BY <1>6, <1>7, <1>8, <1>17
  DEF TeardownDone, ReceiveStep, IInv, TypeOK, LoopInv, ByeBeforeTeardown
<1>18. CASE TeardownFails(s)
  BY <1>6, <1>7, <1>8, <1>18
  DEF TeardownFails, ReceiveStep, IInv, TypeOK, LoopInv, ByeBeforeTeardown
<1>19. CASE ReceiveTaskFails(s)
  BY <1>6, <1>7, <1>8, <1>19
  DEF ReceiveTaskFails, ReceiveStep, IInv, TypeOK, LoopInv, ByeBeforeTeardown
<1> QED
  BY <1>9, <1>10, <1>11, <1>12, <1>13, <1>14, <1>15, <1>16, <1>17, <1>18, <1>19
  DEF Receiving
-----------------------------------------------------------------------------
\* A step of a thread in Dispose.
LEMMA DisposeStepInv ==
  ASSUME IInv, NEW c \in Callers,
         (c # App /\ CallDispose(c)) \/ SessionDispose(c)
  PROVE  IInv'
<1>1. UNCHANGED <<parameters, appVars, connectVars, receiveVars, late, mapped>>
  BY DEF CallDispose, SessionDispose, FlagSession, CloseSockets, CloseTransport,
         DisposeStep, socketVars
<1>2. LoopInv' /\ CreatedInv'
  BY <1>1 DEF IInv, LoopInv, ByeBeforeTeardown, Loops, OverUdp, CreatedInv,
              appVars, connectVars, receiveVars
<1>3. TypeOK /\ CloserInv /\ AppInv /\ SetupInv /\ DisposedInv /\ GivenUpIsDisposed
  BY DEF IInv, AppInv
<1>4. /\ disposed' \in BOOLEAN
      /\ closerAt' \in [Callers -> {"idle", "flagging", "closingSockets",
                                    "closingTransport", "returned"}]
      /\ closing' \in [Callers -> 0 .. created]
      /\ sessionDisposed' \in [Sessions -> BOOLEAN]
      /\ transport' \in [Sessions -> {"none", "made", "open", "closed"}]
      /\ transportDisposed' \in [Sessions -> BOOLEAN]
      /\ sockets' \in [Sessions -> [Tracks -> {"none", "open", "closed"}]]
      => TypeOK'
  BY <1>1, <1>3 DEF TypeOK, appVars, connectVars, receiveVars
<1>5. created \in Nat /\ client \in 0 .. created
  BY <1>3, BoundsAssumption DEF TypeOK
<1>6. closerAt[c] \notin {"idle", "returned"} => closing[c] \in Sessions
  BY <1>3, <1>5, BoundsAssumption DEF CloserInv, TypeOK, Sessions
<1>7. CASE c # App /\ CallDispose(c)
  <2>1. /\ UNCHANGED <<sessionDisposed, transportVars, socketVars>>
        /\ closerAt[c] = "idle" /\ closing[c] = Null
        /\ disposed' = TRUE
    BY <1>3, <1>7 DEF CallDispose, CloserInv
  <2>2. \/ closerAt' = [closerAt EXCEPT ![c] = "returned"] /\ closing' = closing
        \/ /\ closerAt' = [closerAt EXCEPT ![c] = "flagging"]
           /\ closing' = [closing EXCEPT ![c] = client] /\ client # Null
    BY <1>7 DEF CallDispose
  <2>3. closerAt' \in [Callers -> {"idle", "flagging", "closingSockets",
                                    "closingTransport", "returned"}]
    BY <1>3, <2>2 DEF TypeOK
  <2>4. closing' \in [Callers -> 0 .. created]
    BY <1>3, <1>5, <2>2 DEF TypeOK
  <2>5. /\ \A d \in Callers : d # c =>
           closerAt'[d] = closerAt[d] /\ closing'[d] = closing[d]
        /\ \/ closerAt'[c] = "returned" /\ closing'[c] = Null
           \/ closerAt'[c] = "flagging" /\ closing'[c] \in 1 .. created
    BY <1>3, <1>5, <2>1, <2>2 DEF TypeOK, Null
  <2>6. TypeOK'
    BY <1>3, <1>4, <2>1, <2>3, <2>4 DEF TypeOK, transportVars, socketVars
  <2>7. CloserInv'
    BY <1>1, <1>3, <2>1, <2>5 DEF CloserInv, Closing, transportVars, appVars
  <2>8. AppInv'
    BY <1>1, <1>3, <1>7, <2>1, <2>2
    DEF TypeOK, AppInv, GivenUpIsDisposed, appVars, Callers
  <2>9. SetupInv'
    BY <1>1, <1>3, <2>1 DEF SetupInv, OverUdp, transportVars, socketVars,
        connectVars
  <2>10. DisposedInv'
    BY <1>1, <1>3, <2>1, <2>5 DEF DisposedInv, Closing, transportVars,
        socketVars
  <2> QED BY <1>2, <2>6, <2>7, <2>8, <2>9, <2>10 DEF IInv
<1> DEFINE s == closing[c]
<1>8. CASE FlagSession(c)
  <2>1. /\ closerAt[c] = "flagging" /\ s \in Sessions
        /\ sessionDisposed' = [sessionDisposed EXCEPT ![s] = TRUE]
        /\ UNCHANGED <<disposed, transportVars, socketVars>>
    BY <1>6, <1>8 DEF FlagSession, DisposeStep
  <2>2. \/ /\ sessionDisposed[s]
           /\ closerAt' = [closerAt EXCEPT ![c] = Returned(c)]
           /\ closing' = [closing EXCEPT ![c] = Null]
        \/ /\ ~sessionDisposed[s]
           /\ closerAt' = [closerAt EXCEPT ![c] = "closingSockets"]
           /\ closing' = closing
    BY <1>8 DEF FlagSession, DisposeStep
  <2>3. closerAt' \in [Callers -> {"idle", "flagging", "closingSockets",
                                    "closingTransport", "returned"}]
    BY <1>3, <2>2 DEF TypeOK, Returned
  <2>4. closing' \in [Callers -> 0 .. created]
    BY <1>3, <1>5, <2>2 DEF TypeOK, Null
  <2>5. sessionDisposed' \in [Sessions -> BOOLEAN]
    BY <1>3, <2>1 DEF TypeOK
  <2>6. \A d \in Callers : d # c =>
            closerAt'[d] = closerAt[d] /\ closing'[d] = closing[d]
    BY <1>3, <2>2 DEF TypeOK
  <2>7. \A x \in Sessions : sessionDisposed'[x] <=> sessionDisposed[x] \/ x = s
    BY <1>3, <2>1 DEF TypeOK
  <2>8. \/ /\ sessionDisposed[s] /\ closing'[c] = Null
           /\ closerAt'[c] \in {"idle", "returned"}
        \/ /\ ~sessionDisposed[s] /\ closing'[c] = s
           /\ closerAt'[c] = "closingSockets"
    BY <1>3, <2>2 DEF TypeOK, Returned
  <2>9. TypeOK'
    BY <1>3, <1>4, <2>1, <2>3, <2>4, <2>5 DEF TypeOK, transportVars, socketVars
  <2>10. s \in 1 .. created
    BY <1>3, <2>1 DEF CloserInv
  <2>11. \A d \in Callers : closerAt[d] \in Closing => closing[d] \in Sessions
    <3>1. created \in 0 .. MaxSessions
      BY <1>3 DEF TypeOK
    <3>2. 1 .. created \subseteq Sessions
      BY <3>1, BoundsAssumption DEF Sessions
    <3> QED BY <1>3, <3>2 DEF CloserInv, Closing
  <2>12. CloserInv'
    BY <1>1, <1>3, <2>1, <2>6, <2>7, <2>8, <2>10, <2>11
    DEF CloserInv, Closing, transportVars, appVars
  <2>13. AppInv'
    BY <1>1, <1>3, <2>1, <2>2
    DEF TypeOK, AppInv, GivenUpIsDisposed, appVars, Callers, Returned
  <2>14. SetupInv'
    BY <1>1, <1>3, <2>1 DEF SetupInv, OverUdp, transportVars, socketVars,
        connectVars
  <2>15. DisposedInv'
    BY <1>1, <1>3, <2>1, <2>6, <2>7, <2>8
    DEF DisposedInv, Closing, transportVars, socketVars
  <2> QED BY <1>2, <2>9, <2>12, <2>13, <2>14, <2>15 DEF IInv
<1>9. CASE CloseSockets(c)
  <2>1. /\ closerAt[c] = "closingSockets" /\ s \in Sessions
        /\ closerAt' = [closerAt EXCEPT ![c] = "closingTransport"]
        /\ sockets' = [sockets EXCEPT ![s] = AfterClose(s)]
        /\ UNCHANGED <<disposed, closing, sessionDisposed, transportVars>>
    BY <1>6, <1>9 DEF CloseSockets, DisposeStep
  <2>2. AfterClose(s) \in [Tracks -> {"none", "open", "closed"}]
    BY <1>3, <2>1 DEF TypeOK, AfterClose
  <2>3. TypeOK'
    BY <1>3, <1>4, <2>1, <2>2 DEF TypeOK, transportVars
  <2>4. CloserInv'
    BY <1>1, <1>3, <1>5, <2>1
    DEF TypeOK, CloserInv, Closing, transportVars, appVars
  <2>5. AppInv'
    BY <1>1, <1>3, <2>1 DEF TypeOK, AppInv, GivenUpIsDisposed, appVars, Callers
  <2>6. \A x \in Sessions, k \in Tracks :
          sockets'[x][k] = "open" => sockets[x][k] = "open" /\ (x = s => k \notin mapped[s])
    BY <1>3, <2>1 DEF TypeOK, AfterClose
  <2>7. SetupInv'
    BY <1>1, <1>3, <2>1, <2>6 DEF SetupInv, OverUdp, transportVars, connectVars
  <2>8. /\ \A d \in Callers : d # c => closerAt'[d] = closerAt[d]
        /\ closerAt'[c] = "closingTransport" /\ closing' = closing
    BY <1>3, <2>1 DEF TypeOK
  <2>9. transport' = transport /\ sessionDisposed' = sessionDisposed
    BY <2>1 DEF transportVars
  <2>10. \A x \in Sessions : mapped[x] \subseteq Tracks
    BY <1>3 DEF TypeOK
  <2>11. ASSUME NEW x \in Sessions, (sessionDisposed[x] /\ ~late[x])'
        PROVE  /\ \/ \E d \in Callers : closing'[d] = x /\ closerAt'[d] = "closingSockets"
                  \/ \A k \in mapped'[x] : sockets'[x][k] # "open"
               /\ \/ \E d \in Callers : closing'[d] = x /\ closerAt'[d] \in Closing
                  \/ transport'[x] # "open"
    <3>1. CASE x = s
      BY <1>1, <2>6, <2>8, <2>10, <3>1 DEF Closing
    <3>2. CASE x # s
      BY <1>1, <1>3, <2>6, <2>11, <2>8, <2>9, <2>10, <3>2 DEF DisposedInv,
          Closing
    <3> QED BY <3>1, <3>2
  <2>12. DisposedInv'
    BY <2>11 DEF DisposedInv
  <2> QED BY <1>2, <2>3, <2>4, <2>5, <2>7, <2>12 DEF IInv
<1>10. CASE CloseTransport(c)
  <2>1. /\ closerAt[c] = "closingTransport" /\ s \in Sessions
        /\ closerAt' = [closerAt EXCEPT ![c] = Returned(c)]
        /\ closing' = [closing EXCEPT ![c] = Null]
        /\ transportDisposed' =
             [transportDisposed EXCEPT ![s] = @ \/ transport[s] # "none"]
        /\ UNCHANGED <<disposed, sessionDisposed, socketVars>>
    BY <1>6, <1>10 DEF CloseTransport, DisposeStep
  <2>2. sessionDisposed[s] /\ ~transportDisposed[s]
    BY <1>3, <2>1 DEF CloserInv, Closing
  <2>3. transport' = IF transport[s] = "open"
                       THEN [transport EXCEPT ![s] = "closed"] ELSE transport
    BY <1>10, <2>2 DEF CloseTransport
  <2>4. transport' \in [Sessions -> {"none", "made", "open", "closed"}]
    BY <1>3, <2>3 DEF TypeOK
  <2>5. transportDisposed' \in [Sessions -> BOOLEAN]
    BY <1>3, <2>1 DEF TypeOK
  <2>6. TypeOK'
    BY <1>3, <1>4, <1>5, <2>1, <2>4, <2>5 DEF TypeOK, socketVars, Returned, Null
  <2>7. \A x \in Sessions : transportDisposed'[x] => x = s \/ transportDisposed[x]
    BY <1>3, <2>1 DEF TypeOK
  <2>8. CloserInv'
    BY <1>1, <1>3, <1>5, <2>1, <2>2, <2>7
    DEF TypeOK, CloserInv, Closing, appVars, Returned
  <2>9. AppInv'
    BY <1>1, <1>3, <2>1, <2>2
    DEF TypeOK, AppInv, GivenUpIsDisposed, appVars, Callers, Returned
  <2>10. SetupInv'
    BY <1>1, <1>3, <2>1, <2>3
    DEF TypeOK, SetupInv, OverUdp, socketVars, connectVars
  <2>11. \A d \in Callers : closing[d] = s /\ closerAt[d] \in Closing => d = c
    BY <1>3, <2>1 DEF CloserInv, Closing
  <2>12. \A x \in Sessions : transport'[x] = "open" => transport[x] = "open" /\ x # s
    BY <1>3, <2>1, <2>3 DEF TypeOK
  <2>13. /\ \A d \in Callers : d # c =>
              closerAt'[d] = closerAt[d] /\ closing'[d] = closing[d]
         /\ closing[c] = s /\ closerAt[c] # "closingSockets"
    BY <1>3, <2>1 DEF TypeOK
  <2>14. /\ \A x \in Sessions : (sessionDisposed[x] /\ ~late[x])' =>
              sessionDisposed[x] /\ ~late[x]
         /\ mapped' = mapped /\ sockets' = sockets
    BY <1>1, <2>1 DEF socketVars
  <2>15. DisposedInv'
    BY <1>3, <2>11, <2>12, <2>13, <2>14 DEF DisposedInv, Closing
  <2> QED BY <1>2, <2>6, <2>8, <2>9, <2>10, <2>15 DEF IInv
<1> QED BY <1>7, <1>8, <1>9, <1>10 DEF SessionDispose
-----------------------------------------------------------------------------
\* What the application's own steps leave alone.
AppLeaves == UNCHANGED <<parameters, disposed, sessionDisposed, transportVars,
                         socketVars, late>>

\* The application begins to dispose its session.
LEMMA AppDisposesInv ==
  ASSUME IInv, NEW from \in {"connecting", "receiving", "cancelling", "awaiting"},
         NEW to \in {"failing", "cutting", "finishing"}, AppDisposes(from, to)
  PROVE  IInv'
<1> USE CallersAssumption
<1>1. TypeOK /\ CloserInv /\ AppInv /\ LoopInv /\ SetupInv /\ DisposedInv /\ CreatedInv
  BY DEF IInv
<1>2. /\ appAt = from /\ appAt' = to /\ AppLeaves
      /\ UNCHANGED <<client, created, cancelled, connectVars, receiveVars>>
      /\ closerAt' = [closerAt EXCEPT ![App] = "flagging"]
      /\ closing' = [closing EXCEPT ![App] = client]
  BY DEF AppDisposes, AppStep, AppLeaves
<1>3. App \in Callers
  BY DEF Callers
<1>4. /\ closerAt[App] = "idle" /\ closing[App] = Null
      /\ client \in 1 .. created /\ client \in 0 .. created
  BY <1>1, <1>2, <1>3 DEF AppInv, CloserInv, TypeOK
<1>5. /\ \A d \in Callers : d # App =>
          closerAt'[d] = closerAt[d] /\ closing'[d] = closing[d]
      /\ closerAt'[App] = "flagging" /\ closing'[App] = client
  BY <1>1, <1>2, <1>3 DEF TypeOK
<1>6. TypeOK'
  <2>1. closerAt' \in [Callers -> {"idle", "flagging", "closingSockets",
                                  "closingTransport", "returned"}]
    BY <1>1, <1>2 DEF TypeOK
  <2>2. closing' \in [Callers -> 0 .. created]
    BY <1>1, <1>2, <1>4 DEF TypeOK
  <2> QED BY <1>1, <1>2, <2>1, <2>2
      DEF TypeOK, AppLeaves, transportVars, socketVars, connectVars, receiveVars
<1>7. CloserInv'
  BY <1>1, <1>2, <1>4, <1>5 DEF CloserInv, Closing, AppLeaves, transportVars
<1>8. AppInv'
  BY <1>1, <1>2, <1>4, <1>5 DEF AppInv, GivenUpIsDisposed, AppLeaves
<1>9. LoopInv' /\ SetupInv' /\ CreatedInv'
  BY <1>1, <1>2 DEF LoopInv, ByeBeforeTeardown, Loops, OverUdp, SetupInv,
      CreatedInv,
     AppLeaves, transportVars, socketVars, connectVars, receiveVars
<1>10. DisposedInv'
  BY <1>1, <1>2, <1>4, <1>5
  DEF DisposedInv, Closing, AppLeaves, transportVars, socketVars
<1> QED BY <1>6, <1>7, <1>8, <1>9, <1>10 DEF IInv

\* The application's other steps: no thread's Dispose is disturbed.
LEMMA AppStepInv ==
  ASSUME IInv,
         ConnectAsync \/ ConnectSucceeds \/ ReceiveAsync \/ ReceiveCancelled
           \/ AwaitSession \/ ClearClient \/ Cancel
  PROVE  IInv'
<1> USE CallersAssumption
<1>1. TypeOK /\ CloserInv /\ AppInv /\ LoopInv /\ SetupInv /\ DisposedInv /\ CreatedInv
  BY DEF IInv
<1>2. AppLeaves /\ UNCHANGED <<closerAt, closing, keepsAlive, track, serverCancelled, byeSent>>
  BY DEF ConnectAsync, ConnectSucceeds, ReceiveAsync, ReceiveCancelled,
      AwaitSession,
         ClearClient, Cancel, AppStep, AppLeaves, closerVars, connectVars,
             receiveVars
<1>3. DisposedInv'
  BY <1>1, <1>2 DEF DisposedInv, Closing, AppLeaves, transportVars, socketVars
<1>4. created \in 0 .. MaxSessions /\ client \in 0 .. created /\ MaxSessions \in Nat
  BY <1>1, BoundsAssumption DEF TypeOK
<1>5. /\ appAt' \in {"idle", "connecting", "failing", "connected", "receiving",
                    "cancelling", "cutting", "awaiting", "finishing"}
      /\ client' \in 0 .. created' /\ created' \in 0 .. MaxSessions
      /\ cancelled' \in BOOLEAN /\ closing \in [Callers -> 0 .. created']
      /\ connectAt' \in [Sessions -> {"none", "created", "made", "connecting",
                                 "describing", "settingUp", "mapping", "setUp",
                                 "playing", "done", "failed"}]
      /\ receiveAt' \in [Sessions -> {"none", "receiving", "keepAlive", "teardown",
                                      "ended", "failed"}]
      /\ loopAt' \in [Sessions -> [AllLoops -> {"none", "running", "stopped",
                                                "canceled", "faulted"}]]
      => TypeOK'
  BY <1>1, <1>2 DEF TypeOK, AppLeaves, transportVars, socketVars
<1>6. ASSUME UNCHANGED <<connectVars, created>>
      PROVE  SetupInv' /\ CreatedInv' /\ CloserInv'
  BY <1>1, <1>2, <1>6 DEF SetupInv, OverUdp, CreatedInv, CloserInv, Closing,
     AppLeaves, transportVars, socketVars, connectVars
<1>7. ASSUME UNCHANGED receiveVars PROVE LoopInv'
  BY <1>1, <1>2, <1>7 DEF LoopInv, ByeBeforeTeardown, Loops, OverUdp, AppLeaves,
     receiveVars
<1>8. ASSUME UNCHANGED <<client, created, cancelled, connectVars, receiveVars>>,
             appAt # "idle", appAt' \in {"connected", "cancelling", "awaiting"},
             appAt \in {"connecting", "receiving"} \/ closerAt[App] = "idle"
      PROVE  IInv'
  <2>1. TypeOK'
    BY <1>1, <1>5, <1>8 DEF TypeOK, connectVars, receiveVars
  <2>2. AppInv'
    BY <1>1, <1>2, <1>8 DEF AppInv, GivenUpIsDisposed, AppLeaves
  <2> QED BY <1>3, <1>6, <1>7, <1>8, <2>1, <2>2 DEF IInv
<1>9. CASE ConnectSucceeds
  BY <1>8, <1>9 DEF ConnectSucceeds, AppStep
<1>10. CASE ReceiveCancelled
  BY <1>8, <1>10 DEF ReceiveCancelled, AppStep
<1>11. CASE AwaitSession
  BY <1>8, <1>11 DEF AwaitSession, AppStep
<1>12. CASE Cancel
  <2>1. cancelled' = TRUE /\ UNCHANGED <<appAt, client, created, connectVars, receiveVars>>
    BY <1>12 DEF Cancel
  <2>2. cancelled' \in BOOLEAN
    BY <2>1
  <2>3. TypeOK'
    BY <1>1, <1>5, <2>1, <2>2 DEF TypeOK, connectVars, receiveVars
  <2>4. AppInv'
    BY <1>1, <1>2, <2>1 DEF AppInv, GivenUpIsDisposed, AppLeaves
  <2> QED BY <1>3, <1>6, <1>7, <2>1, <2>3, <2>4 DEF IInv
<1>13. CASE ClearClient
  <2>1. /\ appAt \in {"failing", "finishing"} /\ closerAt[App] = "idle"
        /\ appAt' = "idle" /\ client' = 0
        /\ UNCHANGED <<created, cancelled, connectVars, receiveVars>>
    BY <1>13 DEF ClearClient, AppStep, Null
  <2>2. TypeOK'
    <3>1. client' \in 0 .. created'
      BY <1>4, <2>1
    <3> QED BY <1>1, <1>5, <2>1, <3>1 DEF TypeOK, connectVars, receiveVars
  <2>3. sessionDisposed[client]
    BY <1>1, <2>1 DEF AppInv
  <2>4. AppInv'
    BY <1>1, <1>2, <2>1, <2>3 DEF AppInv, GivenUpIsDisposed, AppLeaves, Null
  <2> QED BY <1>3, <1>6, <1>7, <2>1, <2>2, <2>4 DEF IInv
<1>14. CASE ConnectAsync
  <2>1. /\ created < MaxSessions /\ created' = created + 1 /\ client' = created'
        /\ appAt = "idle" /\ appAt' = "connecting"
        /\ connectAt' = [connectAt EXCEPT ![created'] = "created"]
        /\ UNCHANGED <<cancelled, receiveVars>>
    BY <1>14 DEF ConnectAsync, AppStep
  <2>2. /\ created' \in 0 .. MaxSessions /\ client' \in 1 .. created'
        /\ client' \in 0 .. created' /\ 0 .. created \subseteq 0 .. created'
        /\ 1 .. created \subseteq 1 .. created' /\ created' \in Sessions
    BY <1>4, <2>1 DEF Sessions
  <2>3. TypeOK'
    <3>1. closing \in [Callers -> 0 .. created']
      BY <1>1, <2>2 DEF TypeOK
    <3> QED BY <1>1, <1>5, <2>1, <2>2, <3>1 DEF TypeOK, receiveVars
  <2>4. CloserInv'
    BY <1>1, <1>2, <2>2 DEF CloserInv, Closing, AppLeaves, transportVars
  <2>5. \A x \in Sessions : x <= created' /\ x # client' => x <= created /\ x # Null
    BY <1>4, <2>1 DEF Sessions, Null
  <2>6. client = Null /\ closerAt[App] = "idle"
    BY <1>1, <2>1 DEF AppInv
  <2>7. AppInv'
    BY <1>1, <1>2, <2>1, <2>2, <2>5, <2>6 DEF AppInv, GivenUpIsDisposed,
        AppLeaves
  <2>8. connectAt[created'] = "none"
    BY <1>1, <1>4, <2>1, <2>2 DEF CreatedInv
  <2>9. \A x \in Sessions :
          \/ connectAt'[x] = connectAt[x]
          \/ x = created' /\ connectAt[x] = "none" /\ connectAt'[x] = "created"
    <3> DEFINE k == created'
    <3>1. connectAt' = [connectAt EXCEPT ![k] = "created"] /\ connectAt[k] = "none"
      BY <2>1, <2>8
    <3> HIDE DEF k
    <3>2. connectAt \in [Sessions -> {"none", "created", "made", "connecting",
                                    "describing", "settingUp", "mapping", "setUp",
                                    "playing", "done", "failed"}]
      BY <1>1 DEF TypeOK
    <3>3. \A x \in Sessions :
            \/ connectAt'[x] = connectAt[x]
            \/ x = k /\ connectAt[x] = "none" /\ connectAt'[x] = "created"
      BY <3>1, <3>2
    <3> QED BY <3>3 DEF k
  <2>10. SetupInv'
    BY <1>1, <1>2, <2>9 DEF SetupInv, OverUdp, AppLeaves, transportVars,
        socketVars
  <2>11. CreatedInv'
    BY <1>1, <1>4, <2>1, <2>9 DEF CreatedInv, Sessions
  <2> QED BY <1>3, <1>7, <2>1, <2>3, <2>4, <2>7, <2>10, <2>11 DEF IInv
<1>15. CASE ReceiveAsync
  <2>1. /\ appAt = "connected" /\ appAt' = "receiving"
        /\ UNCHANGED <<client, created, cancelled, connectVars>>
    BY <1>15 DEF ReceiveAsync, AppStep
  <2> DEFINE started == [l \in AllLoops |-> IF l \in Loops THEN "running" ELSE "none"]
  <2>2. started \in [AllLoops -> {"none", "running", "stopped", "canceled", "faulted"}]
    OBVIOUS
  <2>3. /\ \A l \in AllLoops : started[l] # "stopped"
        /\ \A l \in Loops : l \in AllLoops => started[l] # "none"
    OBVIOUS
  <2>4. /\ receiveAt' = [receiveAt EXCEPT ![client] = "failed"] /\ loopAt' = loopAt
        \/ /\ receiveAt' = [receiveAt EXCEPT ![client] = "receiving"]
           /\ loopAt' = [loopAt EXCEPT ![client] = started]
    BY <1>15 DEF ReceiveAsync
  <2> HIDE DEF started
  <2>5. receiveAt' \in [Sessions -> {"none", "receiving", "keepAlive", "teardown",
                                    "ended", "failed"}]
    BY <1>1, <2>4 DEF TypeOK
  <2>6. loopAt' \in [Sessions -> [AllLoops -> {"none", "running", "stopped",
                                              "canceled", "faulted"}]]
    <3>1. /\ client \in Sessions
          /\ loopAt \in [Sessions -> [AllLoops -> {"none", "running", "stopped",
                                                   "canceled", "faulted"}]]
      <4>1. client \in 1 .. created
        BY <1>1, <2>1 DEF AppInv
      <4> QED BY <1>1, <1>4, <4>1 DEF TypeOK, Sessions
    <3> QED BY <2>2, <2>4, <3>1
  <2>7. TypeOK'
    BY <1>1, <1>5, <2>1, <2>5, <2>6 DEF TypeOK, connectVars
  <2>8. AppInv'
    BY <1>1, <1>2, <2>1 DEF AppInv, GivenUpIsDisposed, AppLeaves
  <2>9. /\ Loops' = Loops /\ OverUdp' = OverUdp /\ Loops \subseteq AllLoops
        /\ \A k \in Tracks : <<k, "rtp">> \in AllLoops
    BY <1>2 DEF AppLeaves, Loops, OverUdp, AllLoops, UdpLoops
  <2>10. \A x \in Sessions :
          \/ receiveAt'[x] = receiveAt[x] /\ loopAt'[x] = loopAt[x]
          \/ receiveAt'[x] = "failed" /\ loopAt'[x] = loopAt[x]
          \/ receiveAt'[x] = "receiving" /\ loopAt'[x] = started
    BY <1>1, <2>4 DEF TypeOK
  <2>11. LoopInv'
    BY <1>1, <1>2, <2>9, <2>10, <2>3 DEF LoopInv, ByeBeforeTeardown
  <2> QED BY <1>3, <1>6, <2>1, <2>7, <2>8, <2>11 DEF IInv
<1> QED BY <1>9, <1>10, <1>11, <1>12, <1>13, <1>14, <1>15
-----------------------------------------------------------------------------
LEMMA StepInv == IInv /\ [Next]_vars => IInv'
<1> SUFFICES ASSUME IInv, [Next]_vars PROVE IInv'
  OBVIOUS
<1>1. CASE \/ ConnectAsync \/ ConnectSucceeds \/ ReceiveAsync \/ ReceiveCancelled
           \/ AwaitSession \/ ClearClient \/ Cancel
  BY <1>1, AppStepInv
<1>2. CASE ConnectFails \/ ConnectGivesUp \/ ReceiveCompletes \/ ReceiveTimesOut
             \/ CancelTimesOut
  <2>1. PICK from \in {"connecting", "receiving", "cancelling", "awaiting"},
             to \in {"failing", "cutting", "finishing"} : AppDisposes(from, to)
    BY <1>2 DEF ConnectFails, ConnectGivesUp, ReceiveCompletes, ReceiveTimesOut,
                CancelTimesOut
  <2> QED BY <2>1, AppDisposesInv
<1>3. ASSUME NEW s \in Sessions, Connecting(s) \/ Receiving(s) PROVE IInv'
  BY <1>3, ConnectingStep, ReceivingStep
<1>4. ASSUME NEW c \in Closers, CallDispose(c) PROVE IInv'
  <2>1. c \in Callers /\ c # App
    BY CallersAssumption DEF Callers
  <2> QED BY <1>4, <2>1, DisposeStepInv
<1>5. ASSUME NEW c \in Callers, SessionDispose(c) PROVE IInv'
  BY <1>5, DisposeStepInv
<1>6. CASE UNCHANGED vars
  BY <1>6 DEF vars, appVars, closerVars, transportVars, socketVars, connectVars,
     receiveVars, IInv, TypeOK, CloserInv, Closing, AppInv, GivenUpIsDisposed,
         LoopInv,
     ByeBeforeTeardown, Loops, OverUdp, SetupInv, DisposedInv, CreatedInv
<1> QED BY <1>1, <1>2, <1>3, <1>4, <1>5, <1>6 DEF Next, AppProgress

THEOREM Invariance == Spec => []IInv
  BY InitInv, StepInv, PTL DEF Spec

\* Every variable of a client keeps its type, whatever threads dispose it.
THEOREM TypeCorrect == Spec => []TypeOK
<1>1. IInv => TypeOK
  BY DEF IInv
<1> QED BY <1>1, Invariance, PTL

\* The application never gives up a session that it did not dispose
\* (RtspClient.cs:98, :200).
THEOREM GivenUpAlwaysDisposed == Spec => []GivenUpIsDisposed
<1>1. IInv => GivenUpIsDisposed
  BY DEF IInv, AppInv
<1> QED BY <1>1, Invariance, PTL

\* Over UDP every track's BYE precedes TEARDOWN (RtspClientInternal.cs:152).
THEOREM ByeAlwaysBeforeTeardown == Spec => []ByeBeforeTeardown
<1>1. IInv => ByeBeforeTeardown
  BY DEF IInv, LoopInv
<1> QED BY <1>1, Invariance, PTL

\* A connected session that was disposed holds nothing open, unless its
\* ConnectAsync opened or mapped something after the Dispose had begun
\* (RtspClientInternal.cs:157-172).
THEOREM ClosedAlwaysUnlessLate == Spec => []ClosedUnlessLate
<1>1. ASSUME IInv PROVE ClosedUnlessLate
  <2> SUFFICES ASSUME NEW s \in Sessions, sessionDisposed[s], Undisturbed(s),
                      connectAt[s] = "done", ~late[s]
               PROVE  AllClosed(s)
    BY DEF ClosedUnlessLate
  <2>1. transport[s] \in {"open", "closed"}
    BY <1>1 DEF IInv, SetupInv
  <2>2. transport[s] # "open" /\ \A k \in mapped[s] : sockets[s][k] # "open"
    BY <1>1 DEF IInv, DisposedInv, Undisturbed
  <2>3. \A k \in Tracks : sockets[s][k] = "open" => k \in mapped[s]
    BY <1>1 DEF IInv, SetupInv
  <2> QED BY <2>1, <2>2, <2>3 DEF AllClosed
<1> QED BY <1>1, Invariance, PTL

\* No session is left behind open (RtspClient.cs:57-217), for any number of
\* sessions, tracks and disposing threads.
THEOREM NothingLeftOpen == Spec => []NothingIsLeftOpen
<1>1. GivenUpIsDisposed /\ ClosedUnlessLate => NothingIsLeftOpen
  BY DEF NothingIsLeftOpen
<1> QED BY <1>1, GivenUpAlwaysDisposed, ClosedAlwaysUnlessLate, PTL
-----------------------------------------------------------------------------
(***************************************************************************)
(* Proofs about SessionTimers, for every timeout, latency and network that *)
(* satisfies the module's assumptions.  The two loops share only time, so  *)
(* the invariant has a part for each, and a step of one leaves the other's *)
(* part alone.                                                             *)
(***************************************************************************)

\* What the delays and the keep-alive interval may take up together.
Slack == timeoutMs - 3 * Latency - DeliveryTime - InitialSilence

\* Watchdog: the upper bound on the silence in each state, smaller when the
\* flag is set, and the lower bound while it is not.
LongestBeforeReset == ReceiveTimeout + 3 * Latency

QuietInv ==
  /\ watchAt = "idle" => silence = 0
  /\ watchAt = "resetting" => silence <= LongestBeforeReset + watchPause
  /\ watchAt = "starting" =>
       silence <= watchPause
                    + (IF anyFrameReceived THEN 0 ELSE LongestBeforeReset + Latency)
  /\ watchAt = "waiting" =>
       /\ delay <= ReceiveTimeout + Latency
       /\ silence <= Latency + delay
                       + (IF anyFrameReceived THEN 0 ELSE LongestBeforeReset + Latency)
  /\ watchAt = "testing" =>
       silence <= 2 * Latency + ReceiveTimeout + watchPause
                    + (IF anyFrameReceived THEN 0 ELSE LongestBeforeReset + Latency)

NoFrameInv ==
  /\ watchAt = "waiting" /\ ~anyFrameReceived => silence >= delay
  /\ watchAt = "testing" /\ ~anyFrameReceived => silence >= ReceiveTimeout
  /\ TimeoutIsDeserved

WatchInv == QuietInv /\ NoFrameInv /\ SilenceIsNoticed

\* Keep-alive: how old the running delay is, and what the server has not heard.
DelayInv ==
  /\ aliveAt \notin {"idle", "unsupported"} =>
       interval < Slack /\ Latency + AnswerTime < Slack
  /\ aliveAt \in {"starting", "waiting", "sending"} => alivePause <= Latency
  /\ aliveAt = "waiting" => aliveDelay < Slack + alivePause
  /\ aliveAt = "sending" => aliveDelay <= alivePause
  /\ aliveAt = "answering" =>
       alivePause <= AnswerTime /\ aliveDelay <= Latency + alivePause

HeardInv ==
  /\ travelling =>
       /\ aliveAt \in {"waiting", "sending", "answering"}
       /\ serverSilence < timeoutMs - DeliveryTime + travel
  /\ aliveAt \in {"idle", "unsupported"} => serverSilence <= InitialSilence
  /\ aliveAt = "starting" => serverSilence <= InitialSilence + alivePause
  /\ aliveAt \in {"waiting", "answering"} /\ ~travelling =>
       serverSilence <= InitialSilence + Latency + aliveDelay
  /\ aliveAt = "sending" /\ ~travelling =>
       serverSilence < timeoutMs - DeliveryTime - Latency + alivePause

AliveInv == DelayInv /\ HeardInv

\* Both loops begin with ReceiveAsync.
BothIdle ==
  /\ watchAt = "idle" => aliveAt = "idle" /\ alivePause = 0
  /\ ~Over => aliveAt # "idle"

TimersInv == TimersTypeOK /\ BothIdle /\ WatchInv /\ AliveInv
-----------------------------------------------------------------------------
\* An interval that Random.Next may draw leaves the slack the network needs
\* (GetNextRtspKeepAliveInterval).
LEMMA IntervalLeavesSlack ==
  ASSUME NEW ms \in Timeouts, NEW i \in Intervals(ms)
  PROVE  /\ i \in Nat /\ i <= ms
         /\ i < ms - 3 * Latency - DeliveryTime - InitialSilence
         /\ Latency + AnswerTime
              < ms - 3 * Latency - DeliveryTime - InitialSilence
<1>1. ms \in Nat /\ UpperBound(ms) \in Int
  BY TimeAssumption DEF UpperBound, ToInt
<1>2. i \in Nat
  BY <1>1 DEF Intervals
<1>3. InitialSilence + Bigger(i, Latency + AnswerTime)
        + 3 * Latency + DeliveryTime < ms
  BY NetworkAssumption DEF GoodNetwork
<1> QED BY <1>1, <1>2, <1>3, TimeAssumption DEF Bigger

\* What TimersInv says is what the run checks.
LEMMA ServerKept == TimersInv => ServerKeepsSession
  BY TimeAssumption
  DEF TimersInv, TimersTypeOK, AliveInv, DelayInv, HeardInv, Slack, ServerKeepsSession

LEMMA TimersInitInv == TimersInit => TimersInv
<1> SUFFICES ASSUME TimersInit PROVE TimersInv
  OBVIOUS
<1>1. TimersTypeOK /\ BothIdle
  <2>1. timeoutMs \in Nat
    BY TimeAssumption DEF TimersInit
  <2>2. TimersTypeOK
    <3>1. anyFrameReceived \in BOOLEAN /\ travelling \in BOOLEAN
      BY DEF TimersInit
    <3>2. serverSilence \in Nat
      BY TimeAssumption DEF TimersInit
    <3> QED BY <2>1, <3>1, <3>2, TimeAssumption DEF TimersInit, TimersTypeOK
  <2> QED BY <2>2 DEF TimersInit, BothIdle, Over
<1>2. WatchInv
  BY TimeAssumption DEF TimersInit, WatchInv, QuietInv, NoFrameInv,
     TimeoutIsDeserved, SilenceIsNoticed
<1>3. AliveInv
  BY TimeAssumption DEF TimersInit, AliveInv, DelayInv, HeardInv
<1> QED BY <1>1, <1>2, <1>3 DEF TimersInv
-----------------------------------------------------------------------------
\* A step of the watchdog keeps its bounds.
LEMMA WatchdogStep ==
  ASSUME TimersInv, Watchdog
  PROVE  TimersTypeOK' /\ BothIdle' /\ WatchInv'
<1> USE TimeAssumption DEF TimersInv, TimersTypeOK, BothIdle, Over, WatchInv, QuietInv,
      NoFrameInv, TimeoutIsDeserved, SilenceIsNoticed, LongestBeforeReset,
      Watch, sessionParameters, aliveVars, serverVars
<1>1. CASE Reset
  <2>1. /\ silence' = silence /\ watchPause' = 0 /\ anyFrameReceived' = FALSE
        /\ watchAt' = "starting" /\ silence <= LongestBeforeReset + Latency
    BY <1>1 DEF Reset
  <2>2. TimersTypeOK'
    <3>1. anyFrameReceived' \in BOOLEAN
      BY <2>1
    <3> QED BY <1>1, <3>1 DEF Reset
  <2>3. BothIdle'
    BY <1>1 DEF Reset
  <2>4. WatchInv'
    BY <2>1
  <2> QED BY <2>2, <2>4, <2>3
<1>2. CASE StartDelay
  BY <1>2 DEF StartDelay
<1>3. CASE DelayOver
  BY <1>3 DEF DelayOver
<1>4. CASE Test
  BY <1>4 DEF Test
<1>5. CASE FrameReceived
  BY <1>5 DEF FrameReceived
<1> QED BY <1>1, <1>2, <1>3, <1>4, <1>5 DEF Watchdog

\* It does not touch the keep-alive loop.
LEMMA WatchdogLeavesAlive ==
  ASSUME TimersInv, Watchdog
  PROVE  AliveInv'
<1>1. UNCHANGED <<sessionParameters, aliveVars, serverVars>>
  BY DEF Watchdog, Reset, StartDelay, DelayOver, Test, FrameReceived, Watch
<1> QED BY <1>1 DEF TimersInv, AliveInv, DelayInv, HeardInv, Slack, sessionParameters,
              aliveVars, serverVars

\* A step of the keep-alive loop keeps its bounds.
LEMMA KeepAliveStep ==
  ASSUME TimersInv, KeepAlive
  PROVE  TimersInv'
<1> USE TimeAssumption
<1>1. CASE ReceivingEnds
  BY <1>1 DEF ReceivingEnds, TimersInv, TimersTypeOK, BothIdle, Over, WatchInv, QuietInv,
     NoFrameInv, TimeoutIsDeserved, SilenceIsNoticed, LongestBeforeReset,
     AliveInv, DelayInv, HeardInv, Slack, sessionParameters, aliveVars, serverVars
<1>2. CASE UNCHANGED watchVars /\ ~Over
  <2>1. WatchInv' /\ watchAt' # "idle"
    BY <1>2 DEF TimersInv, WatchInv, QuietInv, NoFrameInv, TimeoutIsDeserved,
       SilenceIsNoticed, watchVars, Over
  <2> USE DEF TimersInv, TimersTypeOK, BothIdle, AliveInv, DelayInv, HeardInv, Slack,
        Alive, Over, sessionParameters, watchVars, serverVars, aliveVars
  <2>2. CASE StartFirstDelay
    BY <1>2, <2>1, <2>2 DEF StartFirstDelay
  <2>3. CASE KeepAliveDelayOver
    <3>1. /\ interval' \in Nat /\ interval' <= timeoutMs
          /\ interval' < Slack /\ Latency + AnswerTime < Slack
      BY <2>3, IntervalLeavesSlack DEF KeepAliveDelayOver
    <3> QED BY <1>2, <2>1, <2>3, <3>1 DEF KeepAliveDelayOver
  <2>4. CASE WriteRequest
    BY <1>2, <2>1, <2>4 DEF WriteRequest
  <2>5. CASE Answered
    BY <1>2, <2>1, <2>5 DEF Answered
  <2>6. CASE ServerHears
    <3>1. TimersTypeOK' /\ BothIdle' /\ DelayInv'
      <4>1. travelling' = FALSE
        BY <2>6 DEF ServerHears
      <4>2. travelling' \in BOOLEAN
        BY <4>1
      <4>3. BothIdle' /\ DelayInv'
        BY <1>2, <2>6 DEF ServerHears
      <4>4. TimersTypeOK'
        BY <1>2, <2>6, <4>2 DEF ServerHears
      <4> QED BY <4>3, <4>4
    <3>2. aliveAt \in {"waiting", "sending", "answering"} /\ Slack > 0
      BY <2>6 DEF ServerHears
    <3>3. 0 < timeoutMs - DeliveryTime - Latency + alivePause
      <4>1. timeoutMs \in Nat OBVIOUS
      <4> QED BY <3>2, <4>1
    <3>4. /\ travelling' = FALSE /\ serverSilence' = 0
          /\ UNCHANGED <<timeoutMs, aliveAt, aliveDelay, alivePause>>
      BY <2>6 DEF ServerHears
    <3>5. HeardInv'
      BY <3>2, <3>3, <3>4
    <3> QED BY <2>1, <3>1, <3>5
  <2> QED BY <1>2, <2>2, <2>3, <2>4, <2>5, <2>6, <1>1 DEF KeepAlive
<1> QED BY <1>1, <1>2
    DEF KeepAlive, StartFirstDelay, KeepAliveDelayOver, WriteRequest, Answered,
        ServerHears, Alive

\* Time passes no further than the bounds allow.
LEMMA TickStep ==
  ASSUME TimersInv, Tick
  PROVE  TimersInv'
<1> USE TimeAssumption DEF Over
<1>1. TimersTypeOK' /\ BothIdle'
  BY DEF Tick, TimersInv, TimersTypeOK, BothIdle, sessionParameters, WatchCanWait, RequestCanTravel
<1>2. WatchInv'
  BY DEF Tick, TimersInv, TimersTypeOK, WatchCanWait, WatchInv, QuietInv, NoFrameInv,
     TimeoutIsDeserved, SilenceIsNoticed, LongestBeforeReset
<1>3. CASE aliveAt = "unsupported"
  <2>1. AliveInv'
    BY <1>3 DEF Tick, TimersInv, TimersTypeOK, AliveInv, DelayInv, HeardInv, sessionParameters
  <2> QED BY <1>1, <1>2, <2>1 DEF TimersInv
<1>4. CASE aliveAt # "unsupported"
  <2>1. /\ aliveDelay' = aliveDelay + 1 /\ serverSilence' = serverSilence + 1
        /\ alivePause' = IF DelayRuns THEN 0 ELSE alivePause + 1
        /\ travelling => travel' = travel + 1 /\ travel < DeliveryTime
        /\ UNCHANGED <<timeoutMs, aliveAt, interval, travelling>>
    BY <1>4 DEF Tick, RequestCanTravel, sessionParameters
  <2>2. /\ aliveAt \in {"starting", "waiting", "sending", "answering"}
        /\ DelayRuns \/ alivePause < (IF aliveAt = "answering"
                                        THEN AnswerTime ELSE Latency)
    BY <1>4 DEF Tick, TimersInv, TimersTypeOK, BothIdle, AliveCanWait
  <2>3. /\ timeoutMs \in Nat /\ interval \in Nat /\ aliveDelay \in Nat
        /\ alivePause \in Nat /\ serverSilence \in Nat /\ travel \in Nat
    BY DEF TimersInv, TimersTypeOK
  <2>4. DelayInv'
    BY <2>1, <2>2, <2>3 DEF TimersInv, AliveInv, DelayInv, Slack, DelayRuns
  <2>5. HeardInv'
    BY <2>1, <2>2, <2>3 DEF TimersInv, AliveInv, HeardInv, DelayRuns
  <2> QED BY <1>1, <1>2, <2>4, <2>5 DEF TimersInv, AliveInv
<1> QED BY <1>3, <1>4

\* Every step keeps the invariant.
LEMMA TimersStep == TimersInv /\ [TimersNext]_timerVars => TimersInv'
<1> SUFFICES ASSUME TimersInv, [TimersNext]_timerVars PROVE TimersInv'
  OBVIOUS
<1>1. CASE StartReceiving
  <2>1. /\ interval' \in Nat /\ interval' <= timeoutMs
        /\ interval' < Slack /\ Latency + AnswerTime < Slack
    BY <1>1, IntervalLeavesSlack, TimeAssumption
    DEF StartReceiving, TimersInv, TimersTypeOK, Slack
  <2> QED BY <1>1, <2>1, TimeAssumption
      DEF StartReceiving, TimersInv, TimersTypeOK, BothIdle, Over, WatchInv, QuietInv, NoFrameInv,
          TimeoutIsDeserved, SilenceIsNoticed, LongestBeforeReset, AliveInv,
          DelayInv, HeardInv, Slack, sessionParameters, serverVars
<1>2. CASE IntervalOverflows
  BY <1>2, TimeAssumption
  DEF IntervalOverflows, TimersInv, TimersTypeOK, BothIdle, Over, WatchInv, QuietInv, NoFrameInv,
      TimeoutIsDeserved, SilenceIsNoticed, LongestBeforeReset, AliveInv,
      DelayInv, HeardInv, Slack, sessionParameters, aliveVars, serverVars
<1>3. CASE Watchdog
  BY <1>3, WatchdogStep, WatchdogLeavesAlive DEF TimersInv
<1>4. CASE KeepAlive BY <1>4, KeepAliveStep
<1>5. CASE Tick BY <1>5, TickStep
<1>6. CASE UNCHANGED timerVars
  BY <1>6 DEF timerVars, TimersInv, TimersTypeOK, BothIdle, Over, WatchInv, QuietInv, NoFrameInv,
      TimeoutIsDeserved, SilenceIsNoticed, LongestBeforeReset, AliveInv,
      DelayInv, HeardInv, Slack, sessionParameters, watchVars, aliveVars, serverVars
<1> QED BY <1>1, <1>2, <1>3, <1>4, <1>5, <1>6 DEF TimersNext
-----------------------------------------------------------------------------
\* The invariant holds in every state.
THEOREM TimersInvariance == TimersSpec => []TimersInv
  BY TimersInitInv, TimersStep, PTL DEF TimersSpec

\* Every clock and state keeps its type.
THEOREM TimersTypeCorrect == TimersSpec => []TimersTypeOK
<1>1. TimersInv => TimersTypeOK BY DEF TimersInv
<1> QED BY <1>1, TimersInvariance, PTL

\* No receive timeout is thrown (RtspClient.cs:173-177) unless no frame came for
\* the whole of ReceiveTimeout, for every latency and every timeout.
THEOREM TimeoutsAreDeserved == TimersSpec => []TimeoutIsDeserved
<1>1. TimersInv => TimeoutIsDeserved BY DEF TimersInv, WatchInv, NoFrameInv
<1> QED BY <1>1, TimersInvariance, PTL

\* Silence is noticed in at most two receive timeouts and seven latencies
\* (RtspClient.cs:148-178).
THEOREM SilenceAlwaysNoticed == TimersSpec => []SilenceIsNoticed
<1>1. TimersInv => SilenceIsNoticed BY DEF TimersInv, WatchInv
<1> QED BY <1>1, TimersInvariance, PTL

\* The watchdog (RtspClient.cs:148-178) is never early and not much late, for
\* every ReceiveTimeout and every latency.
THEOREM WatchdogAlwaysPunctual == TimersSpec => []WatchdogIsPunctual
<1>1. TimeoutIsDeserved /\ SilenceIsNoticed => WatchdogIsPunctual
  BY DEF WatchdogIsPunctual
<1> QED BY <1>1, TimeoutsAreDeserved, SilenceAlwaysNoticed, PTL

\* The keep-alive loop (RtspClientInternal.cs:133-148) keeps the session at the
\* server, whatever timeout the server named and whatever the random intervals,
\* on a network that is good enough.
THEOREM ServerAlwaysKeepsSession == TimersSpec => []ServerKeepsSession
  BY ServerKept, TimersInvariance, PTL
=============================================================================
