---------------------------- MODULE SessionTimers ----------------------------
(***************************************************************************)
(* The two loops with a clock in a receiving RTSP session.  RtspClient.cs  *)
(* watches for silence: a flag is reset, ReceiveTimeout is waited for, and *)
(* the flag is looked at; frames set it meanwhile.  RtspClientInternal.cs  *)
(* keeps the server's session alive: it waits for a random part of the     *)
(* server's timeout, starts the next wait, and sends a request, to which   *)
(* it awaits an answer unless the request went into the media connection.  *)
(*                                                                         *)
(* Time passes in ticks.  A thread that could go on does so within Latency *)
(* ticks, and every clock counts from the event it is named for.           *)
(***************************************************************************)
EXTENDS Integers

CONSTANTS
  ReceiveTimeout,   \* ConnectionParameters.ReceiveTimeout
  Timeouts,         \* the session timeouts a server may name
  IntRange,         \* an int is one of -IntRange .. IntRange - 1
  Latency,          \* how long a thread takes to go on
  DeliveryTime,     \* how long a request takes to the server
  AnswerTime,       \* how long the client waits for its answer
  InitialSilence    \* how long ago the server heard PLAY, at most

Bigger(a, b) == IF a > b THEN a ELSE b

\* 32-bit arithmetic, unchecked.
ToInt(x) == ((x + IntRange) % (2 * IntRange)) - IntRange

UpperBound(ms) == ToInt(ms * 3) \div 4

\* GetNextRtspKeepAliveInterval: what Random.Next may draw; it throws when the
\* lower bound is above the upper one, after an overflow.
Intervals(ms) ==
  IF ms \div 2 = UpperBound(ms) THEN {ms \div 2}
                                ELSE ms \div 2 .. UpperBound(ms) - 1

ASSUME TimeAssumption ==
  /\ ReceiveTimeout \in Nat /\ Latency \in Nat
  /\ DeliveryTime \in Nat /\ AnswerTime \in Nat /\ InitialSilence \in Nat
  /\ DeliveryTime <= AnswerTime
  /\ Timeouts \subseteq Nat /\ IntRange \in Nat \ {0}

\* A network good enough for the server's timeout: what the random interval
\* leaves of it covers the delays.
GoodNetwork ==
  \A ms \in Timeouts : \A i \in Intervals(ms) :
    InitialSilence + Bigger(i, Latency + AnswerTime)
      + 3 * Latency + DeliveryTime < ms

ASSUME NetworkAssumption == GoodNetwork

VARIABLES
  watchAt,            \* where RtspClient.ReceiveAsync is
  anyFrameReceived,   \* _anyFrameReceived
  delay,              \* since its Task.Delay was started
  watchPause,         \* since it could go on
  silence,            \* since the last frame, or the call of ReceiveAsync
  timeoutMs,          \* _rtspKeepAliveTimeoutMs
  awaitsAnswer,       \* RtpTransport is not TCP
  aliveAt,            \* where RtspClientInternal.ReceiveAsync is
  interval,           \* nextRtspKeepAliveInterval
  aliveDelay,         \* since rtspKeepAliveDelayTask was started
  alivePause,         \* since it could go on, or since the request was written
  travelling,         \* a request is under way to the server
  travel,             \* since it was written
  serverSilence       \* since the server heard from the client

sessionParameters == <<timeoutMs, awaitsAnswer>>
watchVars == <<watchAt, anyFrameReceived, delay, watchPause, silence>>
serverVars == <<travelling, travel, serverSilence>>
aliveVars == <<aliveAt, interval, aliveDelay, alivePause>>
timerVars == <<watchVars, sessionParameters, aliveVars, serverVars>>

TimersInit ==
  /\ watchAt = "idle" /\ anyFrameReceived = FALSE
  /\ delay = 0 /\ watchPause = 0 /\ silence = 0
  /\ timeoutMs \in Timeouts /\ awaitsAnswer \in BOOLEAN
  /\ aliveAt = "idle" /\ interval = 0 /\ aliveDelay = 0 /\ alivePause = 0
  /\ travelling = FALSE /\ travel = 0
  /\ serverSilence \in 0 .. InitialSilence

\* ReceiveAsync of both classes, up to the first await.  The server may not
\* support GET_PARAMETER.
StartReceiving ==
  /\ watchAt = "idle" /\ watchAt' = "resetting"
  /\ interval' \in Intervals(timeoutMs)
  /\ aliveAt' \in {"unsupported", "starting"}
  /\ UNCHANGED <<sessionParameters, anyFrameReceived, delay, watchPause, silence,
                 aliveDelay, alivePause, serverVars>>

\* Random.Next throws: the session's task is complete at once.
IntervalOverflows ==
  /\ watchAt = "idle" /\ watchAt' = "ended"
  /\ Intervals(timeoutMs) = {}
  /\ UNCHANGED <<sessionParameters, anyFrameReceived, delay, watchPause, silence,
                 aliveVars, serverVars>>
-----------------------------------------------------------------------------
\* The watchdog.
Over == watchAt \in {"idle", "timedOut", "ended"}

Watch(from, to) ==
  /\ watchAt = from /\ watchAt' = to
  /\ watchPause' = 0
  /\ UNCHANGED <<sessionParameters, aliveVars, serverVars>>

Reset ==
  /\ Watch("resetting", "starting")
  /\ anyFrameReceived' = FALSE
  /\ UNCHANGED <<delay, silence>>

StartDelay ==
  /\ Watch("starting", "waiting")
  /\ delay' = 0
  /\ UNCHANGED <<anyFrameReceived, silence>>

\* A mutant of DelayOver: the flag is reset after the wait.
DelayOverResets ==
  /\ delay >= ReceiveTimeout
  /\ Watch("waiting", "testing")
  /\ anyFrameReceived' = FALSE
  /\ UNCHANGED <<delay, silence>>

DelayOver ==
  /\ delay >= ReceiveTimeout
  /\ Watch("waiting", "testing")
  /\ UNCHANGED <<anyFrameReceived, delay, silence>>

Test ==
  /\ Watch("testing", IF anyFrameReceived THEN "resetting" ELSE "timedOut")
  /\ UNCHANGED <<anyFrameReceived, delay, silence>>

\* FrameReceived, on the thread that hands the frame over.
FrameReceived ==
  /\ ~Over
  /\ anyFrameReceived' = TRUE
  /\ silence' = 0
  /\ UNCHANGED <<watchAt, delay, watchPause, sessionParameters, aliveVars, serverVars>>

Watchdog == Reset \/ StartDelay \/ DelayOver \/ Test \/ FrameReceived
-----------------------------------------------------------------------------
\* The keep-alive loop.
Alive(from, to) ==
  /\ ~Over
  /\ aliveAt = from /\ aliveAt' = to
  /\ alivePause' = 0
  /\ UNCHANGED <<watchVars, sessionParameters>>

StartFirstDelay ==
  /\ Alive("starting", "waiting")
  /\ aliveDelay' = 0
  /\ UNCHANGED <<interval, serverVars>>

\* A mutant of KeepAliveDelayOver: intervals add up, as if they were due times.
KeepAliveDelayOverAdds ==
  /\ aliveDelay >= interval
  /\ Alive("waiting", "sending")
  /\ \E i \in Intervals(timeoutMs) : interval' = interval + i
  /\ aliveDelay' = 0
  /\ UNCHANGED serverVars

\* The delay is over: the next one is started before the request is sent.
KeepAliveDelayOver ==
  /\ aliveDelay >= interval
  /\ Alive("waiting", "sending")
  /\ interval' \in Intervals(timeoutMs)
  /\ aliveDelay' = 0
  /\ UNCHANGED serverVars

\* A request behind one that is still under way does not overtake it.
WriteRequest ==
  /\ Alive("sending", IF awaitsAnswer THEN "answering" ELSE "waiting")
  /\ travelling' = TRUE
  /\ travel' = IF travelling THEN travel ELSE 0
  /\ UNCHANGED <<interval, aliveDelay, serverSilence>>

\* A mutant of Answered: the next delay is started only now.
AnsweredThenDelay ==
  /\ ~travelling
  /\ Alive("answering", "waiting")
  /\ aliveDelay' = 0
  /\ UNCHANGED <<interval, serverVars>>

Answered ==
  /\ ~travelling
  /\ Alive("answering", "waiting")
  /\ UNCHANGED <<interval, aliveDelay, serverVars>>

\* The receive task ended, or the request failed: the session's task ends, and
\* the watchdog's WhenAny with it.
ReceivingEnds ==
  /\ watchAt = "waiting" /\ watchAt' = "ended"
  /\ UNCHANGED <<anyFrameReceived, delay, watchPause, silence, sessionParameters,
                 aliveVars, serverVars>>

ServerHears ==
  /\ ~Over
  /\ travelling
  /\ travelling' = FALSE /\ travel' = 0 /\ serverSilence' = 0
  /\ UNCHANGED <<watchVars, sessionParameters, aliveVars>>

KeepAlive ==
  \/ StartFirstDelay \/ KeepAliveDelayOver \/ WriteRequest \/ Answered
  \/ ReceivingEnds \/ ServerHears
-----------------------------------------------------------------------------
\* Time may pass: nobody is later than the bounds allow.
WatchCanWait ==
  IF watchAt = "waiting" THEN delay < ReceiveTimeout + Latency
                         ELSE watchPause < Latency

DelayRuns == aliveAt = "waiting" /\ aliveDelay < interval

AliveCanWait ==
  \/ aliveAt = "unsupported"
  \/ DelayRuns
  \/ alivePause < (IF aliveAt = "answering" THEN AnswerTime ELSE Latency)

RequestCanTravel == travelling => travel < DeliveryTime

\* Clocks nobody looks at stand still.
Tick ==
  /\ ~Over
  /\ WatchCanWait /\ AliveCanWait /\ RequestCanTravel
  /\ silence' = silence + 1
  /\ delay' = IF watchAt = "waiting" THEN delay + 1 ELSE delay
  /\ watchPause' = IF watchAt = "waiting" THEN 0 ELSE watchPause + 1
  /\ IF aliveAt = "unsupported"
       THEN UNCHANGED <<aliveDelay, alivePause, serverSilence>>
       ELSE /\ aliveDelay' = aliveDelay + 1
            /\ alivePause' = IF DelayRuns THEN 0 ELSE alivePause + 1
            /\ serverSilence' = serverSilence + 1
  /\ travel' = IF travelling THEN travel + 1 ELSE travel
  /\ UNCHANGED <<watchAt, anyFrameReceived, sessionParameters, aliveAt, interval,
                 travelling>>

TimersNext == StartReceiving \/ IntervalOverflows \/ Watchdog \/ KeepAlive \/ Tick

TimersSpec == TimersInit /\ [][TimersNext]_timerVars
-----------------------------------------------------------------------------
TimersTypeOK ==
  /\ watchAt \in {"idle", "resetting", "starting", "waiting", "testing",
                  "timedOut", "ended"}
  /\ anyFrameReceived \in BOOLEAN
  /\ delay \in Nat /\ watchPause \in 0 .. Latency /\ silence \in Nat
  /\ timeoutMs \in Timeouts /\ awaitsAnswer \in BOOLEAN
  /\ aliveAt \in {"idle", "unsupported", "starting", "waiting", "sending",
                  "answering"}
  /\ interval \in Nat /\ interval <= timeoutMs
  /\ aliveDelay \in Nat /\ alivePause \in Nat
  /\ travelling \in BOOLEAN /\ travel \in 0 .. DeliveryTime
  /\ serverSilence \in Nat

\* "Receive timeout" (RtspClient.cs:173-177) is thrown only when no frame was
\* received for the whole of ReceiveTimeout, wherever frames fall between the
\* reset of the flag (:150), the start of the delay and the test.
TimeoutIsDeserved == watchAt = "timedOut" => silence >= ReceiveTimeout

\* Silence does not go unnoticed for longer than two waits and the time the
\* loop takes (RtspClient.cs:148-178).
SilenceIsNoticed == silence <= 2 * ReceiveTimeout + 7 * Latency

\* The watchdog of RtspClient.cs:148-178 is never early and not much late.
WatchdogIsPunctual == TimeoutIsDeserved /\ SilenceIsNoticed

\* While the keep-alive loop runs, the server hears from the client before its
\* session timeout is over, the random interval and the time an answer takes
\* included (RtspClientInternal.cs:133-148, :183-187).
ServerKeepsSession ==
  aliveAt \notin {"idle", "unsupported"} => serverSilence < timeoutMs
=============================================================================
