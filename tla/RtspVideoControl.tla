-------------------------- MODULE RtspVideoControl --------------------------
(***************************************************************************)
(* RtspVideoControl (RtspClientSharp.WinForms/RtspVideoControl.cs) and the *)
(* start and stop of its source (RawFrameSources.cs): the UI thread with   *)
(* its calls, its timer and its paint messages, and for every session that *)
(* was started one thread that raises FrameReceived, which Stop waits for  *)
(* no longer than two seconds.  What happens under _frameSyncRoot is one   *)
(* step; _decoderSyncRoot is a variable.                                   *)
(*                                                                         *)
(* The decoder is kept as the path that made it and whether hardware is    *)
(* in use (VideoDecoder has the rest); the frames are H.264, key frames or *)
(* frames that depend on the one before.  A recorder may throw when it is  *)
(* stopped, and a handler of StatusChanged or FrameDecoded whenever it is  *)
(* called.                                                                 *)
(***************************************************************************)
EXTENDS Naturals, FiniteSets

CONSTANTS
  Modes,      \* the values of PipelineMode that are used
  GpuFailures,\* how many failures in a row end the GPU path, 3 in the code
  MaxStarts,  \* bound: sessions started before the model stops
  MaxCalls    \* bound: calls of the application before the model stops

Software == "Software"
Readback == "HardwareDecodeWithCpuReadback"
Gpu == "GpuD3D11EndToEnd"

ASSUME ControlAssumption ==
  /\ MaxStarts \in Nat /\ MaxCalls \in Nat
  /\ GpuFailures \in Nat \ {0}
  /\ Modes \subseteq {Software, Readback, Gpu} /\ Software \in Modes

Sessions == 1..MaxStarts

VARIABLES
  ui,            \* what the UI thread does next
  next,          \* what the DropVideoDecoders under way there is part of
  restart,       \* its Stop is part of a Start
  starts,        \* history: the sessions started
  calls,         \* history: the calls made
  playing,       \* _playing
  source,        \* _rawFrameSource, 0 is null
  pipelineMode,  \* _pipelineMode
  effective,     \* _effectivePipelineMode
  drawImage,     \* _drawImage
  requested,     \* _bitmapRecordingRequested
  bitmapNeeded,  \* _bitmapRecordingNeeded
  noVideo,       \* _noVideoActive
  activity,      \* _lastVideoActivityTimestamp is not zero
  waitForKey,    \* _waitForH264KeyFrame
  pending,       \* _pendingFrame
  front,         \* _frontBitmap: none, published, or late, when it was
                 \* put there after the image was hidden
  unseen,        \* _frontFrameSequence is not _presentedFrameSequence
  failures,      \* _gpuDecodeFailureCount
  decoder,       \* the entry of _videoDecoders
  lock,          \* who is inside _decoderSyncRoot
  worker,        \* the thread of each session
  outlived,      \* history: sessions whose thread Stop did not wait for
  cutShort,      \* history: an exception ended the last Stop early
  abandoned,     \* history: the frame that set _pendingFrame is gone, without
                 \* having been published
  chain,         \* history: what the decoder has of the stream
  fault          \* history: a frame was decoded without its references and
                 \* nothing explains it

display  == <<pending, front, unseen, abandoned>>
bitmap   == <<requested, bitmapNeeded>>
settings == <<pipelineMode, drawImage, bitmap>>
session  == <<starts, playing, source, restart, cutShort>>
timing   == <<noVideo, activity>>
decoding == <<decoder, chain, fault>>
vars == <<ui, next, calls, session, settings, effective, timing, waitForKey,
          display, failures, decoding, lock, worker, outlived>>

NoDecoder == [by |-> "none", hardware |-> FALSE]
Idle == [pc |-> "idle", key |-> FALSE, current |-> FALSE, raced |-> FALSE,
         recording |-> FALSE, cause |-> "no"]
Nothing == [of |-> 0, state |-> "dropped"]
Nobody == 0
UI == MaxStarts + 1

Threads ==
  [pc : {"idle", "gpuGate", "gpuLock", "render", "fallback", "fallbackDrop",
         "fallbackDropEnd", "cpuGate", "cpuLock", "publish"},
   key : BOOLEAN, current : BOOLEAN, raced : BOOLEAN, recording : BOOLEAN,
   cause : {"no", "failed", "wrong decoder"}]

TypeOK ==
  /\ ui \in {"idle", "join", "timeout", "drop", "dropEnd", "clear", "start",
             "run"}
  /\ next \in {"nothing", "stop", "start", "timeout", "mode"}
  /\ restart \in BOOLEAN /\ playing \in BOOLEAN
  /\ calls \in 0..MaxCalls
  /\ starts \in 0..MaxStarts /\ source \in 0..MaxStarts
  /\ pipelineMode \in Modes /\ effective \in Modes
  /\ requested \in BOOLEAN /\ bitmapNeeded \in BOOLEAN
  /\ drawImage \in BOOLEAN /\ noVideo \in BOOLEAN
  /\ activity \in BOOLEAN
  /\ waitForKey \in BOOLEAN
  /\ front \in {"none", "published", "late"}
  /\ pending \in BOOLEAN /\ unseen \in BOOLEAN
  /\ cutShort \in BOOLEAN /\ abandoned \in BOOLEAN
  /\ failures \in 0..GpuFailures
  /\ decoder \in [by : {"none", "software", "readback", "gpu"},
                  hardware : BOOLEAN]
  /\ lock \in 0..UI
  /\ worker \in [Sessions -> Threads]
  /\ outlived \subseteq Sessions
  /\ chain \in [of : 0..MaxStarts,
                state : {"whole", "dropped", "hidden", "missed", "excused"}]
  /\ fault \in BOOLEAN

Init ==
  /\ ui = "idle" /\ next = "nothing" /\ restart = FALSE
  /\ calls = 0 /\ starts = 0 /\ playing = FALSE /\ source = 0
  /\ pipelineMode \in Modes /\ effective = pipelineMode
  /\ drawImage = TRUE /\ requested = FALSE /\ bitmapNeeded = FALSE
  /\ noVideo = FALSE /\ activity = FALSE /\ waitForKey = FALSE
  /\ pending = FALSE /\ front = "none" /\ unseen = FALSE /\ failures = 0
  /\ cutShort = FALSE /\ abandoned = FALSE
  /\ decoder = NoDecoder /\ lock = Nobody
  /\ worker = [w \in Sessions |-> Idle]
  /\ outlived = {} /\ chain = Nothing /\ fault = FALSE

-----------------------------------------------------------------------------
(* What several operations do. *)

(* _generation was incremented: no frame under way is of it any more.      *)
OutdateFrames(f) == [w \in Sessions |-> [f[w] EXCEPT !.current = FALSE]]

(* _pendingFrame is reset: the next frame may be published.                *)
NothingPends == pending' = FALSE /\ abandoned' = FALSE

ClearPresentedFrame ==
  front' = "none" /\ unseen' = FALSE /\ NothingPends

(* StopRecording, as far as bitmaps go.                                    *)
StopRecording == requested' = FALSE /\ bitmapNeeded' = FALSE

(* Decoders were dropped when these frames had passed the gate.            *)
Raced(f) ==
  [w \in Sessions |-> IF f[w].pc \in {"gpuLock", "cpuLock"}
                        THEN [f[w] EXCEPT !.raced = TRUE] ELSE f[w]]

(* Decoders are dropped and _waitForH264KeyFrame is not yet set.           *)
Dropping ==
  \/ ui = "dropEnd"
  \/ \E w \in Sessions : worker[w].pc = "fallbackDropEnd"

-----------------------------------------------------------------------------
(* The UI thread. *)

(* The application calls while the thread is idle.                         *)
Call == ui = "idle" /\ calls < MaxCalls /\ calls' = calls + 1

(* Stop up to source.Stop(), as a call of its own or the first thing of    *)
(* Start.                                                                  *)
BeginStop(again) ==
  /\ restart' = again
  /\ playing' = FALSE
  /\ source' = 0
  /\ worker' = OutdateFrames(worker)
  /\ ui' = "join"
  /\ UNCHANGED <<starts, cutShort, next, settings, effective, timing,
                 waitForKey, display, failures, decoding, lock, outlived>>

Stop == Call /\ BeginStop(FALSE)

\* A mutant of Joined: the thread under way is not waited for.
JoinedAtOnce(late) ==
  /\ ui = "join" /\ late
  /\ requested' = FALSE /\ bitmapNeeded' = FALSE
  /\ activity' = FALSE /\ noVideo' = FALSE
  /\ ui' = "drop" /\ next' = "stop"
  /\ UNCHANGED <<calls, session, pipelineMode, drawImage, effective,
                 waitForKey, display, failures, decoding, lock, worker,
                 outlived>>

(* The wait for the thread of the session.                                 *)
Waits(late) ==
  LET busy == { w \in Sessions : worker[w].pc # "idle" } \ outlived
  IN IF late THEN busy # {} /\ outlived' = outlived \cup busy
             ELSE busy = {} /\ UNCHANGED outlived

(* The wait, and the rest of Stop up to DropVideoDecoders.                 *)
Joined(late) ==
  /\ ui = "join" /\ Waits(late)
  /\ StopRecording
  /\ activity' = FALSE /\ noVideo' = FALSE
  /\ ui' = "drop" /\ next' = "stop"
  /\ UNCHANGED <<calls, session, pipelineMode, drawImage, effective,
                 waitForKey, display, failures, decoding, lock, worker>>

(* Stop, or the Start it is part of, ends there instead: the recorder      *)
(* throws when it is stopped, or the wait rethrows what a handler threw in *)
(* the receive loop, which has ended with it.                              *)
StopThrows(late) ==
  /\ ui = "join" /\ Waits(late)
  /\ StopRecording \/ (~late /\ UNCHANGED bitmap)
  /\ ui' = "idle" /\ restart' = FALSE /\ cutShort' = TRUE
  /\ UNCHANGED <<calls, next, starts, playing, source, pipelineMode,
                 drawImage, effective, timing, waitForKey, display, failures,
                 decoding, lock, worker>>

Start ==
  /\ Call /\ starts < MaxStarts
  /\ IF playing THEN BeginStop(TRUE)
     ELSE /\ ui' = "start"
          /\ UNCHANGED <<next, session, settings, effective, timing,
                         waitForKey, display, failures, decoding, lock,
                         worker, outlived>>

(* Start up to DropVideoDecoders.                                          *)
ResetForStart ==
  /\ ui = "start"
  /\ worker' = OutdateFrames(worker)
  /\ waitForKey' = FALSE /\ failures' = 0
  /\ effective' = pipelineMode
  /\ activity' = TRUE /\ noVideo' = FALSE
  /\ ClearPresentedFrame
  /\ cutShort' = FALSE
  /\ ui' = "drop" /\ next' = "start"
  /\ UNCHANGED <<calls, starts, playing, source, restart, settings, decoding,
                 lock, outlived>>

(* ... and the rest of it, unless the source cannot be created.            *)
Run ==
  /\ ui = "run"
  /\ \/ starts' = starts + 1 /\ source' = starts' /\ playing' = TRUE
     \/ UNCHANGED <<starts, source, playing>>
  /\ bitmapNeeded' = FALSE
  /\ ui' = "idle" /\ next' = "nothing"
  /\ UNCHANGED <<calls, restart, cutShort, pipelineMode, drawImage, requested,
                 effective, timing, waitForKey, display, failures, decoding,
                 lock, worker, outlived>>

(* The part of DropVideoDecoders under the lock.                           *)
Drop ==
  /\ ui = "drop" /\ lock = Nobody
  /\ decoder' = NoDecoder
  /\ chain' = Nothing
  /\ worker' = Raced(worker)
  /\ ui' = "dropEnd"
  /\ UNCHANGED <<calls, fault, lock, next, session, settings, effective,
                 timing, waitForKey, display, failures, outlived>>

(* The end of DropVideoDecoders; what follows depends on the caller.       *)
DropReturns ==
  /\ ui' = CASE next \in {"stop", "timeout"} -> "clear"
             [] next = "start" -> "run"
             [] OTHER -> "idle"
  /\ next' = IF ui' = "idle" THEN "nothing" ELSE next

\* A mutant of DropEnd: the decoder is replaced in the middle of a chain.
DropEndKeepsGoing ==
  /\ ui = "dropEnd"
  /\ DropReturns
  /\ UNCHANGED <<calls, waitForKey, session, settings, effective, timing,
                 display, failures, decoding, lock, worker, outlived>>

DropEnd ==
  /\ ui = "dropEnd"
  /\ waitForKey' = TRUE
  /\ DropReturns
  /\ UNCHANGED <<calls, session, settings, effective, timing, display,
                 failures, decoding, lock, worker, outlived>>

(* The last step of Stop, after which Start goes on if nothing throws ...  *)
ClearAfterStop ==
  /\ ui = "clear" /\ next = "stop"
  /\ ClearPresentedFrame
  /\ ui' \in IF restart THEN {"start", "idle"} ELSE {"idle"}
  /\ next' = "nothing" /\ restart' = FALSE /\ cutShort' = FALSE
  /\ UNCHANGED <<calls, starts, playing, source, settings, effective,
                 timing, waitForKey, failures, decoding, lock, worker,
                 outlived>>

(* ... and of CheckForVideoTimeout, where the image of the recording may   *)
(* fail.                                                                   *)
ClearAfterTimeout ==
  /\ ui = "clear" /\ next = "timeout"
  /\ IF drawImage THEN ClearPresentedFrame ELSE UNCHANGED display
  /\ UNCHANGED bitmap \/ (requested /\ StopRecording)
  /\ ui' = "idle" /\ next' = "nothing"
  /\ UNCHANGED <<calls, session, pipelineMode, drawImage, effective,
                 timing, waitForKey, failures, decoding, lock, worker,
                 outlived>>

(* CheckForVideoTimeout: the time of the last frame is read, and           *)
(* NoVideoTimeout may always have passed since ...                         *)
FindStale ==
  /\ ui = "idle" /\ playing
  /\ drawImage \/ bitmapNeeded
  /\ activity
  /\ ui' = "timeout"
  /\ UNCHANGED <<calls, next, session, settings, effective, timing,
                 waitForKey, display, failures, decoding, lock, worker,
                 outlived>>

(* ... and acted on.                                                       *)
\* A mutant of EnterNoVideo: the frame is cleared before the decoders go.
ClearThenDrop ==
  /\ ui = "timeout"
  /\ IF noVideo THEN ui' = "idle" /\ UNCHANGED <<next, display>>
     ELSE /\ IF drawImage THEN ClearPresentedFrame ELSE UNCHANGED display
          /\ ui' = "drop" /\ next' = "mode"
  /\ noVideo' = TRUE
  /\ UNCHANGED <<calls, session, settings, effective, activity, waitForKey,
                 failures, decoding, lock, worker, outlived>>

EnterNoVideo ==
  /\ ui = "timeout"
  /\ IF noVideo THEN ui' = "idle" /\ UNCHANGED next
                ELSE ui' = "drop" /\ next' = "timeout"
  /\ noVideo' = TRUE
  /\ UNCHANGED <<calls, session, settings, effective, activity, waitForKey,
                 display, failures, decoding, lock, worker, outlived>>

(* The DrawImage setter.                                                   *)
SetDrawImage ==
  /\ Call
  /\ drawImage' = ~drawImage
  /\ IF drawImage THEN ClearPresentedFrame /\ UNCHANGED activity
     ELSE /\ activity' = (activity \/ ~noVideo)
          /\ UNCHANGED display
  /\ UNCHANGED <<ui, next, session, pipelineMode, bitmap, effective, noVideo,
                 waitForKey, failures, decoding, lock, worker, outlived>>

(* The PipelineMode setter.                                                *)
SetPipelineMode(mode) ==
  /\ Call /\ mode # pipelineMode
  /\ pipelineMode' = mode /\ effective' = mode
  /\ ui' = "drop" /\ next' = "mode"
  /\ UNCHANGED <<session, drawImage, bitmap, timing, waitForKey, display,
                 failures, decoding, lock, worker, outlived>>

(* StartBitmapRecording and StopRecording.                                 *)
SetBitmapRecording ==
  /\ Call
  /\ requested' = ~requested
  /\ bitmapNeeded' = requested'
  /\ UNCHANGED <<ui, next, session, pipelineMode, drawImage, effective,
                 timing, waitForKey, display, failures, decoding, lock,
                 worker, outlived>>

(* OnResize and SetSize.                                                   *)
Resize ==
  /\ Call /\ effective # Gpu
  /\ ClearPresentedFrame
  /\ UNCHANGED <<ui, next, session, settings, effective, timing, waitForKey,
                 failures, decoding, lock, worker, outlived>>

(* OnPaint, which leaves the GPU's surface alone.                          *)
Paint ==
  /\ ui = "idle" /\ drawImage /\ front # "none"
  /\ ~(playing /\ effective = Gpu /\ ~noVideo)
  /\ unseen' = FALSE /\ NothingPends
  /\ UNCHANGED <<calls, front, ui, next, session, settings, effective,
                 timing, waitForKey, failures, decoding, lock, worker,
                 outlived>>

-----------------------------------------------------------------------------
(* The thread of a session: RawFrameSourceOnFrameReceived. *)

Quiet == UNCHANGED <<ui, next, calls, session, pipelineMode, drawImage,
                     outlived>>

Ends(w)     == worker' = [worker EXCEPT ![w] = Idle]

(* Nothing is asked of the frame any more, or of what it raced with.       *)
Publishes(w) == worker' = [worker EXCEPT ![w] = [Idle EXCEPT !.pc = "publish"]]
Renders(w)   == worker' = [worker EXCEPT ![w].pc = "render", ![w].raced = FALSE]

(* A frame of the stream that the decoder does not get.                    *)
Miss(w, why) ==
  chain' = IF chain = [of |-> w, state |-> "whole"]
             THEN [of |-> w, state |-> why] ELSE chain

(* The frame comes, and its way is chosen.  With the image hidden and no   *)
(* bitmap recording nothing is decoded.                                    *)
Receive(w, key) ==
  /\ worker[w].pc = "idle" /\ playing /\ source = w
  /\ LET toGpu == effective = Gpu /\ drawImage /\ ~bitmapNeeded
         frame(pc) == [pc |-> pc, key |-> key, current |-> TRUE,
                       raced |-> FALSE, recording |-> bitmapNeeded,
                       cause |-> "no"]
     IN IF ~drawImage /\ ~bitmapNeeded
          THEN Miss(w, "hidden") /\ UNCHANGED worker
          ELSE /\ worker' = [worker EXCEPT
                               ![w] = frame(IF toGpu THEN "gpuGate" ELSE "cpuGate")]
               /\ UNCHANGED chain
  /\ UNCHANGED <<bitmap, effective, timing, waitForKey, display, failures,
                 decoder, fault, lock>>
  /\ Quiet

(* The beginning of TryRenderGpuFrame and of DecodeAndPublishCpuFrame.     *)
Gate(w) ==
  /\ worker[w].pc \in {"gpuGate", "cpuGate"}
  /\ IF playing /\ worker[w].current
       THEN IF waitForKey /\ ~worker[w].key
              THEN Ends(w) /\ Miss(w, "missed")
              ELSE /\ worker' = [worker EXCEPT
                        ![w].pc = IF @ = "gpuGate" THEN "gpuLock" ELSE "cpuLock",
                        ![w].raced = Dropping]
                   /\ UNCHANGED chain
       ELSE Ends(w) /\ UNCHANGED chain
  /\ UNCHANGED <<bitmap, effective, timing, waitForKey, display, failures,
                 decoder, fault, lock>>
  /\ Quiet

(* The decoder takes the frame: a key frame starts a chain, any other has  *)
(* its references or there is a reason why not.                            *)
Explained(w) ==
  \/ worker[w].key \/ chain = [of |-> w, state |-> "whole"]
  \/ worker[w].raced \/ chain.state \in {"hidden", "excused"}
  \/ w \in outlived \/ chain.of \in outlived

Feed(w) ==
  /\ chain' = IF worker[w].key THEN [of |-> w, state |-> "whole"]
              ELSE IF chain = [of |-> w, state |-> "whole"] THEN chain
              ELSE [of |-> w, state |-> "excused"]
  /\ fault' = (fault \/ ~Explained(w))

(* A frame came out: MarkVideoFrameActivity and the end of the wait for a  *)
(* key frame.                                                              *)
Decoded(w) ==
  /\ waitForKey' = (waitForKey /\ ~worker[w].key)
  /\ activity' = TRUE /\ noVideo' = FALSE

(* A new decoder, or the one there is; with new parameter sets the one     *)
(* that may use hardware can lose it and get it back.                      *)
Decoders(by) ==
  LET d == IF decoder = NoDecoder THEN by ELSE decoder.by
  IN [by : {d}, hardware : IF d = "software" THEN {FALSE} ELSE BOOLEAN]

(* DecodeAndPublishCpuFrame inside the lock, up to the scaler.  A decoder  *)
(* cannot be created, parameter sets are refused, or no frame comes out: a *)
(* key frame is needed.  Only one frame waits to be painted.               *)
CpuFails(w) ==
  /\ \/ Feed(w) /\ decoder' \in Decoders(IF effective = Readback THEN "readback"
                                                                 ELSE "software")
     \/ Miss(w, "missed") /\ UNCHANGED fault /\ decoder' = decoder
  /\ waitForKey' = TRUE
  /\ Ends(w)
  /\ UNCHANGED <<timing, bitmap, pending, abandoned, lock>>

(* RecordBitmapFrame throws, and the recording is stopped.                 *)
RecordingFails(w) == worker[w].recording /\ StopRecording

CpuDecodes(w) ==
  /\ decoder' \in Decoders(IF effective = Readback THEN "readback"
                                                   ELSE "software")
  /\ Feed(w)
  /\ Decoded(w)
  /\ RecordingFails(w) \/ UNCHANGED bitmap
  /\ IF drawImage /\ ~pending
       THEN pending' = TRUE /\ lock' = w /\ Publishes(w)
       ELSE UNCHANGED <<pending, lock>> /\ Ends(w)
  /\ UNCHANGED abandoned

(* The frame came out, and a handler throws before _pendingFrame is set or *)
(* when nothing is published; or the recording fails, and so does stopping *)
(* it or a handler that hears of it, when the frame may have set           *)
(* _pendingFrame: nothing resets it then.                                  *)
CpuThrows(w) ==
  /\ decoder' \in Decoders(IF effective = Readback THEN "readback"
                                                   ELSE "software")
  /\ Feed(w)
  /\ activity' = TRUE /\ noVideo' = FALSE
  /\ waitForKey' = TRUE
  /\ Ends(w)
  /\ \/ UNCHANGED <<bitmap, pending, abandoned>>
     \/ /\ RecordingFails(w)
        /\ pending' = (pending \/ drawImage)
        /\ abandoned' = (abandoned \/ (drawImage /\ ~pending))
  /\ UNCHANGED lock

CpuDecode(w) ==
  /\ worker[w].pc = "cpuLock" /\ lock = Nobody
  /\ CpuFails(w) \/ CpuDecodes(w) \/ CpuThrows(w)
  /\ UNCHANGED <<effective, front, unseen, failures>>
  /\ Quiet

(* The frame is scaled into the back bitmap, which becomes the front       *)
(* bitmap.                                                                 *)
Exchanged == front' = IF drawImage THEN "published" ELSE "late"

Shows == Exchanged /\ unseen' = TRUE

\* A mutant of Publish: a frame that could not be scaled still waits.
PublishKeepsPending(w) ==
  /\ worker[w].pc = "publish"
  /\ lock' = Nobody
  /\ Ends(w)
  /\ \/ Shows /\ UNCHANGED <<pending, abandoned, waitForKey>>
     \/ waitForKey' = TRUE /\ UNCHANGED display
  /\ UNCHANGED <<bitmap, effective, timing, failures, decoding>>
  /\ Quiet

(* It becomes that, and a handler may throw; or the scaler throws, when    *)
(* the bitmaps may be new ones.                                            *)
Publish(w) ==
  /\ worker[w].pc = "publish"
  /\ lock' = Nobody
  /\ Ends(w)
  /\ \/ /\ Shows /\ UNCHANGED <<pending, abandoned>>
        /\ waitForKey' \in {waitForKey, TRUE}
     \/ /\ NothingPends /\ waitForKey' = TRUE
        /\ Exchanged \/ UNCHANGED front
        /\ UNCHANGED unseen
  /\ UNCHANGED <<bitmap, effective, timing, failures, decoding>>
  /\ Quiet

(* TryRenderGpuFrame inside the lock.  A decoder that another path made    *)
(* has no render target, and perhaps no hardware.                          *)
Cause == IF decoder.by \in {"software", "readback"} THEN "wrong decoder"
         ELSE "failed"

FallsBack(w) ==
  worker' = [worker EXCEPT ![w].pc = "fallback", ![w].cause = Cause,
                           ![w].raced = FALSE]

(* What is thrown is caught, and the frame falls back unless a handler     *)
(* throws again.                                                           *)
Caught(w) ==
  \/ FallsBack(w) /\ UNCHANGED waitForKey
  \/ Ends(w) /\ waitForKey' = TRUE

GpuThrows(w) ==
  /\ Caught(w)
  /\ Miss(w, "missed")
  /\ decoder' = decoder
  /\ UNCHANGED <<fault, failures, timing, lock>>

\* A mutant of GpuFails: no number of failures in a row is enough.
GpuFailsAgain(w) ==
  /\ decoder' \in Decoders("gpu")
  /\ failures' = failures + 1
  /\ \/ ~decoder'.hardware /\ Miss(w, "missed") /\ UNCHANGED fault /\ FallsBack(w)
     \/ Feed(w) /\ FallsBack(w)
     \/ Feed(w) /\ decoder'.hardware /\ Ends(w)
  /\ UNCHANGED <<waitForKey, timing, lock>>

(* -2 without hardware, before the packet is sent; -5 for a frame in       *)
(* memory; otherwise the failure that makes GpuFailures in a row.          *)
GpuFails(w) ==
  /\ decoder' \in Decoders("gpu")
  /\ failures' = IF failures = GpuFailures THEN failures ELSE failures + 1
  /\ \/ ~decoder'.hardware /\ Miss(w, "missed") /\ UNCHANGED fault /\ Caught(w)
     \/ Feed(w) /\ Caught(w)
     \/ /\ Feed(w) /\ decoder'.hardware /\ failures' < GpuFailures
        /\ Ends(w) /\ UNCHANGED waitForKey
  /\ UNCHANGED <<timing, lock>>

(* The frame is not due or goes to the renderer, or a handler throws.      *)
GpuDecodes(w) ==
  /\ decoder' \in Decoders("gpu") /\ decoder'.hardware
  /\ failures' = 0
  /\ Feed(w)
  /\ \/ Decoded(w) /\ Ends(w) /\ UNCHANGED lock
     \/ Decoded(w) /\ Renders(w) /\ lock' = w
     \/ Decoded(w) /\ FallsBack(w) /\ UNCHANGED lock
     \/ /\ activity' = TRUE /\ noVideo' = FALSE
        /\ Caught(w) /\ UNCHANGED lock

GpuDecode(w) ==
  /\ worker[w].pc = "gpuLock" /\ lock = Nobody
  /\ GpuThrows(w) \/ GpuFails(w) \/ GpuDecodes(w)
  /\ UNCHANGED <<bitmap, effective, display>>
  /\ Quiet

(* RenderGpuFrame.                                                         *)
Render(w) ==
  /\ worker[w].pc = "render"
  /\ lock' = Nobody
  /\ \/ decoder.by = "gpu" /\ Ends(w) /\ UNCHANGED waitForKey
     \/ Caught(w)
  /\ UNCHANGED <<bitmap, effective, timing, display, failures, decoding>>
  /\ Quiet

(* The fallback to a software decoder, whatever has happened since.        *)
Fallback(w) ==
  /\ worker[w].pc = "fallback"
  /\ effective' = Software
  /\ worker' = [worker EXCEPT ![w].pc = "fallbackDrop", ![w].cause = "no"]
  /\ UNCHANGED <<bitmap, timing, waitForKey, display, failures, decoding,
                 lock>>
  /\ Quiet

FallbackDrop(w) ==
  /\ worker[w].pc = "fallbackDrop" /\ lock = Nobody
  /\ decoder' = NoDecoder
  /\ chain' = Nothing
  /\ worker' = [Raced(worker) EXCEPT ![w].pc = "fallbackDropEnd"]
  /\ UNCHANGED <<bitmap, effective, timing, waitForKey, display, failures,
                 fault, lock>>
  /\ Quiet

(* A handler that throws ends it there.                                    *)
FallbackDropEnd(w) ==
  /\ worker[w].pc = "fallbackDropEnd"
  /\ waitForKey' = TRUE
  /\ \/ worker' = [worker EXCEPT ![w].pc = "cpuGate",
                               ![w].recording = FALSE]
     \/ Ends(w)
  /\ UNCHANGED <<bitmap, effective, timing, display, failures, decoding,
                 lock>>
  /\ Quiet

-----------------------------------------------------------------------------
UiStep ==
  \/ \E late \in BOOLEAN : Joined(late) \/ StopThrows(late)
  \/ ResetForStart \/ Run \/ Drop \/ DropEnd
  \/ ClearAfterStop \/ ClearAfterTimeout \/ EnterNoVideo

WorkerStep(w) ==
  \/ Gate(w) \/ CpuDecode(w) \/ Publish(w) \/ GpuDecode(w) \/ Render(w)
  \/ Fallback(w) \/ FallbackDrop(w) \/ FallbackDropEnd(w)

Next ==
  \/ Stop \/ Start \/ FindStale \/ SetDrawImage \/ SetBitmapRecording
  \/ \E m \in Modes : SetPipelineMode(m)
  \/ Resize \/ Paint
  \/ UiStep
  \/ \E w \in Sessions : WorkerStep(w) \/ \E key \in BOOLEAN : Receive(w, key)

Spec == Init /\ [][Next]_vars

-----------------------------------------------------------------------------
(* A control that was stopped holds no decoder and no picture, unless some *)
(* Stop did not wait for a frame under way, or the last one was ended by   *)
(* an exception, of a recorder that could not be stopped                   *)
(* (RtspVideoControl.cs:552-596).  What such a Stop leaves, the next Stop  *)
(* or Start clears.                                                        *)
StoppedIsEmpty ==
  ~playing /\ ui = "idle" /\ ~cutShort /\ outlived = {}
    => decoder = NoDecoder /\ front = "none"

(* Once a timeout was handled there is no bitmap of a frame left to paint, *)
(* and the thread that brings the next one has ended the no-video state    *)
(* first (RtspVideoControl.cs:1692-1732).  The one exception is a bitmap   *)
(* that a frame under way put there after the image was hidden: a timeout  *)
(* while it is hidden does not clear it (1711), and it is painted, still   *)
(* in that state, as soon as the image is shown again (971-1010).          *)
NoVideoMeansBlank ==
  noVideo /\ ui = "idle" /\ playing => front \in {"none", "late"}

(* The display waits for itself in one case only.  A frame that keeps      *)
(* others from being published is still being scaled or is there for the   *)
(* next paint, or it was lost when its recording failed and stopping that  *)
(* failed as well (RtspVideoControl.cs:1376-1395, 1008).                   *)
PendingIsVisible ==
  pending => \/ unseen \/ abandoned
             \/ \E w \in Sessions : worker[w].pc = "publish"

(* The decoder gets a key frame or the successor of what it got last,      *)
(* unless the image was hidden, a frame had passed the gate when decoders  *)
(* were dropped, or an old session's frame came first                      *)
(* (RtspVideoControl.cs:1373-1374, 1652, 1813).                            *)
FedInOrder == ~fault

(* "falls back to a clean software decoder if the adapter/codec cannot use *)
(* the complete D3D11 path" (README.md:42-44).                             *)
GivenUpForCause ==
  \A w \in Sessions : worker[w].pc = "fallback" => worker[w].cause = "failed"

=============================================================================
