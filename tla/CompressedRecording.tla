------------------------- MODULE CompressedRecording -------------------------
(***************************************************************************)
(* Compressed recording in the WinForms control: the rolling buffer of the *)
(* frames before a recording (CompressedVideoRollingBuffer.cs), the        *)
(* built-in recorders (AnnexBVideoFileRecorder.cs and                      *)
(* MpegTsVideoFileRecorder.cs, which agree in what they write) and the     *)
(* part of RtspVideoControl.cs that feeds them: the UI thread with Start,  *)
(* Stop, StartRecording and StopRecording, and for every session the       *)
(* thread that raises RawFrameGenerated.  What happens under               *)
(* _recordingSyncRoot is one step.                                         *)
(*                                                                         *)
(* A frame is its number, its time and whether it is a key frame; the      *)
(* buffer is a suffix of the frames that were added to it.                 *)
(***************************************************************************)
EXTENDS Integers, Sequences, FiniteSetsExt

CONSTANTS
  Duration,   \* PreRecordSeconds
  Steps,      \* the time from one frame to the next
  MaxFrames,  \* bound: frames before the model stops
  MaxStarts   \* bound: sessions started before the model stops

ASSUME RecordingAssumption ==
  /\ Duration \in Nat \ {0}
  /\ Steps \subseteq Nat
  /\ MaxFrames \in Nat /\ MaxStarts \in Nat

Sessions == 1..MaxStarts

VARIABLES
  ui,        \* what the UI thread does next
  starts,    \* history: the sessions started
  source,    \* _rawFrameSource, 0 is null
  needed,    \* _compressedRecordingNeeded
  capture,   \* raw frames of the source are forwarded to the control
  pre,       \* _compressedPreRecord is there
  added,     \* the frames that were added to it ...
  first,     \* ... and the first of them it still has
  recorder,  \* _compressedRecorder is there
  waiting,   \* its _waitingForKeyFrame
  file,      \* history: the numbers of the frames in its file
  flight,    \* the frame the thread of a session has in hand
  count,     \* history: the number of the last frame
  keys,      \* history: the numbers of the key frames
  clock,     \* the time of the last frame
  began,     \* history: the last frame when the recorder was started
  early,     \* history: it was started while nothing was playing
  outlived   \* history: Stop did not wait for a frame in hand

session == <<starts, source>>
buffer  == <<pre, added, first>>
output  == <<recorder, waiting, file, began, early>>
stream  == <<count, keys, clock>>
vars ==
  <<ui, session, needed, capture, buffer, output, flight, stream, outlived>>

Frames == [number : 1..MaxFrames, time : Nat, key : BOOLEAN]
NoFrame == [at |-> "none"]

TypeOK ==
  /\ ui \in {"idle", "join", "stopRecording", "clear"}
  /\ starts \in 0..MaxStarts /\ source \in 0..MaxStarts
  /\ needed \in BOOLEAN /\ capture \in BOOLEAN
  /\ pre \in BOOLEAN
  /\ added \in Seq(Frames) /\ first \in 1..(Len(added) + 1)
  /\ recorder \in BOOLEAN /\ waiting \in BOOLEAN
  /\ file \in Seq(1..MaxFrames)
  /\ flight \in [Sessions -> {NoFrame} \cup [at : {"record", "failed"},
                                             frame : Frames]]
  /\ count \in 0..MaxFrames /\ began \in 0..MaxFrames
  /\ keys \subseteq 1..MaxFrames /\ clock \in Nat
  /\ early \in BOOLEAN /\ outlived \in BOOLEAN

Init ==
  /\ ui = "idle" /\ starts = 0 /\ source = 0
  /\ needed = FALSE /\ capture = FALSE
  /\ pre = FALSE /\ added = <<>> /\ first = 1
  /\ recorder = FALSE /\ waiting = FALSE /\ file = <<>>
  /\ flight = [s \in Sessions |-> NoFrame]
  /\ count = 0 /\ keys = {} /\ clock = 0
  /\ began = 0 /\ early = FALSE /\ outlived = FALSE

-----------------------------------------------------------------------------
(* CompressedVideoRollingBuffer over the frames from..Len(fs) of a list.   *)

KeysIn(fs, from, to) == { i \in from..to : fs[i].key }

(* Prune: the frames before the window go, except the last key frame among *)
(* them and what follows it.                                               *)
\* A mutant of Pruned: the window starts with its own first frame.
PrunedToWindow(fs, from, cutoff) ==
  Min({ i \in from..Len(fs) : fs[i].time >= cutoff })

\* A mutant of Pruned: one frame too many is kept.
PrunedLess(fs, from, cutoff) ==
  Min({ i \in from..Len(fs) : fs[i].time >= cutoff }) - 1

Pruned(fs, from, cutoff) ==
  LET inside == Min({ i \in from..Len(fs) : fs[i].time >= cutoff })
      before == KeysIn(fs, from, inside - 1)
  IN IF before = {} THEN inside ELSE Max(before)

(* GetFramesForRecording: where the frames it returns start, 0 is nowhere. *)
StartIndex(fs, from, requested) ==
  LET all    == KeysIn(fs, from, Len(fs))
      before == { i \in all : fs[i].time <= requested }
  IN CASE before # {} -> Max(before)
       [] before = {} /\ all # {} -> Min(all)
       [] OTHER -> 0

(* The times a recording may start at: not before the window.              *)
Requests == (clock - Duration)..clock

-----------------------------------------------------------------------------
(* The UI thread. *)

Start(preRecord) ==
  /\ ui = "idle" /\ source = 0 /\ starts < MaxStarts
  /\ starts' = starts + 1 /\ source' = starts'
  /\ pre' = preRecord /\ added' = <<>> /\ first' = 1
  /\ needed' = preRecord /\ capture' = preRecord
  /\ UNCHANGED <<ui, output, flight, stream, outlived>>

(* SetCompressedRawFrameCapture, which needs a source.                     *)
SetCapture(on) == capture' = IF source = 0 THEN capture ELSE on

(* StartRecording; when the recorder throws over the frames it is given    *)
(* nothing has changed.                                                    *)
\* A mutant of StartRecording: capture stays as it was.
StartRecordingQuietly ==
  /\ ui = "idle" /\ ~recorder
  /\ file' = <<>> /\ waiting' = TRUE
  /\ recorder' = TRUE
  /\ began' = count /\ early' = (source = 0)
  /\ needed' = TRUE
  /\ UNCHANGED <<ui, session, capture, buffer, flight, stream, outlived>>

StartRecording ==
  /\ ui = "idle" /\ ~recorder
  /\ \E requested \in Requests :
       LET from == IF pre THEN StartIndex(added, first, requested) ELSE 0
       IN /\ file' = IF from = 0 THEN <<>>
                     ELSE [i \in 1..(Len(added) - from + 1) |->
                             added[from + i - 1].number]
          /\ waiting' = (from = 0)
  /\ recorder' = TRUE
  /\ began' = count /\ early' = (source = 0)
  /\ needed' = TRUE
  /\ SetCapture(TRUE)
  /\ UNCHANGED <<ui, session, buffer, flight, stream, outlived>>

(* StopRecording: the recorder is given up first, and when it throws over  *)
(* the rest of its file that is all that happens.                          *)
StopsRecording(throws) ==
  /\ recorder' = FALSE /\ waiting' = FALSE /\ file' = <<>>
  /\ IF recorder /\ ~throws
       THEN needed' = pre /\ SetCapture(pre)
       ELSE UNCHANGED <<needed, capture>>
  /\ began' = 0 /\ early' = FALSE

StopRecording ==
  /\ ui = "idle"
  /\ \E throws \in BOOLEAN : StopsRecording(throws)
  /\ UNCHANGED <<ui, session, buffer, flight, stream, outlived>>

(* Stop up to source.Stop() ...                                            *)
Stop ==
  /\ ui = "idle"
  /\ source' = 0
  /\ capture' = FALSE
  /\ ui' = "join"
  /\ UNCHANGED <<starts, needed, buffer, output, flight, stream, outlived>>

(* ... which waits for the frame in hand, but not for long ...             *)
Joined(late) ==
  /\ ui = "join"
  /\ LET busy == { s \in Sessions : flight[s] # NoFrame }
     IN IF late THEN busy # {} /\ outlived' = TRUE
                ELSE busy = {} /\ UNCHANGED outlived
  /\ ui' = "stopRecording"
  /\ UNCHANGED <<session, needed, capture, buffer, output, flight, stream>>

(* ... the recording, whose exception ends Stop ...                        *)
StopEndsRecording(throws) ==
  /\ ui = "stopRecording"
  /\ StopsRecording(throws)
  /\ ui' = IF recorder /\ throws THEN "idle" ELSE "clear"
  /\ UNCHANGED <<session, buffer, flight, stream, outlived>>

(* ... and the buffer.                                                     *)
Clear ==
  /\ ui = "clear"
  /\ pre' = FALSE /\ added' = <<>> /\ first' = 1
  /\ needed' = FALSE
  /\ ui' = "idle"
  /\ UNCHANGED <<session, capture, output, flight, stream, outlived>>

-----------------------------------------------------------------------------
(* The thread of a session. *)

(* RawFrameSourceOnFrameGenerated up to the lock.                          *)
Generate(s, key, step) ==
  /\ source = s /\ flight[s] = NoFrame /\ count < MaxFrames
  /\ count' = count + 1
  /\ keys' = IF key THEN keys \cup {count'} ELSE keys
  /\ clock' = clock + step
  /\ flight' = IF capture /\ needed
                 THEN [flight EXCEPT ![s] = [at |-> "record",
                        frame |-> [number |-> count', time |-> clock', key |-> key]]]
                 ELSE flight
  /\ UNCHANGED <<ui, session, needed, capture, buffer, output, outlived>>

(* CompressedVideoRollingBuffer.Add.                                       *)
AddFrame(frame) ==
  IF pre THEN /\ added' = Append(added, frame)
              /\ first' = Pruned(added', first, frame.time - Duration)
         ELSE UNCHANGED <<added, first>>

(* WriteCore of the recorder, up to the file.                              *)
Accepts(frame) == frame.key \/ ~waiting

(* RecordCompressedFrame, with a write that may fail.                      *)
\* A mutant of Record: the recorder that is fed has its frames, the buffer
\* gets those of the time between recordings.
RecordOrAdd(s) ==
  /\ flight[s].at = "record"
  /\ LET frame == flight[s].frame
     IN /\ IF recorder THEN UNCHANGED <<added, first>> ELSE AddFrame(frame)
        /\ \/ /\ flight' = [flight EXCEPT ![s] = NoFrame]
              /\ IF recorder /\ Accepts(frame)
                   THEN file' = Append(file, frame.number) /\ waiting' = FALSE
                   ELSE UNCHANGED <<file, waiting>>
           \/ /\ recorder /\ Accepts(frame)
              /\ flight' = [flight EXCEPT ![s].at = "failed"]
              /\ waiting' = FALSE /\ UNCHANGED file
  /\ UNCHANGED <<ui, session, needed, capture, pre, recorder, began, early,
                 stream, outlived>>

Record(s) ==
  /\ flight[s].at = "record"
  /\ LET frame == flight[s].frame
     IN /\ AddFrame(frame)
        /\ \/ /\ flight' = [flight EXCEPT ![s] = NoFrame]
              /\ IF recorder /\ Accepts(frame)
                   THEN file' = Append(file, frame.number) /\ waiting' = FALSE
                   ELSE UNCHANGED <<file, waiting>>
           \/ /\ recorder /\ Accepts(frame)
              /\ flight' = [flight EXCEPT ![s].at = "failed"]
              /\ waiting' = FALSE /\ UNCHANGED file
  /\ UNCHANGED <<ui, session, needed, capture, pre, recorder, began, early,
                 stream, outlived>>

(* The handler of the exception, which runs outside the lock and stops the *)
(* recording there is by then.                                             *)
GiveUp(s) ==
  /\ flight[s].at = "failed"
  /\ flight' = [flight EXCEPT ![s] = NoFrame]
  /\ \E throws \in BOOLEAN : StopsRecording(throws)
  /\ UNCHANGED <<ui, session, buffer, stream, outlived>>

-----------------------------------------------------------------------------
Next ==
  \/ \E preRecord \in BOOLEAN : Start(preRecord)
  \/ StartRecording \/ StopRecording \/ Stop \/ Clear
  \/ \E b \in BOOLEAN : Joined(b) \/ StopEndsRecording(b)
  \/ \E s \in Sessions :
       \/ Record(s) \/ GiveUp(s)
       \/ \E key \in BOOLEAN, step \in Steps : Generate(s, key, step)

Spec == Init /\ [][Next]_vars

-----------------------------------------------------------------------------
(* What was pruned is not missed: a recording that may start anywhere in   *)
(* the window starts with the frame it would start with if every frame had *)
(* been kept (CompressedVideoRollingBuffer.cs:85-106; the rolling buffer's *)
(* tests try three lists).                                                 *)
PruningIsInvisible ==
  pre => \A requested \in Requests :
           StartIndex(added, first, requested) = StartIndex(added, 1, requested)

(* The file is complete: it starts with a key frame and has every frame    *)
(* since, whether that came before or after the recording was started, and *)
(* it is empty only before the first key frame                             *)
(* (RtspVideoControl.cs:643-664, 1550-1584).  It says nothing of a file    *)
(* once some Stop did not wait for a frame in hand (outlived), and not     *)
(* that a file has the newest frame when the recording was started while   *)
(* nothing played (early); a recording that a failed write of another one  *)
(* stopped is over, and no file of it is looked at any more.               *)
Complete ==
  LET last == IF flight[source] = NoFrame THEN count ELSE count - 1
  IN IF file = <<>> THEN ~ \E k \in keys : k \in (began + 1)..last
                    ELSE file[Len(file)] = last

RecordingIsComplete ==
  recorder /\ ~outlived =>
    /\ file # <<>> => file[1] \in keys
    /\ \A i \in 1..(Len(file) - 1) : file[i + 1] = file[i] + 1
    /\ source # 0 /\ ~early /\ flight[source] # NoFrame
         => flight[source].at = "failed" \/ Complete
    /\ source # 0 /\ ~early /\ flight[source] = NoFrame => Complete

(* A recorder that was started while playing is fed until it is stopped:   *)
(* frames are captured and wanted (RtspVideoControl.cs:512, 658, 680-681). *)
RecorderIsFed ==
  recorder /\ source # 0 /\ ~early => needed /\ capture

=============================================================================
