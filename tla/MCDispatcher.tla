---------------------------- MODULE MCDispatcher ----------------------------
(***************************************************************************)
(* Small instances of RawFrameDispatcher: one receive thread with an H.264 *)
(* stream (direct RTP), or one thread for each track, H.264 and audio      *)
(* (RTSP over UDP).                                                        *)
(***************************************************************************)
EXTENDS RawFrameDispatcher

MCVideo == [p \in Producers |-> {"I", "P"}]

CONSTANT VideoThread
MCPerTrack ==
  [p \in Producers |-> IF p = VideoThread THEN {"I", "P"} ELSE {"other"}]
=============================================================================
