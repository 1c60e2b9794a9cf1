---------------------------- MODULE MCConnection ----------------------------
(* An instance of RtspConnection for TLC. *)
EXTENDS RtspConnection

(* OPTIONS, DESCRIBE, whose response has a body, and PLAY.                 *)
MCRequests ==
  <<[body |-> 0, portion |-> 0, ensured |-> FALSE],
    [body |-> 2, portion |-> 0, ensured |-> TRUE],
    [body |-> 0, portion |-> 1, ensured |-> TRUE]>>

=============================================================================
