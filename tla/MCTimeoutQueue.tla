--------------------------- MODULE MCTimeoutQueue ---------------------------
(* Instance of TimeoutQueue for TLC.  Four counter values leave three ids   *)
(* for three pointers, so the counter wraps while entries are alive and     *)
(* push meets an id that is taken.                                          *)
EXTENDS TimeoutQueue

MCDeadline == 1 .. 2
=============================================================================
