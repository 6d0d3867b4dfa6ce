--------------------------- MODULE MCPacketsQueue ---------------------------
(* Model values for TLC: a queue of four slots and two distinct packets.   *)
EXTENDS PacketsQueue
=============================================================================
