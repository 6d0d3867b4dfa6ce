--------------------------- MODULE MCRadioRxQueue ---------------------------
(***************************************************************************)
(* Instances of RadioRxQueue for TLC.                                      *)
(***************************************************************************)
EXTENDS RadioRxQueue
=============================================================================
