----------------------------- MODULE MCTestLink -----------------------------
(***************************************************************************)
(* Instances of TestLink for TLC.                                          *)
(***************************************************************************)
EXTENDS TestLink

CONSTANTS old, new

TwoParams == {old, new}
=============================================================================
