--------------------------- MODULE MCVideoTxBuffer ---------------------------
(***************************************************************************)
(* Instances of VideoTxBuffer for TLC.                                     *)
(***************************************************************************)
EXTENDS VideoTxBuffer

\* A scheme with EC and one without.
MCSchemes == {[data |-> 3, ec |-> 1], [data |-> 3, ec |-> 0]}
==============================================================================
