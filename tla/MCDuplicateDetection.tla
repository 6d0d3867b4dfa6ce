------------------------ MODULE MCDuplicateDetection ------------------------
(***************************************************************************)
(* Instances of DuplicateDetection for TLC.                                *)
(***************************************************************************)
EXTENDS DuplicateDetection, TLC

\* An interface is at most MaxLag - 1 packets behind another: with MaxLag = 2
\* no more than MaxDelta, as in the code (25 of 50), but more than PauseDelta
\* where that is 0.
SmallDelta == [s \in Streams |-> 1]

\* Vehicles and interfaces are alike.
Alike == Permutations(Vehicles) \cup Permutations(Interfaces)
=============================================================================
