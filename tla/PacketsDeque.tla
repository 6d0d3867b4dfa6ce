---------------------------- MODULE PacketsDeque ----------------------------
(***************************************************************************)
(* What a packet queue of the routers promises: packets leave in the order *)
(* of the sequence `queue', which grows at its end (a packet added), or at *)
(* its front (a packet injected first), up to Capacity packets.  `inHand'  *)
(* is the packet taken last, while its taker may still read it.            *)
(***************************************************************************)
EXTENDS Integers, Sequences

CONSTANTS Capacity, Packet

VARIABLES queue, inHand

Init == queue = <<>> /\ inHand = <<>>

Clear == queue' = <<>> /\ inHand' = <<>>

\* A full queue refuses the packet: that step leaves everything unchanged.
Add(p) ==
  /\ Len(queue) < Capacity
  /\ queue' = Append(queue, p)
  /\ UNCHANGED inHand

\* Nothing is refused here: a packet injected in front of a full queue
\* takes all the queued packets with it.
Inject(p) ==
  /\ queue' = IF Len(queue) < Capacity THEN <<p>> \o queue ELSE <<>>
  /\ inHand' = <<>>

Take ==
  /\ queue # <<>>
  /\ inHand' = <<Head(queue)>>
  /\ queue' = Tail(queue)

Next ==
  \/ Clear
  \/ \E p \in Packet : Add(p) \/ Inject(p)
  \/ Take

Spec == Init /\ [][Next]_<<queue, inHand>>
=============================================================================
