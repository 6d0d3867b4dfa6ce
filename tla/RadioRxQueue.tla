---------------------------- MODULE RadioRxQueue ----------------------------
(***************************************************************************)
(* A queue of received radio packets between two threads of a router       *)
(* (code/radio/radio_rx.c).  The receive thread adds packets, the main     *)
(* loop takes them.  Each router has two such queues, for regular and for  *)
(* high priority packets, which share nothing but the code.                *)
(*                                                                         *)
(* The queue is a ring between two positions, moved under a mutex; a       *)
(* counting semaphore tells the main loop that a packet is ready.  The     *)
(* slots themselves are written and read outside the mutex: every access   *)
(* to them is a step of its own here, and a copy of bytes two steps.       *)
(***************************************************************************)
EXTENDS Integers

CONSTANTS
  QueueSize,    \* iQueueSize: MAX_RX_PACKETS_QUEUE_REG or ..._HIP
  MaxArrivals   \* bound of the model: packets received

ASSUME QueueAssumption ==
  /\ QueueSize \in Nat /\ QueueSize >= 2
  /\ MaxArrivals \in Nat

Slot  == 0 .. QueueSize - 1
None  == 0     \* what a slot holds before its first packet: a length of 0
Mixed == -1    \* the bytes of two packets

\* Packets are numbered as they arrive, from 1 on.
Number == Nat \cup {Mixed}

VARIABLES
  write,        \* iCurrentPacketIndexToWrite
  consume,      \* iCurrentPacketIndexToConsume
  fields,       \* per slot: the packet its length, type and interface are of
  bytes,        \* per slot: the packet its bytes are of
  semaphore,    \* the value of the semaphore
  wpc,          \* where the receive thread is in adding a packet
  wslot,        \* its iIndexToWriteTo
  arrivals,     \* the number of the last packet received
  rpc,          \* where the main loop is in taking a packet
  rslot,        \* its iIndexToCopy
  got,          \* s_tmpLastProcessedRadioRxPacket and the length returned
  overflowed,   \* auxiliary: a packet was discarded for want of room
  lastTaken     \* auxiliary: the last packet handed to the main loop

writerVars == <<wpc, wslot, arrivals>>
readerVars == <<rpc, rslot, got, lastTaken>>
vars == <<write, consume, fields, bytes, semaphore, writerVars, readerVars, overflowed>>

\* Mutant: the position never wraps.
AfterUnwrapped(s) == s + 1

After(s) == IF s + 1 >= QueueSize THEN 0 ELSE s + 1

\* How many packets stand between the two positions.
Count == IF write < consume THEN write + (QueueSize - consume) ELSE write - consume

Init ==
  /\ write = 0 /\ consume = 0
  /\ fields = [s \in Slot |-> None]
  /\ bytes = [s \in Slot |-> None]
  /\ semaphore = 0
  /\ wpc = "idle" /\ wslot = 0 /\ arrivals = 0
  /\ rpc = "idle" /\ rslot = 0
  /\ got = [fields |-> None, bytes |-> None]
  /\ overflowed = FALSE /\ lastTaken = None

(***************************************************************************)
(* The receive thread: _radio_rx_add_packet_to_rx_queue.                   *)
(***************************************************************************)
\* Mutant: no full test.
NeverFull == FALSE

IsFull == After(write) = consume

\* A packet arrives: under the mutex a slot is taken for it, and the oldest
\* packet is discarded if there is no more room.
TakeSlot ==
  /\ wpc = "idle"
  /\ arrivals < MaxArrivals
  /\ arrivals' = arrivals + 1
  /\ wslot' = write
  /\ write' = After(write)
  /\ consume' = IF IsFull THEN After(consume) ELSE consume
  /\ overflowed' = (overflowed \/ IsFull)
  /\ wpc' = "fields"
  /\ UNCHANGED <<fields, bytes, semaphore, readerVars>>

WriteFields ==
  /\ wpc = "fields"
  /\ fields' = [fields EXCEPT ![wslot] = arrivals]
  /\ wpc' = "copy"
  /\ UNCHANGED <<write, consume, bytes, semaphore, wslot, arrivals, readerVars, overflowed>>

StartCopyIn ==
  /\ wpc = "copy"
  /\ bytes' = [bytes EXCEPT ![wslot] = Mixed]
  /\ wpc' = "copying"
  /\ UNCHANGED <<write, consume, fields, semaphore, wslot, arrivals, readerVars, overflowed>>

EndCopyIn ==
  /\ wpc = "copying"
  /\ bytes' = [bytes EXCEPT ![wslot] = arrivals]
  /\ wpc' = "post"
  /\ UNCHANGED <<write, consume, fields, semaphore, wslot, arrivals, readerVars, overflowed>>

\* Mutant: a semaphore that only knows 0 and 1.
PostedBinary(value) == 1

Posted(value) == value + 1

Post ==
  /\ wpc = "post"
  /\ semaphore' = Posted(semaphore)
  /\ wpc' = "idle"
  /\ UNCHANGED <<write, consume, fields, bytes, wslot, arrivals, readerVars, overflowed>>

(***************************************************************************)
(* The main loop: _radio_rx_wait_get_queue_packet.  When the semaphore is  *)
(* 0 it returns, and the loop calls it again.                              *)
(***************************************************************************)
TryWait ==
  /\ rpc = "idle"
  /\ semaphore > 0
  /\ semaphore' = semaphore - 1
  /\ rpc' = "claim"
  /\ UNCHANGED <<write, consume, fields, bytes, writerVars, rslot, got, lastTaken, overflowed>>

\* Mutant: the position stays where it is.
ConsumedStuck(s) == s

Consumed(s) == After(s)

\* Under the mutex: the packet to take, unless there is none or its length
\* is not set.
Claim ==
  /\ rpc = "claim"
  /\ consume # write /\ fields[consume] # None
  /\ rslot' = consume
  /\ consume' = Consumed(consume)
  /\ rpc' = "fields"
  /\ UNCHANGED <<write, fields, bytes, semaphore, writerVars, got, lastTaken, overflowed>>

ClaimNothing ==
  /\ rpc = "claim"
  /\ consume = write \/ fields[consume] = None
  /\ rpc' = "idle"
  /\ UNCHANGED <<write, consume, fields, bytes, semaphore, writerVars, rslot, got, lastTaken,
                 overflowed>>

ReadFields ==
  /\ rpc = "fields"
  /\ got' = [got EXCEPT !.fields = fields[rslot]]
  /\ rpc' = "copy"
  /\ UNCHANGED <<write, consume, fields, bytes, semaphore, writerVars, rslot, lastTaken, overflowed>>

StartCopyOut ==
  /\ rpc = "copy"
  /\ got' = [got EXCEPT !.bytes = bytes[rslot]]
  /\ rpc' = "copying"
  /\ UNCHANGED <<write, consume, fields, bytes, semaphore, writerVars, rslot, lastTaken, overflowed>>

\* The end of the copy: whole, if the slot was left alone meanwhile.
HandOver ==
  /\ rpc = "copying"
  /\ got' = [got EXCEPT !.bytes = IF bytes[rslot] = @ THEN @ ELSE Mixed]
  /\ lastTaken' = got'.bytes
  /\ rpc' = "idle"
  /\ UNCHANGED <<write, consume, fields, bytes, semaphore, writerVars, rslot, overflowed>>

Adding == WriteFields \/ StartCopyIn \/ EndCopyIn \/ Post
Taking == TryWait \/ Claim \/ ClaimNothing \/ ReadFields \/ StartCopyOut \/ HandOver

Next == TakeSlot \/ Adding \/ Taking

Spec == Init /\ [][Next]_vars

\* The main loop calls again and again, and the receive thread ends an add
\* it began; whether more packets arrive is up to the radio.
FairSpec == Spec /\ WF_vars(Adding) /\ WF_vars(Taking)

(***************************************************************************)
(* Properties.                                                             *)
(***************************************************************************)
TypeOK ==
  /\ write \in Slot /\ consume \in Slot
  /\ fields \in [Slot -> Nat] /\ bytes \in [Slot -> Number]
  /\ semaphore \in Nat
  /\ wpc \in {"idle", "fields", "copy", "copying", "post"}
  /\ wslot \in Slot /\ arrivals \in Nat
  /\ rpc \in {"idle", "claim", "fields", "copy", "copying"}
  /\ rslot \in Slot
  /\ got \in [fields : Nat, bytes : Number]
  /\ overflowed \in BOOLEAN /\ lastTaken \in Number

\* No packet is left in the ring without a token that will fetch it: the
\* semaphore, with the token the main loop holds and the one the receive
\* thread is about to post, never falls behind the packets in the ring.
TokensCoverPackets ==
  semaphore + (IF rpc = "claim" THEN 1 ELSE 0) + (IF wpc = "idle" THEN 0 ELSE 1) >= Count

\* As long as the ring never overflowed, the main loop gets every packet
\* once, whole and in the order of arrival, however the accesses to the
\* slots outside the mutex fall together.
InOrderUntilOverflow ==
  [][HandOver /\ ~ overflowed =>
       got'.fields = got'.bytes /\ got'.bytes = lastTaken + 1]_vars

\* Every packet leaves the ring: none waits for a later one to arrive.
InRing(s) == IF write >= consume THEN consume <= s /\ s < write
                                 ELSE consume <= s \/ s < write
RingDrains == \A s \in Slot : InRing(s) ~> ~ InRing(s)

\* radio_rx.c:480: the semaphore is "for packet ready".  What the main loop
\* takes is a packet that is ready, whole and not one of an earlier round.
TakenPacketsAreReady ==
  [][HandOver => got'.fields = got'.bytes /\ got'.bytes > lastTaken]_vars
=============================================================================
