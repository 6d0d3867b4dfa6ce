---------------------------- MODULE PacketsQueue ----------------------------
(***************************************************************************)
(* The packet queue of the radio layer (code/radio/radiopacketsqueue.c):   *)
(* a ring of MaxPackets slots between two positions, one slot always left  *)
(* free.  The routers of the vehicle and of the station keep one such      *)
(* queue per purpose (control packets, radio packets out, high priority    *)
(* radio packets) and use it from their main loop only.                    *)
(*                                                                         *)
(* A packet taken from the queue is a pointer into its slot, still read    *)
(* by the caller after the slot was given back: `held' follows it.         *)
(***************************************************************************)
EXTENDS Integers, Sequences

CONSTANTS MaxPackets,   \* MAX_PACKETS_IN_QUEUE
          Packet        \* the packets, told apart by their contents

ASSUME MaxPacketsAssumption == MaxPackets \in Nat /\ MaxPackets >= 2

Position == 0 .. MaxPackets - 1
Unset    == -1

VARIABLES
  queue_start_pos,   \* position of the first packet, Unset before first use
  queue_end_pos,     \* position of the first free slot
  packets_queue,     \* the bytes in each slot
  timeFirstSet,      \* timeFirstPacket # MAX_U32
  held               \* the slot the last popped packet is read from, or Unset

vars == <<queue_start_pos, queue_end_pos, packets_queue, timeFirstSet, held>>

(***************************************************************************)
(* Positions.                                                              *)
(***************************************************************************)
\* Mutant: the position never wraps.
AfterUnwrapped(i) == i + 1

After(i)  == IF i + 1 >= MaxPackets THEN 0 ELSE i + 1
Before(i) == IF i - 1 < 0 THEN MaxPackets - 1 ELSE i - 1

IsEmpty == queue_start_pos = queue_end_pos

\* packets_queue_has_packets
Count ==
  IF IsEmpty THEN 0
  ELSE IF queue_end_pos > queue_start_pos
    THEN queue_end_pos - queue_start_pos
    ELSE queue_end_pos + (MaxPackets - queue_start_pos)

\* Mutant: no full test.
NeverFull == FALSE

\* The full test of packets_queue_add_packet2, made after the first-use reset.
IsFull == queue_start_pos # Unset /\ After(queue_end_pos) = queue_start_pos

\* The slot of the packet `index' places behind the first one.
SlotAt(index) ==
  IF queue_start_pos + index >= MaxPackets
    THEN queue_start_pos + index - MaxPackets
    ELSE queue_start_pos + index

\* packets_queue_peek_packet
Peek(index) == packets_queue[SlotAt(index)]

(***************************************************************************)
(* The queue is a zeroed global until packets_queue_init() is called.      *)
(***************************************************************************)
Init ==
  /\ queue_start_pos = Unset
  /\ queue_end_pos = Unset
  /\ packets_queue \in [Position -> Packet]
  /\ timeFirstSet = TRUE
  /\ held = Unset

\* Mutant: the end position keeps its value.
InitQueueStartOnly ==
  /\ queue_start_pos' = Unset
  /\ held' = Unset
  /\ UNCHANGED <<queue_end_pos, packets_queue, timeFirstSet>>

\* packets_queue_init: also how the station router empties a queue.
InitQueue ==
  /\ queue_start_pos' = Unset
  /\ queue_end_pos' = Unset
  /\ held' = Unset
  /\ UNCHANGED <<packets_queue, timeFirstSet>>

\* Mutant: the arrival time is taken only on the very first packet.
AddPacketUntimed(p) ==
  /\ ~ IsFull
  /\ LET end == IF queue_start_pos = Unset THEN 0 ELSE queue_end_pos
     IN  /\ queue_start_pos' = IF queue_start_pos = Unset THEN 0 ELSE queue_start_pos
         /\ packets_queue' = [packets_queue EXCEPT ![end] = p]
         /\ queue_end_pos' = After(end)
  /\ timeFirstSet' = IF queue_start_pos = Unset THEN TRUE ELSE timeFirstSet
  /\ UNCHANGED held

\* packets_queue_add_packet2, and the two functions that only call it.
AddPacket(p) ==
  /\ ~ IsFull
  /\ LET end == IF queue_start_pos = Unset THEN 0 ELSE queue_end_pos
     IN  /\ queue_start_pos' = IF queue_start_pos = Unset THEN 0 ELSE queue_start_pos
         /\ packets_queue' = [packets_queue EXCEPT ![end] = p]
         /\ queue_end_pos' = After(end)
  /\ timeFirstSet' = IF IsEmpty THEN TRUE ELSE timeFirstSet
  /\ UNCHANGED held

AddRefused ==
  /\ IsFull
  /\ UNCHANGED vars

\* Mutant: the packet is written before the position moves back.
InjectFirstLate(p) ==
  /\ IF IsEmpty
       THEN /\ queue_start_pos' = 0
            /\ queue_end_pos' = 1
            /\ packets_queue' = [packets_queue EXCEPT ![0] = p]
            /\ timeFirstSet' = TRUE
       ELSE /\ queue_start_pos' = Before(queue_start_pos)
            /\ packets_queue' = [packets_queue EXCEPT ![queue_start_pos] = p]
            /\ UNCHANGED <<queue_end_pos, timeFirstSet>>
  /\ held' = Unset

\* packets_queue_inject_packet_first and ..._mark_time.  They have no full
\* test.  Whatever the caller still holds may be the slot written here, so
\* the held packet is given up.
InjectFirst(p) ==
  /\ IF IsEmpty
       THEN /\ queue_start_pos' = 0
            /\ queue_end_pos' = 1
            /\ packets_queue' = [packets_queue EXCEPT ![0] = p]
            /\ timeFirstSet' = TRUE
       ELSE /\ queue_start_pos' = Before(queue_start_pos)
            /\ packets_queue' = [packets_queue EXCEPT ![Before(queue_start_pos)] = p]
            /\ UNCHANGED <<queue_end_pos, timeFirstSet>>
  /\ held' = Unset

\* packets_queue_pop_packet and ..._and_time
PopPacket ==
  /\ ~ IsEmpty
  /\ held' = queue_start_pos
  /\ queue_start_pos' = After(queue_start_pos)
  /\ timeFirstSet' = IF After(queue_start_pos) = queue_end_pos THEN FALSE ELSE timeFirstSet
  /\ UNCHANGED <<queue_end_pos, packets_queue>>

Next ==
  \/ InitQueue
  \/ \E p \in Packet : AddPacket(p)
  \/ AddRefused
  \/ \E p \in Packet : InjectFirst(p)
  \/ PopPacket

Spec == Init /\ [][Next]_vars

(***************************************************************************)
(* Properties.                                                             *)
(***************************************************************************)
TypeOK ==
  /\ queue_start_pos \in Position \cup {Unset}
  /\ queue_end_pos \in Position \cup {Unset}
  /\ packets_queue \in [Position -> Packet]
  /\ timeFirstSet \in BOOLEAN
  /\ held \in Position \cup {Unset}

\* The two positions are unset together, and a popped packet that a caller
\* still reads sits in the slot just before the first queued one: the slot
\* the ring leaves free, never one of the queued packets.
PositionsOK ==
  /\ queue_start_pos = Unset <=> queue_end_pos = Unset
  /\ held # Unset => queue_start_pos # Unset /\ After(held) = queue_start_pos

\* The first packet's arrival time is known whenever there is a packet, so
\* that the "first packet has waited 55 ms" test of the router loops
\* (ruby_rt_station.cpp:764, ruby_rt_vehicle.cpp:1763) cannot be missed.
TimeFirstKnown == Count > 0 => timeFirstSet

\* The queued packets, first to last.
Contents == [i \in 1 .. Count |-> Peek(i - 1)]

\* The packet a caller holds after a pop keeps its bytes while the caller
\* queues replies with packets_queue_add_packet: the full test leaves one
\* slot free, and that slot is the held one.
HeldPacketIntact ==
  [][held # Unset /\ held' = held => packets_queue'[held] = packets_queue[held]]_vars

\* The queue implements a bounded deque (module PacketsDeque).
Deque == INSTANCE PacketsDeque
           WITH Capacity <- MaxPackets - 1,
                queue <- Contents,
                inHand <- IF held = Unset THEN <<>> ELSE <<packets_queue[held]>>
ImplementsDeque == Deque!Spec
=============================================================================
