------------------------- MODULE DuplicateDetection -------------------------
(***************************************************************************)
(* The detection of duplicated packets and of restarted vehicles           *)
(* (code/radio/radio_duplicate_det.c), between the receive thread, which   *)
(* asks about every packet, and the station's router, which handles the    *)
(* packets and the restarts (code/r_station/process_radio_in_packets.cpp). *)
(*                                                                         *)
(* A vehicle sends each packet once; it arrives through every radio        *)
(* interface that hears it.  An interface delivers in order, but may be    *)
(* behind the others: the receive thread reads up to 25 packets of one     *)
(* before it looks whether another has any (code/radio/radio_rx.c).  The   *)
(* table of vehicles is not protected by a lock: the router's reset of an  *)
(* entry is two steps here, the check of a packet is one.  The vehicles    *)
(* are those the station is paired with.                                   *)
(*                                                                         *)
(* Of the time only the 8 seconds of the restart test are told apart: the  *)
(* clock is in its first 8 seconds or past them, and a stream was last     *)
(* heard within 8 seconds or before.                                       *)
(***************************************************************************)
EXTENDS Integers, Sequences

CONSTANTS
  Vehicles,      \* vehicle ids
  Streams,       \* radio streams of a vehicle
  MaxDelta,      \* per stream, in packets: 2000 for video and audio, else 50 or 200
  PauseDelta,    \* 10: the same after 8 seconds of silence
  HashSize,      \* PACKETS_INDEX_HASH_SIZE
  TableSize,     \* MAX_CONCURENT_VEHICLES
  Interfaces,    \* radio interfaces
  Pings,         \* whether a packet may be a clock ping: a set of BOOLEANs
  MaxLag,        \* bound of the model: packets an interface has still to read
  MaxQueue,      \* bound of the model: packets on the way to the router
  MaxIndex,      \* bound of the model: packets of a stream in one life
  MaxLives       \* bound of the model: lives of a vehicle

ASSUME DetectionAssumption ==
  /\ MaxDelta \in [Streams -> Nat] /\ PauseDelta \in Nat
  /\ HashSize \in Nat \ {0} /\ TableSize \in Nat \ {0}
  /\ "none" \notin Vehicles    \* 0 is not the id of a vehicle
  /\ Pings \subseteq BOOLEAN
  /\ MaxLag \in Nat \ {0} /\ MaxQueue \in Nat \ {0} /\ MaxIndex \in Nat /\ MaxLives \in Nat

Entry     == 0 .. TableSize - 1
NoVehicle == "none"
NoEntry   == -1
NoIndex   == -1    \* MAX_U32 in the code

Packet == [vid : Vehicles, life : Nat, stream : Streams, idx : Nat, ping : BOOLEAN]

VARIABLES
  life,      \* per vehicle: how often it was started
  next,      \* per vehicle and stream: the index of its next packet
  air,       \* per interface: the packets it has still to read
  early,     \* the clock is in its first 8 seconds
  table,     \* s_ListHistoryRxPacketsVehicles
  queue,     \* accepted packets on their way to the router
  reset,     \* the entry the router is resetting, and its vehicle
  accepted,  \* auxiliary: the packets accepted so far
  seen,      \* auxiliary: those of them since the history was cleared last
  restarted  \* auxiliary: the vehicles of which a restart was noticed

worldVars == <<life, next, air>>
vars == <<worldVars, early, table, queue, reset, accepted, seen, restarted>>

\* `last' tells when the stream was heard last: "never", in the "recent" 8
\* seconds or "long" ago.
NoHistory == [max |-> 0, last |-> "never", hash |-> [h \in 0 .. HashSize - 1 |-> NoIndex]]
Cleared   == [vid |-> NoVehicle, restart |-> FALSE, streams |-> [s \in Streams |-> NoHistory]]
NoReset   == [entry |-> NoEntry, vid |-> NoVehicle]

Init ==
  /\ life = [v \in Vehicles |-> 1]
  /\ next = [v \in Vehicles |-> [s \in Streams |-> 0]]
  /\ air = [i \in Interfaces |-> <<>>]
  /\ early = TRUE
  /\ table = [e \in Entry |-> Cleared]
  /\ queue = <<>>
  /\ reset = NoReset
  /\ accepted = {} /\ seen = {} /\ restarted = {}

\* The first entry of v (with NoVehicle: the first free one), NoEntry if none.
FirstEntry(v) ==
  IF \E e \in Entry : table[e].vid = v
    THEN CHOOSE e \in Entry : table[e].vid = v /\ \A f \in 0 .. e - 1 : table[f].vid # v
    ELSE NoEntry

(***************************************************************************)
(* Vehicles and the air.                                                   *)
(***************************************************************************)
\* No interface is more than MaxLag packets of a stream behind.
InLag(v, s) ==
  \A i \in Interfaces, k \in 1 .. MaxLag :
    /\ Len(air[i]) < MaxLag
    /\ k <= Len(air[i]) /\ air[i][k].vid = v /\ air[i][k].stream = s /\ air[i][k].life = life[v] =>
         next[v][s] - air[i][k].idx < MaxLag

\* A packet goes out; the interfaces of `by' hear it.
Send(v, s, ping, by) ==
  /\ next[v][s] < MaxIndex
  /\ InLag(v, s)
  /\ LET p == [vid |-> v, life |-> life[v], stream |-> s, idx |-> next[v][s], ping |-> ping]
     IN  air' = [i \in Interfaces |-> IF i \in by THEN Append(air[i], p) ELSE air[i]]
  /\ next' = [next EXCEPT ![v][s] = @ + 1]
  /\ UNCHANGED <<life, early, table, queue, reset, accepted, seen, restarted>>

\* The vehicle starts again; its indexes do, too.  It takes seconds: what it
\* sent before is read by then.
Restart(v) ==
  /\ \A i \in Interfaces, k \in 1 .. MaxLag : k <= Len(air[i]) => air[i][k].vid # v
  /\ life[v] < MaxLives
  /\ life' = [life EXCEPT ![v] = @ + 1]
  /\ next' = [next EXCEPT ![v] = [s \in Streams |-> 0]]
  /\ UNCHANGED <<air, early, table, queue, reset, accepted, seen, restarted>>

(***************************************************************************)
(* The clock.                                                              *)
(***************************************************************************)
EightSecondsPast ==
  /\ early
  /\ early' = FALSE
  /\ UNCHANGED <<worldVars, table, queue, reset, accepted, seen, restarted>>

\* Nothing of a stream is received for 8 seconds.  What the interfaces heard
\* of it before is read by then.
Silence(e, s) ==
  /\ table[e].streams[s].last = "recent"
  /\ \A i \in Interfaces : \A k \in 1 .. Len(air[i]) :
       ~ (air[i][k].vid = table[e].vid /\ air[i][k].stream = s)
  /\ table' = [table EXCEPT ![e].streams[s].last = "long"]
  /\ UNCHANGED <<worldVars, early, queue, reset, accepted, seen, restarted>>

(***************************************************************************)
(* The receive thread: radio_dup_detection_is_duplicate_on_stream and, for *)
(* a packet that is not a duplicate, the queue to the router.              *)
(***************************************************************************)
\* Where the history of a packet's vehicle is, or is to be.
EntryFor(v) == IF FirstEntry(v) # NoEntry THEN FirstEntry(v) ELSE FirstEntry(NoVehicle)

\* The entry before this packet: a new one is cleared first.
Current(p) ==
  IF FirstEntry(p.vid) # NoEntry
    THEN table[FirstEntry(p.vid)]
    ELSE [Cleared EXCEPT !.vid = p.vid]

\* The time 8 seconds ago is below zero in the first 8 seconds of the clock
\* and wraps: every stream seems silent then.
StreamRestarted(p) ==
  LET history == Current(p).streams[p.stream]
  IN  \/ history.max > p.idx + MaxDelta[p.stream]
      \/ /\ history.last # "never" /\ (early \/ history.last = "long")
         /\ history.max > p.idx + PauseDelta

\* The entry once a restart is noticed.
Noticed(p) ==
  IF StreamRestarted(p)
    THEN [Cleared EXCEPT !.vid = p.vid, !.restart = TRUE]
    ELSE Current(p)

\* Mutant: half the slots.
HashOfHalf(idx) == idx % (HashSize \div 2)

HashOf(idx) == idx % HashSize

\* Mutant: any index in the slot counts.
IsKnownBySlot(entry, p) == entry.streams[p.stream].hash[HashOf(p.idx)] # NoIndex

IsKnown(entry, p) ==
  ~ p.ping /\ entry.streams[p.stream].hash[HashOf(p.idx)] = p.idx

\* Mutant: the time of a stream is set with its first packet only.
EnteredUntimed(entry, p) ==
  [entry EXCEPT !.streams[p.stream] =
     [max |-> IF p.idx > @.max THEN p.idx ELSE @.max,
      last |-> IF @.last = "never" THEN "recent" ELSE @.last,
      hash |-> [@.hash EXCEPT ![HashOf(p.idx)] = p.idx]]]

Entered(entry, p) ==
  [entry EXCEPT !.streams[p.stream] =
     [max |-> IF p.idx > @.max THEN p.idx ELSE @.max,
      last |-> "recent",
      hash |-> [@.hash EXCEPT ![HashOf(p.idx)] = p.idx]]]

\* The packets seen of all vehicles but v.
SeenBut(v) == {q \in seen : q.vid # v}

Read(i) == air' = [air EXCEPT ![i] = Tail(@)] /\ UNCHANGED <<life, next, early>>

\* Mutant: one packet too many.
QueuedBeyond(p) == IF Len(queue) <= MaxQueue THEN Append(queue, p) ELSE Append(Tail(queue), p)

\* A full queue to the router gives up its oldest packet.
Queued(p) == IF Len(queue) < MaxQueue THEN Append(queue, p) ELSE Append(Tail(queue), p)

ReceiveNew(i) ==
  /\ air[i] # <<>>
  /\ LET p     == Head(air[i])
         e     == EntryFor(p.vid)
         entry == Noticed(p)
     IN  /\ e # NoEntry
         /\ ~ IsKnown(entry, p)
         /\ table' = [table EXCEPT ![e] = Entered(entry, p)]
         /\ queue' = Queued(p)
         /\ accepted' = accepted \cup {p}
         /\ seen' = (IF StreamRestarted(p) \/ FirstEntry(p.vid) = NoEntry
                       THEN SeenBut(p.vid) ELSE seen) \cup {p}
         /\ restarted' = restarted \cup (IF StreamRestarted(p) THEN {p.vid} ELSE {})
  /\ Read(i)
  /\ UNCHANGED reset

\* A history just cleared holds no packet: no restart is noticed here.
ReceiveDuplicate(i) ==
  /\ air[i] # <<>>
  /\ LET p == Head(air[i])
     IN  /\ EntryFor(p.vid) # NoEntry
         /\ IsKnown(Noticed(p), p)
  /\ Read(i)
  /\ UNCHANGED <<table, queue, reset, accepted, seen, restarted>>

\* "No more room in vehicles list": the packet counts as a duplicate.
ReceiveNoRoom(i) ==
  /\ air[i] # <<>>
  /\ EntryFor(Head(air[i]).vid) = NoEntry
  /\ Read(i)
  /\ UNCHANGED <<table, queue, reset, accepted, seen, restarted>>

(***************************************************************************)
(* The router.                                                             *)
(***************************************************************************)
\* Mutant: the entry is looked for among the free ones.
RestartMissed(p) == FirstEntry(NoVehicle) # NoEntry /\ table[FirstEntry(NoVehicle)].restart

\* radio_dup_detection_is_vehicle_restarted
IsRestarted(p) == FirstEntry(p.vid) # NoEntry /\ table[FirstEntry(p.vid)].restart

Handle ==
  /\ reset = NoReset
  /\ queue # <<>>
  /\ ~ IsRestarted(Head(queue))
  /\ queue' = Tail(queue)
  /\ UNCHANGED <<worldVars, early, table, reset, accepted, seen, restarted>>

\* The first packet handled after a restart: pairing, video and the history
\* of the vehicle are reset (radio_dup_detection_reset_vehicle_restarted_flag).
HandleRestart ==
  /\ reset = NoReset
  /\ queue # <<>>
  /\ IsRestarted(Head(queue))
  /\ queue' = Tail(queue)
  /\ LET v == Head(queue).vid
     IN  /\ reset' = [entry |-> FirstEntry(v), vid |-> v]
         /\ table' = [table EXCEPT ![FirstEntry(v)] = Cleared]
         /\ seen' = SeenBut(v)
  /\ UNCHANGED <<worldVars, early, accepted, restarted>>

\* Its end: the entry gets its vehicle back.  Another vehicle that took it in
\* between has lost its history.
EndReset ==
  /\ reset # NoReset
  /\ table' = [table EXCEPT ![reset.entry].restart = FALSE, ![reset.entry].vid = reset.vid]
  /\ reset' = NoReset
  /\ seen' = IF table[reset.entry].vid = reset.vid THEN seen ELSE SeenBut(table[reset.entry].vid)
  /\ UNCHANGED <<worldVars, early, queue, accepted, restarted>>

\* radio_duplicate_detection_remove_data_for_all_except; with no vehicle, all.
RemoveAllExcept(v) ==
  /\ reset = NoReset
  /\ table' = [e \in Entry |-> IF v # NoVehicle /\ table[e].vid = v THEN table[e] ELSE Cleared]
  /\ seen' = {q \in seen : q.vid = v}
  /\ UNCHANGED <<worldVars, early, queue, reset, accepted, restarted>>

\* radio_duplicate_detection_remove_data_for_vid
RemoveVehicle(v) ==
  /\ reset = NoReset
  /\ table' = [e \in Entry |-> IF table[e].vid = v THEN Cleared ELSE table[e]]
  /\ seen' = SeenBut(v)
  /\ UNCHANGED <<worldVars, early, queue, reset, accepted, restarted>>

Router == Handle \/ HandleRestart \/ EndReset

Receive(i) ==
  \/ ReceiveNew(i)
  \/ ReceiveDuplicate(i)
  \/ ReceiveNoRoom(i)

\* Nobody changes the settings of the link.
NextOnAir ==
  \/ \E v \in Vehicles, s \in Streams, ping \in Pings, by \in SUBSET Interfaces :
       Send(v, s, ping, by)
  \/ \E v \in Vehicles : Restart(v)
  \/ EightSecondsPast
  \/ \E e \in Entry, s \in Streams : Silence(e, s)
  \/ \E i \in Interfaces : Receive(i)
  \/ Router

Next ==
  \/ NextOnAir
  \/ \E v \in Vehicles : RemoveVehicle(v)
  \/ \E v \in Vehicles \cup {NoVehicle} : RemoveAllExcept(v)

Spec == Init /\ [][Next]_vars

OnAirSpec == Init /\ [][NextOnAir]_vars

\* The router's main loop handles what is queued.
FairSpec == Spec /\ WF_vars(Router)

(***************************************************************************)
(* Properties.                                                             *)
(***************************************************************************)
History ==
  [max : Nat, last : {"never", "recent", "long"}, hash : [0 .. HashSize - 1 -> Nat \cup {NoIndex}]]

TypeOK ==
  /\ life \in [Vehicles -> Nat] /\ next \in [Vehicles -> [Streams -> Nat]]
  /\ air \in [Interfaces -> Seq(Packet)]
  /\ early \in BOOLEAN
  /\ table \in [Entry -> [vid : Vehicles \cup {NoVehicle}, restart : BOOLEAN,
                          streams : [Streams -> History]]]
  /\ queue \in Seq(Packet) /\ Len(queue) <= MaxQueue
  /\ reset \in [entry : Entry \cup {NoEntry}, vid : Vehicles \cup {NoVehicle}]
  /\ accepted \subseteq Packet /\ seen \subseteq accepted
  /\ restarted \subseteq Vehicles

\* The vehicle never started again, nor was taken for one that did.
RunsOn(v) == life[v] = 1 /\ v \notin restarted

\* The lag between interfaces never looks like a restart, whatever was lost,
\* removed or restarted before and however long the stream was silent, though
\* after a silence a lag of more than PauseDelta would do.  Only in the first
\* 8 seconds, when the time wraps, it does.
NoFalseRestart ==
  [][\A i \in Interfaces :
       ReceiveNew(i) /\ RunsOn(Head(air[i]).vid) /\ ~ early =>
         ~ StreamRestarted(Head(air[i]))]_vars

\* While a vehicle runs on no packet of it is taken twice, unless its history
\* was cleared in between or is cleared for this packet ...
TakenOnce ==
  [][\A i \in Interfaces :
       LET p == Head(air[i])
       IN  ReceiveNew(i) /\ RunsOn(p.vid) =>
             p \notin seen \/ p.ping \/ StreamRestarted(p)]_vars

\* ... or dropped as a duplicate without having been taken, also when other
\* vehicles start again and entries change hands.
DroppedWasTaken ==
  [][\A i \in Interfaces :
       ReceiveDuplicate(i) /\ RunsOn(Head(air[i]).vid) => Head(air[i]) \in seen]_vars

\* A restart the receive thread noticed is handled by the router.
RestartHandled == \A e \in Entry : table[e].restart ~> ~ table[e].restart

\* radio_duplicate_det.c:199: "return 1 if packet is duplicate, 0 if it's not
\* duplicate".  A packet of the vehicle's present life is taken once.
DuplicatesDropped ==
  [][\A i \in Interfaces :
       LET p == Head(air[i])
       IN  ReceiveNew(i) /\ p.life = life[p.vid] => p \notin accepted]_vars
=============================================================================
