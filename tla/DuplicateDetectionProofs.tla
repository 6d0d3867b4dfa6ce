---------------------- MODULE DuplicateDetectionProofs ----------------------
(***************************************************************************)
(* Proofs about the detection of duplicates, for every number of vehicles, *)
(* streams, interfaces and entries: while a vehicle runs on, whatever else *)
(* starts again or is removed, nothing of it is dropped that was not taken *)
(* and nothing taken twice; and past the clock's first 8 seconds it is not *)
(* taken for one that started again.                                       *)
(***************************************************************************)
EXTENDS DuplicateDetection, TLAPS, SequenceTheorems, FiniteSetTheorems

InAir(i) == {air[i][k] : k \in 1 .. Len(air[i])}

\* The packets a receiver may still know of.
Out == seen \cup UNION {InAir(i) : i \in Interfaces}

ResetRight == reset # NoReset => reset.entry \in Entry /\ reset.vid \in Vehicles

\* A packet was sent in a life of its vehicle, at its time in it.
SentBefore(p) ==
  /\ 1 <= p.life /\ p.life <= life[p.vid]
  /\ p.life = life[p.vid] => p.idx < next[p.vid][p.stream]

\* The packets in the air are of the present life, and not too far behind.
AirRight ==
  \A i \in Interfaces :
    /\ Len(air[i]) <= MaxLag
    /\ \A p \in InAir(i) :
         /\ p.life = life[p.vid]
         /\ next[p.vid][p.stream] <= p.idx + MaxLag

SentRight ==
  /\ \A v \in Vehicles : 1 <= life[v]
  /\ \A p \in Out : SentBefore(p)

\* An index names one packet of a stream in one life.
NoTwoAlike ==
  \A p, q \in Out :
    p.vid = q.vid /\ p.life = q.life /\ p.stream = q.stream /\ p.idx = q.idx => p = q

World == AirRight /\ SentRight /\ NoTwoAlike

IInv == TypeOK /\ ResetRight /\ World

-----------------------------------------------------------------------------
(***************************************************************************)
(* The first entry of a vehicle.                                           *)
(***************************************************************************)
\* A non-empty set of numbers has a least one.
LEMMA LeastNumber ==
  ASSUME NEW T, T \subseteq Nat, T # {}
  PROVE  \E x \in T : \A y \in Nat : y < x => y \notin T
<1> DEFINE Initials == {0 .. x : x \in T}
           Below == StrictSubsetOrdering(Nat)
<1>1. Initials \subseteq FiniteSubsetsOf(Nat) /\ Initials # {}
  <2> SUFFICES ASSUME NEW x \in T PROVE 0 .. x \in FiniteSubsetsOf(Nat)
    OBVIOUS
  <2>1. IsFiniteSet(0 .. x)
    BY FS_Interval, x \in Nat
  <2> QED
    BY <2>1, x \in Nat DEF FiniteSubsetsOf
<1>2. PICK X \in Initials : \A Y \in Initials : ~ (<<Y, X>> \in Below)
  <2> HIDE DEF Initials, Below
  <2>1. IsWellFoundedOn(Below, FiniteSubsetsOf(Nat))
    BY FS_StrictSubsetOrderingWellFounded DEF Below
  <2> QED
    BY <1>1, <2>1, WFMin
<1>3. PICK x \in T : X = 0 .. x
  OBVIOUS
<1>4. ASSUME NEW y \in Nat, y < x, y \in T
      PROVE  FALSE
  <2>1. 0 .. y \subseteq 0 .. x /\ 0 .. y # 0 .. x /\ 0 .. y \subseteq Nat /\ 0 .. x \subseteq Nat
    BY <1>4, x \in Nat
  <2>2. <<0 .. y, 0 .. x>> \in Below
    BY <2>1 DEF StrictSubsetOrdering
  <2> QED
    BY <1>2, <1>3, <1>4, <2>2
<1> QED
  BY <1>4

LEMMA FirstEntryFacts ==
  ASSUME TypeOK, NEW v
  PROVE  /\ FirstEntry(v) = NoEntry => \A e \in Entry : table[e].vid # v
         /\ FirstEntry(v) # NoEntry => FirstEntry(v) \in Entry /\ table[FirstEntry(v)].vid = v
<1>1. CASE \A e \in Entry : table[e].vid # v
  BY <1>1 DEF FirstEntry
<1>2. CASE \E e \in Entry : table[e].vid = v
  <2> DEFINE T == {e \in Entry : table[e].vid = v}
             Is(e) == table[e].vid = v /\ \A f \in 0 .. e - 1 : table[f].vid # v
  <2>1. T \subseteq Nat /\ T # {}
    BY <1>2, DetectionAssumption DEF Entry
  <2>2. PICK x \in T : \A y \in Nat : y < x => y \notin T
    <3> HIDE DEF T
    <3> QED
      BY <2>1, LeastNumber
  <2>3. x \in Entry /\ table[x].vid = v
    OBVIOUS
  <2>4. \A f \in 0 .. x - 1 : table[f].vid # v
    <3> SUFFICES ASSUME NEW f \in 0 .. x - 1 PROVE table[f].vid # v
      OBVIOUS
    <3>1. f \in Nat /\ f < x /\ f \in Entry
      BY <2>3, DetectionAssumption DEF Entry
    <3> QED
      BY <2>2, <3>1
  <2>5. Is(x)
    BY <2>3, <2>4
  <2>6. FirstEntry(v) = CHOOSE e \in Entry : Is(e)
    BY <1>2 DEF FirstEntry
  <2>7. FirstEntry(v) \in Entry /\ Is(FirstEntry(v))
    <3> HIDE DEF Is
    <3> QED
      BY <2>3, <2>5, <2>6
  <2>8. NoEntry \notin Entry
    BY DetectionAssumption DEF NoEntry, Entry
  <2> QED
    BY <2>7, <2>8
<1> QED
  BY <1>1, <1>2

-----------------------------------------------------------------------------
(***************************************************************************)
(* Types.                                                                  *)
(***************************************************************************)
EntryType == [vid : Vehicles \cup {NoVehicle}, restart : BOOLEAN, streams : [Streams -> History]]

LEMMA ClearedType == Cleared \in EntryType /\ NoHistory \in History
<1>1. NoHistory \in History
  BY DetectionAssumption DEF NoHistory, History, NoIndex
<1> QED
  BY <1>1 DEF Cleared, EntryType

LEMMA SlotType ==
  ASSUME TypeOK, NEW e \in Entry, NEW s \in Streams, NEW h \in 0 .. HashSize - 1
  PROVE  table[e].streams[s].hash[h] \in Nat \cup {NoIndex} /\ table[e].streams[s].hash[h] \in Int
<1>1. table[e].streams[s] \in History
  BY DEF TypeOK
<1>2. table[e].streams[s].hash[h] \in Nat \cup {NoIndex}
  BY <1>1 DEF History
<1>3. NoIndex \in Int
  BY DEF NoIndex
<1> QED
  BY <1>2, <1>3

LEMMA HashOfType ==
  ASSUME NEW idx \in Nat
  PROVE  HashOf(idx) \in 0 .. HashSize - 1
BY DetectionAssumption DEF HashOf

LEMMA EnteredType ==
  ASSUME NEW entry \in EntryType, NEW p \in Packet
  PROVE  Entered(entry, p) \in EntryType
<1> DEFINE history == entry.streams[p.stream]
           after == [max |-> IF p.idx > history.max THEN p.idx ELSE history.max,
                     last |-> "recent",
                     hash |-> [history.hash EXCEPT ![HashOf(p.idx)] = p.idx]]
<1>1. p.idx \in Nat /\ p.stream \in Streams /\ history \in History
  BY DEF Packet, EntryType
<1>2. after \in History
  BY <1>1, HashOfType DEF History
<1>3. Entered(entry, p) = [entry EXCEPT !.streams = [entry.streams EXCEPT ![p.stream] = after]]
  BY DEF Entered
<1> HIDE DEF after
<1>4. [entry.streams EXCEPT ![p.stream] = after] \in [Streams -> History]
  BY <1>2 DEF EntryType
<1>5. ASSUME NEW streams \in [Streams -> History]
      PROVE  [entry EXCEPT !.streams = streams] \in EntryType
  BY <1>5 DEF EntryType
<1> QED
  BY <1>3, <1>4, <1>5

LEMMA NoticedType ==
  ASSUME TypeOK, NEW p \in Packet
  PROVE  Noticed(p) \in EntryType
<1>1. p.vid \in Vehicles
  BY DEF Packet
<1>2. [Cleared EXCEPT !.vid = p.vid] \in EntryType
  BY <1>1, ClearedType DEF EntryType
<1>3. [Cleared EXCEPT !.vid = p.vid, !.restart = TRUE] \in EntryType
  BY <1>1, ClearedType DEF EntryType
<1>4. Current(p) \in EntryType
  BY <1>2, FirstEntryFacts DEF Current, TypeOK, EntryType
<1> QED
  BY <1>3, <1>4 DEF Noticed

\* A packet read, and what reading leaves in the air.
LEMMA Reading ==
  ASSUME TypeOK, NEW i \in Interfaces, air[i] # <<>>, Read(i)
  PROVE  /\ Head(air[i]) \in Packet /\ Head(air[i]) \in InAir(i)
         /\ air' \in [Interfaces -> Seq(Packet)]
         /\ \A j \in Interfaces : Len(air'[j]) <= Len(air[j]) /\ InAir(j)' \subseteq InAir(j)
         /\ UNCHANGED <<life, next, early>>
<1>1. air[i] \in Seq(Packet)
  BY DEF TypeOK
<1>2. /\ Len(air[i]) \in Nat \ {0} /\ Head(air[i]) = air[i][1] /\ Head(air[i]) \in Packet
      /\ Tail(air[i]) \in Seq(Packet) /\ Len(Tail(air[i])) = Len(air[i]) - 1
      /\ \A k \in 1 .. Len(air[i]) - 1 : Tail(air[i])[k] = air[i][k + 1]
  BY <1>1, HeadTailProperties, EmptySeq, LenProperties
<1>3. Head(air[i]) \in InAir(i)
  BY <1>2 DEF InAir
<1>4. air' = [air EXCEPT ![i] = Tail(air[i])]
  BY DEF Read
<1>5. air' \in [Interfaces -> Seq(Packet)]
  BY <1>2, <1>4 DEF TypeOK
<1>6. ASSUME NEW j \in Interfaces
      PROVE  Len(air'[j]) <= Len(air[j]) /\ InAir(j)' \subseteq InAir(j)
  <2>1. CASE j = i
    <3>1. air'[j] = Tail(air[i])
      BY <1>4, <2>1 DEF TypeOK
    <3>2. ASSUME NEW k \in 1 .. Len(air'[j])
          PROVE  air'[j][k] \in InAir(j)
      BY <1>2, <2>1, <3>1, k + 1 \in 1 .. Len(air[i]) DEF InAir
    <3> QED
      BY <1>2, <2>1, <3>1, <3>2 DEF InAir
  <2>2. CASE j # i
    <3>1. air'[j] = air[j] /\ air[j] \in Seq(Packet)
      BY <1>4, <2>2 DEF TypeOK
    <3> QED
      BY <3>1, LenProperties DEF InAir
  <2> QED
    BY <2>1, <2>2
<1> QED
  BY <1>2, <1>3, <1>5, <1>6 DEF Read

LEMMA QueuedType ==
  ASSUME TypeOK, NEW p \in Packet
  PROVE  Queued(p) \in Seq(Packet) /\ Len(Queued(p)) <= MaxQueue
<1>1. queue \in Seq(Packet) /\ Len(queue) \in Nat /\ MaxQueue \in Nat \ {0}
  BY DetectionAssumption DEF TypeOK
<1>2. CASE Len(queue) < MaxQueue
  BY <1>1, <1>2, AppendProperties DEF Queued
<1>3. CASE ~ (Len(queue) < MaxQueue)
  <2>1. Len(queue) = MaxQueue
    BY <1>1, <1>3 DEF TypeOK
  <2>2. queue # <<>>
    BY <1>1, <2>1, EmptySeq
  <2>3. Tail(queue) \in Seq(Packet) /\ Len(Tail(queue)) = MaxQueue - 1
    BY <1>1, <2>1, <2>2, HeadTailProperties
  <2> QED
    BY <1>1, <1>3, <2>3, AppendProperties DEF Queued
<1> QED
  BY <1>2, <1>3

LEMMA TailQueueType ==
  ASSUME TypeOK, queue # <<>>
  PROVE  /\ Tail(queue) \in Seq(Packet) /\ Len(Tail(queue)) <= MaxQueue
         /\ Head(queue) \in Packet
<1>1. queue \in Seq(Packet) /\ Len(queue) \in Nat /\ Len(queue) <= MaxQueue /\ MaxQueue \in Nat
  BY DetectionAssumption DEF TypeOK
<1> QED
  BY <1>1, HeadTailProperties

\* Where a packet's entry is, or is to be.
LEMMA EntryForFacts ==
  ASSUME TypeOK, NEW v \in Vehicles, EntryFor(v) # NoEntry
  PROVE  /\ EntryFor(v) \in Entry
         /\ FirstEntry(v) # NoEntry => EntryFor(v) = FirstEntry(v)
         /\ FirstEntry(v) = NoEntry => table[EntryFor(v)].vid = NoVehicle
BY FirstEntryFacts DEF EntryFor

-----------------------------------------------------------------------------
(***************************************************************************)
(* The world: what was sent, and what is on its way.                       *)
(***************************************************************************)
\* Steps of the receiver only take packets from the air, and forget some.
LEMMA WorldShrinks ==
  ASSUME TypeOK, World, UNCHANGED <<life, next>>,
         Out' \subseteq Out,
         air' \in [Interfaces -> Seq(Packet)],
         \A i \in Interfaces : Len(air'[i]) <= Len(air[i]) /\ InAir(i)' \subseteq InAir(i)
  PROVE  World'
<1>1. AirRight'
  <2> SUFFICES ASSUME NEW i \in Interfaces
               PROVE  /\ Len(air'[i]) <= MaxLag
                      /\ \A p \in InAir(i)' :
                           /\ p.life = life[p.vid]
                           /\ next[p.vid][p.stream] <= p.idx + MaxLag
    BY DEF AirRight
  <2>1. Len(air'[i]) \in Nat /\ Len(air[i]) \in Nat /\ MaxLag \in Nat
    BY DetectionAssumption DEF TypeOK
  <2> QED
    BY <2>1 DEF World, AirRight
<1>2. SentRight'
  BY DEF World, SentRight, SentBefore
<1>3. NoTwoAlike'
  BY DEF World, NoTwoAlike
<1> QED
  BY <1>1, <1>2, <1>3 DEF World

LEMMA OutType ==
  ASSUME TypeOK
  PROVE  Out \subseteq Packet
<1>1. ASSUME NEW i \in Interfaces, NEW k \in 1 .. Len(air[i])
      PROVE  air[i][k] \in Packet
  BY ElementOfSeq DEF TypeOK
<1> QED
  BY <1>1 DEF Out, InAir, TypeOK

LEMMA SendKeepsIInv ==
  ASSUME IInv, NEW v \in Vehicles, NEW s \in Streams, NEW ping \in Pings,
         NEW by \in SUBSET Interfaces, Send(v, s, ping, by)
  PROVE  IInv'
<1> DEFINE p == [vid |-> v, life |-> life[v], stream |-> s, idx |-> next[v][s], ping |-> ping]
<1>1. p \in Packet /\ life[v] \in Nat /\ next[v][s] \in Nat /\ MaxLag \in Nat \ {0}
  BY DetectionAssumption DEF IInv, TypeOK, Packet
<1>2. /\ air' = [i \in Interfaces |-> IF i \in by THEN Append(air[i], p) ELSE air[i]]
      /\ next' = [next EXCEPT ![v][s] = next[v][s] + 1]
      /\ UNCHANGED <<life, early, table, queue, reset, accepted, seen, restarted>>
  BY DEF Send
<1>3. next' \in [Vehicles -> [Streams -> Nat]]
  BY <1>1, <1>2 DEF IInv, TypeOK
<1>4. \A w \in Vehicles, t \in Streams :
        next'[w][t] = IF w = v /\ t = s THEN next[v][s] + 1 ELSE next[w][t]
  BY <1>2 DEF IInv, TypeOK
<1> HIDE DEF p
<1>5. ASSUME NEW i \in Interfaces
      PROVE  /\ air'[i] \in Seq(Packet) /\ Len(air'[i]) <= MaxLag
             /\ InAir(i)' \subseteq InAir(i) \cup {p}
  <2>1. air[i] \in Seq(Packet) /\ Len(air[i]) \in Nat /\ Len(air[i]) < MaxLag
    BY <1>1, 1 \in 1 .. MaxLag DEF IInv, TypeOK, Send, InLag
  <2>2. CASE i \in by
    <3>1. /\ air'[i] = Append(air[i], p) /\ air'[i] \in Seq(Packet)
          /\ Len(air'[i]) = Len(air[i]) + 1
          /\ \A k \in 1 .. Len(air[i]) : air'[i][k] = air[i][k]
          /\ air'[i][Len(air[i]) + 1] = p
      BY <1>1, <1>2, <2>1, <2>2, AppendProperties
    <3>2. ASSUME NEW k \in 1 .. Len(air'[i])
          PROVE  air'[i][k] \in InAir(i) \cup {p}
      <4>1. k \in 1 .. Len(air[i]) \/ k = Len(air[i]) + 1
        BY <2>1, <3>1
      <4> QED
        BY <3>1, <4>1 DEF InAir
    <3> QED
      BY <1>1, <2>1, <3>1, <3>2 DEF InAir
  <2>3. CASE i \notin by
    BY <1>1, <1>2, <2>1, <2>3 DEF InAir
  <2> QED
    BY <2>2, <2>3
<1>6. air' \in [Interfaces -> Seq(Packet)]
  <2>1. air' = [i \in Interfaces |-> air'[i]]
    BY <1>2
  <2> QED
    BY <1>5, <2>1
<1>7. TypeOK'
  BY <1>2, <1>3, <1>6 DEF IInv, TypeOK
<1>8. Out' \subseteq Out \cup {p}
  BY <1>2, <1>5 DEF Out
<1>9. AirRight'
  <2> SUFFICES ASSUME NEW i \in Interfaces, NEW q \in InAir(i)'
               PROVE  q.life = life[q.vid] /\ next'[q.vid][q.stream] <= q.idx + MaxLag
    BY <1>2, <1>5 DEF AirRight
  <2>1. CASE q = p
    BY <1>1, <1>4, <2>1 DEF p
  <2>2. CASE q \in InAir(i)
    <3>1. q \in Packet /\ q.life = life[q.vid] /\ next[q.vid][q.stream] <= q.idx + MaxLag
      BY <2>2, OutType DEF IInv, World, AirRight, Out
    <3>2. q.vid \in Vehicles /\ q.stream \in Streams /\ q.idx \in Nat
      BY <3>1 DEF Packet
    <3>3. CASE q.vid = v /\ q.stream = s
      <4>1. PICK k \in 1 .. Len(air[i]) : q = air[i][k]
        BY <2>2 DEF InAir
      <4>2. Len(air[i]) \in Nat /\ Len(air[i]) <= MaxLag
        BY DEF IInv, TypeOK, World, AirRight
      <4>3. k \in 1 .. MaxLag /\ k <= Len(air[i])
        BY <1>1, <4>2
      <4>4. next[v][s] - q.idx < MaxLag
        BY <3>1, <3>3, <4>1, <4>3 DEF Send, InLag
      <4>5. next'[q.vid][q.stream] = next[v][s] + 1
        BY <1>4, <3>2, <3>3
      <4> QED
        BY <1>1, <3>1, <3>2, <4>4, <4>5
    <3>4. CASE ~ (q.vid = v /\ q.stream = s)
      BY <1>4, <3>1, <3>2, <3>4
    <3> QED
      BY <3>3, <3>4
  <2> QED
    BY <1>5, <2>1, <2>2
<1>10. SentRight'
  <2> SUFFICES ASSUME NEW q \in Out'
               PROVE  SentBefore(q)'
    BY <1>2 DEF SentRight, IInv, World
  <2>1. CASE q = p
    <3>1. 1 <= life[v]
      BY DEF IInv, World, SentRight
    <3> QED
      BY <1>1, <1>2, <1>4, <2>1, <3>1 DEF p, SentBefore
  <2>2. CASE q \in Out
    <3>1. q \in Packet /\ SentBefore(q)
      BY <2>2, OutType DEF IInv, World, SentRight
    <3>2. q.vid \in Vehicles /\ q.stream \in Streams /\ q.idx \in Nat
      BY <3>1 DEF Packet
    <3>3. next[q.vid][q.stream] \in Nat /\ next[q.vid][q.stream] <= next'[q.vid][q.stream]
          /\ next'[q.vid][q.stream] \in Nat
      BY <1>1, <1>4, <3>2 DEF IInv, TypeOK
    <3> QED
      BY <1>2, <3>1, <3>2, <3>3 DEF SentBefore
  <2> QED
    BY <1>8, <2>1, <2>2
<1>11. NoTwoAlike'
  <2>1. ASSUME NEW q \in Out, q.vid = p.vid, q.life = p.life, q.stream = p.stream
        PROVE  q.idx # p.idx
    <3>1. q \in Packet /\ SentBefore(q)
      BY OutType DEF IInv, World, SentRight
    <3>2. q.idx \in Nat /\ q.idx < next[v][s]
      BY <2>1, <3>1 DEF SentBefore, p, Packet
    <3> QED
      BY <1>1, <3>2 DEF p
  <2> QED
    BY <1>8, <2>1 DEF NoTwoAlike, IInv, World
<1> QED
  BY <1>2, <1>7, <1>9, <1>10, <1>11 DEF IInv, World, ResetRight

LEMMA RestartKeepsIInv ==
  ASSUME IInv, NEW v \in Vehicles, Restart(v)
  PROVE  IInv'
<1>1. /\ life' = [life EXCEPT ![v] = life[v] + 1]
      /\ next' = [next EXCEPT ![v] = [s \in Streams |-> 0]]
      /\ UNCHANGED <<air, early, table, queue, reset, accepted, seen, restarted>>
  BY DEF Restart
<1>2. TypeOK'
  BY <1>1 DEF IInv, TypeOK
<1>3. Out' = Out
  BY <1>1 DEF Out, InAir
<1>4. ASSUME NEW p \in Packet, p.vid # v
      PROVE  life'[p.vid] = life[p.vid] /\ next'[p.vid][p.stream] = next[p.vid][p.stream]
  BY <1>1, <1>4 DEF IInv, TypeOK, Packet
<1>5. AirRight'
  <2> SUFFICES ASSUME NEW i \in Interfaces, NEW p \in InAir(i)
               PROVE  p.life = life'[p.vid] /\ next'[p.vid][p.stream] <= p.idx + MaxLag
    BY <1>1 DEF AirRight, IInv, World, InAir
  <2>1. PICK k \in 1 .. Len(air[i]) : p = air[i][k]
    BY DEF InAir
  <2>2. Len(air[i]) \in Nat /\ Len(air[i]) <= MaxLag /\ MaxLag \in Nat
    BY DetectionAssumption DEF IInv, TypeOK, World, AirRight
  <2>3. p.vid # v
    BY <2>1, <2>2, k \in 1 .. MaxLag, k <= Len(air[i]) DEF Restart
  <2>4. p \in Packet /\ p.life = life[p.vid] /\ next[p.vid][p.stream] <= p.idx + MaxLag
    BY OutType DEF IInv, World, AirRight, Out
  <2> QED
    BY <1>4, <2>3, <2>4
<1>6. SentRight'
  <2>1. \A w \in Vehicles : 1 <= life'[w]
    BY <1>1 DEF IInv, TypeOK, World, SentRight
  <2>2. ASSUME NEW p \in Out
        PROVE  SentBefore(p)'
    <3>1. p \in Packet /\ SentBefore(p)
      BY OutType DEF IInv, World, SentRight
    <3>2. CASE p.vid = v
      <4>1. p.life \in Nat /\ life[v] \in Nat /\ life'[v] = life[v] + 1
        BY <1>1, <3>1 DEF Packet, IInv, TypeOK
      <4> QED
        BY <3>1, <3>2, <4>1 DEF SentBefore
    <3>3. CASE p.vid # v
      BY <1>4, <3>1, <3>3 DEF SentBefore
    <3> QED
      BY <3>2, <3>3
  <2> QED
    BY <1>3, <2>1, <2>2 DEF SentRight
<1>7. NoTwoAlike'
  BY <1>3 DEF NoTwoAlike, IInv, World
<1> QED
  BY <1>1, <1>2, <1>5, <1>6, <1>7 DEF IInv, World, ResetRight

LEMMA ReceiveNewKeepsIInv ==
  ASSUME IInv, NEW i \in Interfaces, ReceiveNew(i)
  PROVE  IInv'
<1> DEFINE p == Head(air[i])
           e == EntryFor(p.vid)
<1>1. /\ air[i] # <<>> /\ e # NoEntry /\ Read(i) /\ UNCHANGED reset
      /\ table' = [table EXCEPT ![e] = Entered(Noticed(p), p)]
      /\ queue' = Queued(p)
      /\ accepted' = accepted \cup {p}
      /\ restarted' \subseteq restarted \cup {p.vid}
      /\ seen' \subseteq seen \cup {p}
  BY DEF ReceiveNew, SeenBut
<1>2. /\ p \in Packet /\ p \in InAir(i)
      /\ air' \in [Interfaces -> Seq(Packet)]
      /\ \A j \in Interfaces : Len(air'[j]) <= Len(air[j]) /\ InAir(j)' \subseteq InAir(j)
      /\ UNCHANGED <<life, next, early>> /\ p.vid \in Vehicles
  BY <1>1, Reading DEF IInv, Packet
<1> HIDE DEF p, e
<1>3. Out' \subseteq Out
  BY <1>1, <1>2 DEF Out
<1>4. World'
  BY <1>2, <1>3, WorldShrinks DEF IInv
<1>5. table' \in [Entry -> EntryType]
  BY <1>1, <1>2, NoticedType, EnteredType DEF IInv, TypeOK, EntryType
<1>6. queue' \in Seq(Packet) /\ Len(queue') <= MaxQueue
  BY <1>1, <1>2, QueuedType DEF IInv
<1>7. TypeOK'
  BY <1>1, <1>2, <1>5, <1>6 DEF IInv, TypeOK, EntryType
<1> QED
  BY <1>1, <1>4, <1>7 DEF IInv, ResetRight

\* A step that only takes a packet from the air.
LEMMA ReadKeepsIInv ==
  ASSUME IInv, NEW i \in Interfaces, air[i] # <<>>, Read(i),
         UNCHANGED <<table, queue, reset, accepted, seen, restarted>>
  PROVE  IInv'
<1>1. /\ air' \in [Interfaces -> Seq(Packet)]
      /\ \A j \in Interfaces : Len(air'[j]) <= Len(air[j]) /\ InAir(j)' \subseteq InAir(j)
      /\ UNCHANGED <<life, next, early>>
  BY Reading DEF IInv
<1>2. Out' \subseteq Out
  BY <1>1 DEF Out
<1>3. World'
  BY <1>1, <1>2, WorldShrinks DEF IInv
<1>4. TypeOK'
  BY <1>1 DEF IInv, TypeOK
<1> QED
  BY <1>3, <1>4 DEF IInv, ResetRight

\* A step of the router: nothing is sent or read.
LEMMA RouterKeepsWorld ==
  ASSUME IInv, UNCHANGED worldVars, seen' \subseteq seen
  PROVE  World'
<1>1. UNCHANGED <<life, next, air>>
  BY DEF worldVars
<1>2. Out' \subseteq Out
  BY <1>1 DEF Out, InAir
<1>3. \A i \in Interfaces : Len(air'[i]) <= Len(air[i]) /\ InAir(i)' \subseteq InAir(i)
  <2> SUFFICES ASSUME NEW i \in Interfaces
               PROVE  Len(air'[i]) <= Len(air[i]) /\ InAir(i)' \subseteq InAir(i)
    OBVIOUS
  <2>1. Len(air[i]) \in Nat
    BY DEF IInv, TypeOK
  <2> QED
    BY <1>1, <2>1 DEF InAir
<1> QED
  BY <1>1, <1>2, <1>3, WorldShrinks DEF IInv, TypeOK

LEMMA HandleKeepsIInv == ASSUME IInv, Handle PROVE IInv'
<1>1. World'
  BY RouterKeepsWorld DEF Handle
<1>2. TypeOK'
  BY TailQueueType DEF Handle, IInv, TypeOK, worldVars
<1> QED
  BY <1>1, <1>2 DEF Handle, IInv, ResetRight

LEMMA HandleRestartKeepsIInv == ASSUME IInv, HandleRestart PROVE IInv'
<1> DEFINE v == Head(queue).vid
           e == FirstEntry(v)
<1>1. /\ queue # <<>> /\ e # NoEntry
      /\ queue' = Tail(queue) /\ reset' = [entry |-> e, vid |-> v]
      /\ table' = [table EXCEPT ![e] = Cleared]
      /\ seen' \subseteq seen /\ UNCHANGED <<worldVars, early, accepted, restarted>>
  BY DEF HandleRestart, IsRestarted, SeenBut
<1>2. v \in Vehicles
  BY <1>1, TailQueueType DEF IInv, Packet
<1>3. e \in Entry
  BY <1>1, FirstEntryFacts DEF IInv
<1> HIDE DEF v, e
<1>4. World'
  BY <1>1, RouterKeepsWorld
<1>5. table' \in [Entry -> EntryType]
  BY <1>1, ClearedType DEF IInv, TypeOK, EntryType
<1>6. TypeOK'
  BY <1>1, <1>2, <1>3, <1>5, TailQueueType DEF IInv, TypeOK, worldVars, EntryType
<1> QED
  BY <1>1, <1>2, <1>3, <1>4, <1>6 DEF IInv, ResetRight

LEMMA EndResetKeepsIInv == ASSUME IInv, EndReset PROVE IInv'
<1> DEFINE e == reset.entry
           given == [table[e] EXCEPT !.restart = FALSE, !.vid = reset.vid]
<1>1. e \in Entry /\ reset.vid \in Vehicles
  BY DEF EndReset, IInv, ResetRight
<1>2. given \in EntryType
  BY <1>1 DEF IInv, TypeOK, EntryType
<1>3. table' = [table EXCEPT ![e] = given]
  BY <1>1 DEF EndReset, IInv, TypeOK, EntryType
<1> HIDE DEF given
<1>4. table' \in [Entry -> EntryType]
  BY <1>1, <1>2, <1>3 DEF IInv, TypeOK, EntryType
<1>5. seen' \subseteq seen
  BY DEF EndReset, SeenBut
<1>6. World'
  BY <1>5, RouterKeepsWorld DEF EndReset
<1>7. TypeOK'
  BY <1>4, <1>5 DEF EndReset, IInv, TypeOK, worldVars, EntryType, NoReset
<1> QED
  BY <1>6, <1>7 DEF EndReset, IInv, ResetRight

LEMMA RemoveKeepsIInv ==
  ASSUME IInv, UNCHANGED <<worldVars, early, queue, reset, accepted, restarted>>, seen' \subseteq seen,
         table' = [e \in Entry |-> table'[e]],
         \A e \in Entry : table'[e] \in {Cleared, table[e]}
  PROVE  IInv'
<1>1. World'
  BY RouterKeepsWorld
<1>2. table' \in [Entry -> EntryType]
  BY ClearedType DEF IInv, TypeOK, EntryType
<1>3. TypeOK'
  BY <1>2 DEF IInv, TypeOK, worldVars, EntryType
<1> QED
  BY <1>1, <1>3 DEF IInv, ResetRight

\* What clearing entries does to each.
LEMMA RemoveEffect ==
  /\ \A v \in Vehicles : RemoveVehicle(v) =>
       /\ UNCHANGED <<worldVars, early, queue, reset, accepted, restarted>> /\ seen' = SeenBut(v)
       /\ table' = [e \in Entry |-> table'[e]]
       /\ \A e \in Entry : table'[e] = IF table[e].vid = v THEN Cleared ELSE table[e]
  /\ \A v \in Vehicles \cup {NoVehicle} : RemoveAllExcept(v) =>
       /\ UNCHANGED <<worldVars, early, queue, reset, accepted, restarted>> /\ seen' = {q \in seen : q.vid = v}
       /\ table' = [e \in Entry |-> table'[e]]
       /\ \A e \in Entry :
            table'[e] = IF v # NoVehicle /\ table[e].vid = v THEN table[e] ELSE Cleared
BY DEF RemoveVehicle, RemoveAllExcept

LEMMA ClockKeepsIInv == ASSUME IInv, EightSecondsPast PROVE IInv'
<1>1. World'
  BY RouterKeepsWorld DEF EightSecondsPast
<1>2. TypeOK'
  BY DEF EightSecondsPast, IInv, TypeOK, worldVars
<1> QED
  BY <1>1, <1>2 DEF EightSecondsPast, IInv, ResetRight

\* A silence changes one history, and nothing of it but the time.
LEMMA SilenceEffect ==
  ASSUME TypeOK, NEW e \in Entry, NEW s \in Streams, Silence(e, s)
  PROVE  /\ UNCHANGED <<worldVars, early, queue, reset, accepted, seen, restarted>>
         /\ table' \in [Entry -> EntryType]
         /\ \A f \in Entry : f # e => table'[f] = table[f]
         /\ table'[e].vid = table[e].vid /\ table'[e].restart = table[e].restart
         /\ \A t \in Streams :
              table'[e].streams[t] =
                IF t = s THEN [table[e].streams[s] EXCEPT !.last = "long"] ELSE table[e].streams[t]
<1> DEFINE silent == [table[e].streams[s] EXCEPT !.last = "long"]
           streams == [table[e].streams EXCEPT ![s] = silent]
           after == [table[e] EXCEPT !.streams = streams]
<1>1. table \in [Entry -> EntryType] /\ table[e] \in EntryType /\ table[e].streams[s] \in History
  BY DEF TypeOK, EntryType
<1>2. silent \in History
  BY <1>1 DEF History
<1>3. table' = [table EXCEPT ![e] = after]
  BY DEF Silence
<1> HIDE DEF silent
<1>4. /\ streams \in [Streams -> History]
      /\ \A t \in Streams : streams[t] = IF t = s THEN silent ELSE table[e].streams[t]
  BY <1>1, <1>2 DEF EntryType
<1> HIDE DEF streams
<1>5. /\ after \in EntryType /\ after.streams = streams
      /\ after.vid = table[e].vid /\ after.restart = table[e].restart
  BY <1>1, <1>4 DEF EntryType
<1> HIDE DEF after
<1> QED
  BY <1>1, <1>3, <1>4, <1>5 DEF Silence, silent

LEMMA SilenceKeepsIInv ==
  ASSUME IInv, NEW e \in Entry, NEW s \in Streams, Silence(e, s)
  PROVE  IInv'
<1>1. /\ UNCHANGED <<worldVars, early, queue, reset, accepted, seen, restarted>>
      /\ table' \in [Entry -> EntryType]
  BY SilenceEffect DEF IInv
<1>2. World'
  BY <1>1, RouterKeepsWorld
<1>3. TypeOK'
  BY <1>1 DEF IInv, TypeOK, worldVars, EntryType
<1> QED
  BY <1>1, <1>2, <1>3 DEF IInv, ResetRight

LEMMA NextKeepsIInv == ASSUME IInv, [Next]_vars PROVE IInv'
<1>1. ASSUME NEW v \in Vehicles, NEW s \in Streams, NEW ping \in Pings,
             NEW by \in SUBSET Interfaces, Send(v, s, ping, by)
      PROVE  IInv'
  BY <1>1, SendKeepsIInv
<1>2. ASSUME NEW v \in Vehicles, Restart(v)
      PROVE  IInv'
  BY <1>2, RestartKeepsIInv
<1>3. ASSUME NEW i \in Interfaces, Receive(i)
      PROVE  IInv'
  <2>1. CASE ReceiveNew(i)
    BY <2>1, ReceiveNewKeepsIInv
  <2>2. CASE ReceiveDuplicate(i)
    BY <2>2, ReadKeepsIInv DEF ReceiveDuplicate
  <2>3. CASE ReceiveNoRoom(i)
    BY <2>3, ReadKeepsIInv DEF ReceiveNoRoom
  <2> QED
    BY <1>3, <2>1, <2>2, <2>3 DEF Receive
<1>4. CASE Router
  BY <1>4, HandleKeepsIInv, HandleRestartKeepsIInv, EndResetKeepsIInv DEF Router
<1>5. ASSUME NEW v \in Vehicles, RemoveVehicle(v)
      PROVE  IInv'
  <2>1. \A e \in Entry : table'[e] \in {Cleared, table[e]}
    BY <1>5, RemoveEffect
  <2>2. seen' \subseteq seen
    BY <1>5, RemoveEffect DEF SeenBut
  <2> QED
    BY <1>5, <2>1, <2>2, RemoveEffect, RemoveKeepsIInv
<1>6. ASSUME NEW v \in Vehicles \cup {NoVehicle}, RemoveAllExcept(v)
      PROVE  IInv'
  <2>1. \A e \in Entry : table'[e] \in {Cleared, table[e]}
    BY <1>6, RemoveEffect
  <2>2. seen' \subseteq seen
    BY <1>6, RemoveEffect
  <2> QED
    BY <1>6, <2>1, <2>2, RemoveEffect, RemoveKeepsIInv
<1>7. ASSUME NEW e \in Entry, NEW s \in Streams, Silence(e, s)
      PROVE  IInv'
  BY <1>7, SilenceKeepsIInv
<1>8. CASE EightSecondsPast
  BY <1>8, ClockKeepsIInv
<1>9. CASE UNCHANGED vars
  <2>1. World'
    BY <1>9, RouterKeepsWorld DEF vars
  <2>2. TypeOK' /\ ResetRight'
    BY <1>9 DEF vars, worldVars, IInv, TypeOK, ResetRight
  <2> QED
    BY <2>1, <2>2 DEF IInv
<1> QED
  BY <1>1, <1>2, <1>3, <1>4, <1>5, <1>6, <1>7, <1>8, <1>9 DEF Next, NextOnAir

LEMMA InitIInv == Init => IInv
<1> SUFFICES ASSUME Init PROVE IInv
  OBVIOUS
<1>1. TypeOK
  <2>1. table \in [Entry -> EntryType]
    BY ClearedType DEF Init
  <2>2. queue = <<>> /\ MaxQueue \in Nat /\ Len(queue) <= MaxQueue
    BY DetectionAssumption, EmptySeq DEF Init
  <2>3. reset \in [entry : Entry \cup {NoEntry}, vid : Vehicles \cup {NoVehicle}]
    BY DEF Init, NoReset
  <2> QED
    BY <2>1, <2>2, <2>3 DEF Init, TypeOK, EntryType
<1>2. \A i \in Interfaces : Len(air[i]) = 0 /\ InAir(i) = {}
  BY DEF Init, InAir
<1>3. Out = {}
  BY <1>2 DEF Init, Out
<1>4. AirRight
  BY <1>2, DetectionAssumption DEF AirRight
<1>5. SentRight /\ NoTwoAlike
  BY <1>3 DEF SentRight, NoTwoAlike, Init
<1> QED
  BY <1>1, <1>4, <1>5 DEF IInv, World, ResetRight, Init

\* The variables hold what they are declared for; the queue to the router is
\* never longer than its bound, and what the histories remember was accepted.
THEOREM TypeCorrect == Spec => []TypeOK
<1>1. Init => IInv
  BY InitIInv
<1>2. IInv /\ [Next]_vars => IInv'
  BY NextKeepsIInv
<1>3. IInv => TypeOK
  BY DEF IInv
<1> QED
  BY <1>1, <1>2, <1>3, PTL DEF Spec

-----------------------------------------------------------------------------
(***************************************************************************)
(* Restarts.                                                               *)
(***************************************************************************)
\* The lag between interfaces is within the distance of each stream (51
\* packets, where the receive thread gets up to 25 ahead on one interface).
LagIsSmall == \A s \in Streams : MaxLag <= MaxDelta[s] + 1

\* What the history of a stream remembers was taken, and sent before now; what
\* comes after a silence is newer than it.
Remembers(v, s, history) ==
  /\ history.max = 0 \/ history.max < next[v][s]
  /\ \A h \in 0 .. HashSize - 1 :
       history.hash[h] # NoIndex =>
         \E q \in seen : /\ q.vid = v /\ q.stream = s
                         /\ q.idx = history.hash[h] /\ HashOf(q.idx) = h
  /\ history.last = "long" =>
       \A i \in Interfaces : \A q \in InAir(i) :
         q.vid = v /\ q.stream = s => q.idx >= history.max

\* A vehicle that runs on has no restart noted, and its history is its own.
EntryRight(e) ==
  \A v \in Vehicles : table[e].vid = v /\ RunsOn(v) =>
    /\ ~ table[e].restart
    /\ \A s \in Streams : Remembers(v, s, table[e].streams[s])

HistoriesRight == \A e \in Entry : EntryRight(e)

OneEntry ==
  \A v \in Vehicles : RunsOn(v) =>
    \A e, f \in Entry : table[e].vid = v /\ table[f].vid = v => e = f

ResetsReal == reset # NoReset => \A v \in Vehicles : reset.vid = v => ~ RunsOn(v)

RestartInv == IInv /\ HistoriesRight /\ OneEntry /\ ResetsReal

\* What every step does: a vehicle that runs on did so before and sends on; what
\* comes into the air is new.
LaterOn ==
  /\ \A v \in Vehicles :
       RunsOn(v)' => RunsOn(v) /\ \A s \in Streams : next[v][s] <= next'[v][s]
  /\ \A i \in Interfaces : \A q \in InAir(i)' :
       q \in InAir(i) \/ q.idx >= next[q.vid][q.stream]

\* A step that sends nothing and starts nobody.
LEMMA LaterOnQuietly ==
  ASSUME TypeOK, UNCHANGED <<life, next>>, restarted \subseteq restarted',
         \A i \in Interfaces : InAir(i)' \subseteq InAir(i)
  PROVE  LaterOn
<1>1. \A v \in Vehicles, s \in Streams : next[v][s] <= next'[v][s]
  BY DEF TypeOK
<1>2. \A v \in Vehicles : RunsOn(v)' => RunsOn(v)
  BY DEF RunsOn
<1> QED
  BY <1>1, <1>2 DEF LaterOn

LEMMA LaterOnSent ==
  ASSUME IInv, NEW v \in Vehicles, NEW s \in Streams, NEW ping \in Pings,
         NEW by \in SUBSET Interfaces, Send(v, s, ping, by)
  PROVE  LaterOn
<1> DEFINE p == [vid |-> v, life |-> life[v], stream |-> s, idx |-> next[v][s], ping |-> ping]
<1>1. /\ air' = [i \in Interfaces |-> IF i \in by THEN Append(air[i], p) ELSE air[i]]
      /\ next' = [next EXCEPT ![v][s] = next[v][s] + 1] /\ UNCHANGED <<life, restarted>>
  BY DEF Send
<1>2. \A w \in Vehicles, t \in Streams : next[w][t] <= next'[w][t]
  BY <1>1 DEF IInv, TypeOK
<1>3. \A w \in Vehicles : RunsOn(w)' => RunsOn(w)
  BY <1>1 DEF RunsOn
<1>4. p.idx >= next[p.vid][p.stream]
  BY DEF IInv, TypeOK
<1> HIDE DEF p
<1>5. ASSUME NEW i \in Interfaces, NEW q \in InAir(i)'
      PROVE  q \in InAir(i) \/ q = p
  <2>1. air[i] \in Seq(Packet) /\ Len(air[i]) \in Nat
    BY DEF IInv, TypeOK
  <2>2. PICK k \in 1 .. Len(air'[i]) : q = air'[i][k]
    BY DEF InAir
  <2>3. CASE i \in by
    <3>1. air'[i] = Append(air[i], p)
      BY <1>1, <2>3
    <3>2. Len(air'[i]) = Len(air[i]) + 1 /\ air'[i][Len(air[i]) + 1] = p
          /\ \A j \in 1 .. Len(air[i]) : air'[i][j] = air[i][j]
      BY <2>1, <3>1
    <3>3. k \in 1 .. Len(air[i]) \/ k = Len(air[i]) + 1
      BY <2>1, <3>2
    <3> QED
      BY <2>2, <3>2, <3>3 DEF InAir
  <2>4. CASE i \notin by
    BY <1>1, <2>2, <2>4 DEF InAir
  <2> QED
    BY <2>3, <2>4
<1> QED
  BY <1>2, <1>3, <1>4, <1>5 DEF LaterOn

LEMMA LaterOnRestarted ==
  ASSUME IInv, NEW v \in Vehicles, Restart(v)
  PROVE  LaterOn /\ ~ RunsOn(v)' /\ \A w \in Vehicles : ~ RunsOn(w) => ~ RunsOn(w)'
<1>1. /\ life' = [life EXCEPT ![v] = life[v] + 1] /\ UNCHANGED <<air, restarted>>
      /\ next' = [next EXCEPT ![v] = [s \in Streams |-> 0]]
  BY DEF Restart
<1>2. life[v] \in Nat /\ 1 <= life[v]
  BY DEF IInv, TypeOK, World, SentRight
<1>3. /\ life'[v] = life[v] + 1
      /\ \A w \in Vehicles : w # v => life'[w] = life[w] /\ next'[w] = next[w]
  BY <1>1 DEF IInv, TypeOK
<1>4. ~ RunsOn(v)'
  BY <1>2, <1>3 DEF RunsOn
<1>5. ASSUME NEW w \in Vehicles, w # v
      PROVE  (RunsOn(w)' <=> RunsOn(w)) /\ \A s \in Streams : next[w][s] <= next'[w][s]
  <2>1. RunsOn(w)' <=> RunsOn(w)
    BY <1>1, <1>3, <1>5 DEF RunsOn
  <2>2. \A s \in Streams : next[w][s] <= next'[w][s]
    BY <1>3, <1>5 DEF IInv, TypeOK
  <2> QED
    BY <2>1, <2>2
<1>6. \A i \in Interfaces : InAir(i)' = InAir(i)
  BY <1>1 DEF InAir
<1> QED
  BY <1>4, <1>5, <1>6 DEF LaterOn

\* Steps of the router and of the clock.
LEMMA LaterOnOtherwise ==
  ASSUME TypeOK, UNCHANGED <<worldVars, restarted>>
  PROVE  LaterOn
<1>1. UNCHANGED <<life, next>> /\ \A i \in Interfaces : InAir(i)' = InAir(i)
  BY DEF worldVars, InAir
<1> QED
  BY <1>1, LaterOnQuietly

\* An entry that is left alone stays right while its packets are remembered.
LEMMA EntryStays ==
  ASSUME RestartInv, TypeOK', LaterOn, NEW e \in Entry, table'[e] = table[e],
         \A q \in seen : q.vid = table[e].vid /\ RunsOn(q.vid) => q \in seen'
  PROVE  EntryRight(e)'
<1> SUFFICES ASSUME NEW v \in Vehicles, table[e].vid = v, RunsOn(v)'
             PROVE  /\ ~ table[e].restart
                    /\ \A s \in Streams : Remembers(v, s, table[e].streams[s])'
  BY DEF EntryRight, Remembers
<1>1. RunsOn(v) /\ \A s \in Streams : next[v][s] <= next'[v][s]
  BY DEF LaterOn
<1>2. ~ table[e].restart /\ \A s \in Streams : Remembers(v, s, table[e].streams[s])
  BY <1>1 DEF RestartInv, HistoriesRight, EntryRight
<1>3. ASSUME NEW s \in Streams
      PROVE  Remembers(v, s, table[e].streams[s])'
  <2> DEFINE history == table[e].streams[s]
  <2>1. next[v][s] \in Nat /\ next'[v][s] \in Nat /\ next[v][s] <= next'[v][s]
    BY <1>1 DEF RestartInv, IInv, TypeOK
  <2>2. history.max \in Nat /\ Remembers(v, s, history)
    BY <1>2 DEF RestartInv, IInv, TypeOK, History
  <2>3. table'[e].streams[s] = history
    OBVIOUS
  <2> HIDE DEF history
  <2>4. history.max = 0 \/ history.max < next'[v][s]
    BY <2>1, <2>2 DEF Remembers
  <2>5. ASSUME NEW h \in 0 .. HashSize - 1, history.hash[h] # NoIndex
        PROVE  \E q \in seen' : /\ q.vid = v /\ q.stream = s
                                /\ q.idx = history.hash[h] /\ HashOf(q.idx) = h
    BY <1>1, <2>2, <2>5 DEF Remembers
  <2>6. ASSUME history.last = "long", NEW i \in Interfaces, NEW q \in InAir(i)',
               q.vid = v, q.stream = s
        PROVE  q.idx >= history.max
    <3>1. CASE q \in InAir(i)
      BY <2>2, <2>6, <3>1 DEF Remembers
    <3>2. CASE q \notin InAir(i)
      <4>1. q.idx >= next[v][s]
        BY <2>6, <3>2 DEF LaterOn
      <4>2. q.idx \in Nat
        <5>1. PICK k \in 1 .. Len(air'[i]) : q = air'[i][k]
          BY <2>6 DEF InAir
        <5>2. air'[i] \in Seq(Packet)
          BY DEF TypeOK
        <5>3. q \in Packet
          BY <5>1, <5>2, ElementOfSeq
        <5> QED
          BY <5>3 DEF Packet
      <4> QED
        BY <2>1, <2>2, <4>1, <4>2 DEF Remembers
    <3> QED
      BY <3>1, <3>2
  <2> QED
    BY <2>3, <2>4, <2>5, <2>6 DEF Remembers
<1> QED
  BY <1>2, <1>3

\* No vehicle that runs on comes into a second entry.
LEMMA OneEntryStays ==
  ASSUME RestartInv, LaterOn,
         \A e \in Entry, v \in Vehicles : table'[e].vid = v /\ RunsOn(v)' => table[e].vid = v
  PROVE  OneEntry'
<1> SUFFICES ASSUME NEW v \in Vehicles, RunsOn(v)', NEW e \in Entry, NEW f \in Entry,
                    table'[e].vid = v, table'[f].vid = v
             PROVE  e = f
  BY DEF OneEntry
<1>1. RunsOn(v) /\ table[e].vid = v /\ table[f].vid = v
  BY DEF LaterOn
<1> QED
  BY <1>1 DEF RestartInv, OneEntry

LEMMA ClearedRight ==
  ASSUME NEW e \in Entry, table'[e] = Cleared
  PROVE  EntryRight(e)' /\ table'[e].vid \notin Vehicles
BY DetectionAssumption DEF EntryRight, Cleared, NoVehicle

LEMMA SendKeepsRestartInv ==
  ASSUME RestartInv, IInv', NEW v \in Vehicles, NEW s \in Streams, NEW ping \in Pings,
         NEW by \in SUBSET Interfaces, Send(v, s, ping, by)
  PROVE  RestartInv'
<1>1. UNCHANGED <<life, restarted, table, reset, seen>>
  BY DEF Send
<1>2. LaterOn
  BY LaterOnSent DEF RestartInv
<1>3. HistoriesRight'
  BY <1>1, <1>2, EntryStays DEF IInv, HistoriesRight
<1>4. OneEntry'
  BY <1>1, <1>2, OneEntryStays
<1>5. ResetsReal'
  BY <1>1 DEF RestartInv, ResetsReal, RunsOn
<1> QED
  BY <1>3, <1>4, <1>5 DEF RestartInv

LEMMA RestartKeepsRestartInv ==
  ASSUME RestartInv, IInv', NEW v \in Vehicles, Restart(v)
  PROVE  RestartInv'
<1>1. UNCHANGED <<table, reset, seen>>
  BY DEF Restart
<1>2. LaterOn /\ \A w \in Vehicles : ~ RunsOn(w) => ~ RunsOn(w)'
  BY LaterOnRestarted DEF RestartInv
<1>3. HistoriesRight'
  BY <1>1, <1>2, EntryStays DEF IInv, HistoriesRight
<1>4. OneEntry'
  BY <1>1, <1>2, OneEntryStays
<1>5. ResetsReal'
  BY <1>1, <1>2 DEF RestartInv, ResetsReal
<1> QED
  BY <1>3, <1>4, <1>5 DEF RestartInv

\* An entry once a packet is entered in it.
LEMMA EnteredFacts ==
  ASSUME NEW entry \in EntryType, NEW p \in Packet
  PROVE  /\ Entered(entry, p).vid = entry.vid
         /\ Entered(entry, p).restart = entry.restart
         /\ \A s \in Streams : s # p.stream => Entered(entry, p).streams[s] = entry.streams[s]
         /\ Entered(entry, p).streams[p.stream].max =
              IF p.idx > entry.streams[p.stream].max THEN p.idx ELSE entry.streams[p.stream].max
         /\ Entered(entry, p).streams[p.stream].last = "recent"
         /\ \A h \in 0 .. HashSize - 1 :
              Entered(entry, p).streams[p.stream].hash[h] =
                IF h = HashOf(p.idx) THEN p.idx ELSE entry.streams[p.stream].hash[h]
<1> DEFINE history == entry.streams[p.stream]
           after == [max |-> IF p.idx > history.max THEN p.idx ELSE history.max,
                     last |-> "recent",
                     hash |-> [history.hash EXCEPT ![HashOf(p.idx)] = p.idx]]
<1>1. p.idx \in Nat /\ p.stream \in Streams /\ history \in History
  BY DEF Packet, EntryType
<1>2. Entered(entry, p) = [entry EXCEPT !.streams = [entry.streams EXCEPT ![p.stream] = after]]
  BY DEF Entered
<1>3. /\ Entered(entry, p).vid = entry.vid
      /\ Entered(entry, p).streams = [entry.streams EXCEPT ![p.stream] = after]
  BY <1>2 DEF EntryType
<1>4. Entered(entry, p).restart = entry.restart
  BY <1>2 DEF EntryType
<1>5. \A s \in Streams :
        Entered(entry, p).streams[s] = IF s = p.stream THEN after ELSE entry.streams[s]
  <2> HIDE DEF after
  <2> QED
    BY <1>1, <1>3 DEF EntryType
<1>6. \A h \in 0 .. HashSize - 1 :
        after.hash[h] = IF h = HashOf(p.idx) THEN p.idx ELSE history.hash[h]
  BY <1>1 DEF History
<1> QED
  BY <1>1, <1>3, <1>4, <1>5, <1>6

LEMMA CurrentFacts ==
  ASSUME TypeOK, NEW p \in Packet
  PROVE  /\ Current(p) \in EntryType /\ Current(p).vid = p.vid
         /\ Noticed(p).vid = p.vid
         /\ FirstEntry(p.vid) = NoEntry =>
              ~ Current(p).restart /\ \A s \in Streams : Current(p).streams[s] = NoHistory
<1>1. p.vid \in Vehicles
  BY DEF Packet
<1>2. [Cleared EXCEPT !.vid = p.vid] \in EntryType
  BY <1>1, ClearedType DEF EntryType
<1>3. CASE FirstEntry(p.vid) = NoEntry
  <2>1. Current(p) = [Cleared EXCEPT !.vid = p.vid]
    BY <1>3 DEF Current
  <2>2. Noticed(p).vid = p.vid
    BY <2>1 DEF Noticed, Cleared
  <2>3. ~ Current(p).restart
    BY <2>1 DEF Cleared
  <2> QED
    BY <1>2, <2>1, <2>2, <2>3 DEF Cleared
<1>4. CASE FirstEntry(p.vid) # NoEntry
  <2>1. FirstEntry(p.vid) \in Entry /\ table[FirstEntry(p.vid)].vid = p.vid
    BY <1>4, FirstEntryFacts
  <2>2. Current(p) = table[FirstEntry(p.vid)]
    BY <1>4 DEF Current
  <2>3. Current(p) \in EntryType /\ Current(p).vid = p.vid
    BY <2>1, <2>2 DEF TypeOK, EntryType
  <2> QED
    BY <1>4, <2>3 DEF Noticed, Cleared
<1> QED
  BY <1>3, <1>4

\* What the history of a packet's stream remembers, if its vehicle runs on.
LEMMA CurrentRight ==
  ASSUME RestartInv, NEW p \in Packet, RunsOn(p.vid)
  PROVE  /\ ~ Current(p).restart
         /\ \A s \in Streams : \/ Current(p).streams[s] = NoHistory
                               \/ Remembers(p.vid, s, Current(p).streams[s])
<1>1. CASE FirstEntry(p.vid) = NoEntry
  BY <1>1, CurrentFacts DEF RestartInv, IInv
<1>2. CASE FirstEntry(p.vid) # NoEntry
  <2> DEFINE g == FirstEntry(p.vid)
  <2>1. g \in Entry /\ table[g].vid = p.vid /\ Current(p) = table[g]
    BY <1>2, FirstEntryFacts DEF RestartInv, IInv, Current
  <2>2. EntryRight(g) /\ p.vid \in Vehicles
    BY <2>1 DEF RestartInv, HistoriesRight, Packet
  <2> HIDE DEF g
  <2> QED
    BY <2>1, <2>2 DEF EntryRight
<1> QED
  BY <1>1, <1>2

\* What a receiver that takes a packet does.
LEMMA Taking ==
  ASSUME RestartInv, NEW i \in Interfaces, ReceiveNew(i), NEW p, p = Head(air[i])
  PROVE  /\ p \in Packet /\ p \in InAir(i) /\ p \in Out
         /\ p.idx < next[p.vid][p.stream] /\ next[p.vid][p.stream] <= p.idx + MaxLag
         /\ LaterOn /\ UNCHANGED <<life, next, early, reset>>
         /\ \A j \in Interfaces : InAir(j)' \subseteq InAir(j)
         /\ EntryFor(p.vid) \in Entry /\ ~ IsKnown(Noticed(p), p)
         /\ table' = [table EXCEPT ![EntryFor(p.vid)] = Entered(Noticed(p), p)]
         /\ seen' = (IF StreamRestarted(p) \/ FirstEntry(p.vid) = NoEntry
                       THEN SeenBut(p.vid) ELSE seen) \cup {p}
         /\ StreamRestarted(p) => p.vid \in restarted'
<1>1. /\ air[i] # <<>> /\ Read(i) /\ EntryFor(p.vid) # NoEntry /\ UNCHANGED reset
      /\ ~ IsKnown(Noticed(p), p)
      /\ table' = [table EXCEPT ![EntryFor(p.vid)] = Entered(Noticed(p), p)]
      /\ seen' = (IF StreamRestarted(p) \/ FirstEntry(p.vid) = NoEntry
                    THEN SeenBut(p.vid) ELSE seen) \cup {p}
      /\ restarted' = restarted \cup (IF StreamRestarted(p) THEN {p.vid} ELSE {})
  BY DEF ReceiveNew
<1>2. /\ p \in Packet /\ p \in InAir(i) /\ UNCHANGED <<life, next, early>>
      /\ \A j \in Interfaces : InAir(j)' \subseteq InAir(j)
  BY <1>1, Reading DEF RestartInv, IInv
<1>3. LaterOn
  BY <1>1, <1>2, LaterOnQuietly DEF RestartInv, IInv
<1>4. p \in Out
  BY <1>2 DEF Out
<1>5. p.life = life[p.vid] /\ next[p.vid][p.stream] <= p.idx + MaxLag
  BY <1>2 DEF RestartInv, IInv, World, AirRight
<1>6. p.idx < next[p.vid][p.stream]
  BY <1>4, <1>5 DEF RestartInv, IInv, World, SentRight, SentBefore
<1>7. EntryFor(p.vid) \in Entry
  BY <1>1, <1>2, EntryForFacts DEF RestartInv, IInv, Packet
<1> QED
  BY <1>1, <1>2, <1>3, <1>4, <1>5, <1>6, <1>7

\* The history of a stream once a packet of it is entered.
LEMMA EnteredRemembers ==
  ASSUME RestartInv, NEW i \in Interfaces, ReceiveNew(i), NEW p, p = Head(air[i]),
         RunsOn(p.vid), ~ StreamRestarted(p), NEW s \in Streams,
         NEW e, table'[e] = Entered(Current(p), p)
  PROVE  Remembers(p.vid, s, table[e].streams[s])'
<1> DEFINE was == Current(p).streams[s]
           new == table'[e].streams[s]
<1>1. /\ p \in Packet /\ p.idx < next[p.vid][p.stream] /\ UNCHANGED <<life, next>>
      /\ \A j \in Interfaces : InAir(j)' \subseteq InAir(j)
      /\ seen' = (IF FirstEntry(p.vid) = NoEntry THEN SeenBut(p.vid) ELSE seen) \cup {p}
  BY Taking
<1>2. p.vid \in Vehicles /\ p.stream \in Streams /\ p.idx \in Nat
  BY <1>1 DEF Packet
<1>3. Current(p) \in EntryType /\ was \in History
  BY <1>1, CurrentFacts DEF RestartInv, IInv, EntryType
<1>4. next[p.vid][s] \in Nat
  BY <1>2 DEF RestartInv, IInv, TypeOK
<1>5. was = NoHistory \/ (Remembers(p.vid, s, was) /\ seen \subseteq seen')
  <2>1. CASE FirstEntry(p.vid) = NoEntry
    BY <1>1, <2>1, CurrentFacts DEF RestartInv, IInv
  <2>2. CASE FirstEntry(p.vid) # NoEntry
    BY <1>1, <2>2, CurrentRight
  <2> QED
    BY <2>1, <2>2
<1> HIDE DEF was
<1>6. /\ was.max \in Nat /\ (was.max = 0 \/ was.max < next'[p.vid][s])
      /\ \A h \in 0 .. HashSize - 1 :
           was.hash[h] # NoIndex =>
             \E q \in seen' : /\ q.vid = p.vid /\ q.stream = s
                              /\ q.idx = was.hash[h] /\ HashOf(q.idx) = h
      /\ was.last = "long" =>
           \A j \in Interfaces : \A q \in InAir(j)' :
             q.vid = p.vid /\ q.stream = s => q.idx >= was.max
  <2>1. CASE was = NoHistory
    BY <1>3, <2>1 DEF NoHistory
  <2>2. CASE was # NoHistory
    BY <1>1, <1>3, <1>5, <2>2 DEF Remembers, History
  <2> QED
    BY <2>1, <2>2
<1>7. CASE s # p.stream
  <2>1. new = was
    BY <1>1, <1>3, <1>7, EnteredFacts DEF was
  <2> HIDE DEF new
  <2>2. Remembers(p.vid, s, table[e].streams[s])'
    BY <1>1, <1>6, <2>1 DEF Remembers, new
  <2> QED
    BY <2>2
<1>8. CASE s = p.stream
  <2>1. /\ new.max = IF p.idx > was.max THEN p.idx ELSE was.max
        /\ new.last = "recent"
        /\ \A h \in 0 .. HashSize - 1 :
             new.hash[h] = IF h = HashOf(p.idx) THEN p.idx ELSE was.hash[h]
    <3>1. new = Entered(Current(p), p).streams[p.stream] /\ was = Current(p).streams[p.stream]
      BY <1>8 DEF was
    <3> HIDE DEF new
    <3> QED
      BY <1>1, <1>3, <3>1, EnteredFacts
  <2> HIDE DEF new
  <2>2. new.max = 0 \/ new.max < next'[p.vid][s]
    BY <1>1, <1>2, <1>6, <1>8, <2>1
  <2>3. p \in seen'
    BY <1>1
  <2>4. ASSUME NEW h \in 0 .. HashSize - 1, new.hash[h] # NoIndex
        PROVE  \E q \in seen' : /\ q.vid = p.vid /\ q.stream = s
                                /\ q.idx = new.hash[h] /\ HashOf(q.idx) = h
    BY <1>6, <1>8, <2>1, <2>3, <2>4
  <2>5. ~ (new.last = "long")
    BY <2>1
  <2> QED
    BY <2>2, <2>4, <2>5 DEF Remembers, new
<1> QED
  BY <1>7, <1>8

LEMMA ReceiveNewKeepsRestartInv ==
  ASSUME RestartInv, IInv', NEW i \in Interfaces, ReceiveNew(i)
  PROVE  RestartInv'
<1>1. PICK p, e : p = Head(air[i]) /\ e = EntryFor(p.vid)
  OBVIOUS
<1>2. /\ p \in Packet /\ e \in Entry /\ LaterOn /\ UNCHANGED <<life, next, reset>>
      /\ table' = [table EXCEPT ![e] = Entered(Noticed(p), p)]
      /\ seen' = (IF StreamRestarted(p) \/ FirstEntry(p.vid) = NoEntry
                    THEN SeenBut(p.vid) ELSE seen) \cup {p}
      /\ StreamRestarted(p) => p.vid \in restarted'
  BY <1>1, Taking
<1>3. p.vid \in Vehicles
  BY <1>2 DEF Packet
<1>4. /\ table \in [Entry -> EntryType] /\ TypeOK
      /\ FirstEntry(p.vid) = NoEntry => \A f \in Entry : table[f].vid # p.vid
  BY FirstEntryFacts DEF RestartInv, IInv, TypeOK, EntryType
<1>5. /\ table'[e] = Entered(Noticed(p), p) /\ table'[e].vid = p.vid
      /\ \A f \in Entry : f # e => table'[f] = table[f]
  BY <1>2, <1>4, NoticedType, CurrentFacts, EnteredFacts
<1>6. StreamRestarted(p) => ~ RunsOn(p.vid)'
  BY <1>2 DEF RunsOn
<1>7. ASSUME NEW f \in Entry, f # e
      PROVE  EntryRight(f)'
  <2>1. table'[f] = table[f]
    BY <1>5, <1>7
  <2>2. CASE table[f].vid # p.vid
    <3>1. \A q \in seen : q.vid = table[f].vid => q \in seen'
      BY <1>2, <2>2 DEF SeenBut
    <3> QED
      BY <1>2, <2>1, <3>1, EntryStays DEF IInv
  <2>3. CASE table[f].vid = p.vid /\ ~ StreamRestarted(p)
    <3>1. seen \subseteq seen'
      BY <1>2, <1>4, <2>3
    <3> QED
      BY <1>2, <2>1, <3>1, EntryStays DEF IInv
  <2>4. CASE table[f].vid = p.vid /\ StreamRestarted(p)
    BY <1>6, <2>1, <2>4 DEF EntryRight
  <2> QED
    BY <2>2, <2>3, <2>4
<1>8. EntryRight(e)'
  <2> SUFFICES ASSUME RunsOn(p.vid)'
               PROVE  ~ table'[e].restart /\ \A s \in Streams : Remembers(p.vid, s, table[e].streams[s])'
    BY <1>5 DEF EntryRight
  <2>1. RunsOn(p.vid) /\ ~ StreamRestarted(p)
    BY <1>2, <1>3, <1>6 DEF LaterOn
  <2>2. table'[e] = Entered(Current(p), p)
    BY <1>5, <2>1 DEF Noticed
  <2>3. ~ table'[e].restart
    BY <1>2, <1>4, <2>1, <2>2, CurrentFacts, CurrentRight, EnteredFacts
  <2>4. ASSUME NEW s \in Streams
        PROVE  Remembers(p.vid, s, table[e].streams[s])'
    BY <1>1, <2>1, <2>2, EnteredRemembers
  <2> QED
    BY <2>3, <2>4
<1>9. OneEntry'
  <2> SUFFICES ASSUME NEW v \in Vehicles, RunsOn(v)', NEW f \in Entry, NEW g \in Entry,
                      table'[f].vid = v, table'[g].vid = v
               PROVE  f = g
    BY DEF OneEntry
  <2>1. RunsOn(v)
    BY <1>2 DEF LaterOn
  <2>2. CASE v # p.vid
    BY <1>5, <2>1, <2>2 DEF RestartInv, OneEntry
  <2>3. CASE v = p.vid /\ FirstEntry(p.vid) = NoEntry
    BY <1>4, <1>5, <2>3
  <2>4. CASE v = p.vid /\ FirstEntry(p.vid) # NoEntry
    <3>1. table[e].vid = p.vid
      BY <1>1, <1>3, <1>4, <2>4, EntryForFacts, FirstEntryFacts DEF EntryFor
    <3> QED
      BY <1>5, <2>1, <2>4, <3>1 DEF RestartInv, OneEntry
  <2> QED
    BY <2>2, <2>3, <2>4
<1>10. ResetsReal'
  BY <1>2 DEF RestartInv, ResetsReal, LaterOn
<1> QED
  BY <1>7, <1>8, <1>9, <1>10 DEF RestartInv, HistoriesRight

\* Entries left alone or cleared, and nothing forgotten of those left alone.
LEMMA ForgettingKeepsHistories ==
  ASSUME RestartInv, IInv', LaterOn,
         \A e \in Entry : table'[e] \in {Cleared, table[e]},
         \A e \in Entry, q \in seen :
           table'[e] = table[e] /\ q.vid = table[e].vid /\ RunsOn(q.vid) => q \in seen'
  PROVE  HistoriesRight' /\ OneEntry'
<1>1. ASSUME NEW e \in Entry
      PROVE  EntryRight(e)'
  <2>1. CASE table'[e] = Cleared
    BY <2>1, ClearedRight
  <2>2. CASE table'[e] = table[e]
    BY <2>2, EntryStays DEF IInv
  <2> QED
    BY <2>1, <2>2
<1>2. \A e \in Entry, v \in Vehicles : table'[e].vid = v /\ RunsOn(v)' => table[e].vid = v
  BY ClearedRight
<1> QED
  BY <1>1, <1>2, OneEntryStays DEF HistoriesRight

LEMMA HandleRestartKeepsRestartInv ==
  ASSUME RestartInv, IInv', HandleRestart
  PROVE  RestartInv'
<1>1. PICK v \in Vehicles : v = Head(queue).vid
  BY TailQueueType DEF HandleRestart, RestartInv, IInv, Packet
<1>2. PICK e \in Entry : e = FirstEntry(v) /\ table[e].restart /\ table[e].vid = v
  BY <1>1, FirstEntryFacts DEF HandleRestart, IsRestarted, RestartInv, IInv
<1>3. /\ reset' = [entry |-> e, vid |-> v]
      /\ table' = [table EXCEPT ![e] = Cleared]
      /\ seen' = SeenBut(v) /\ UNCHANGED <<worldVars, restarted>>
  BY <1>1, <1>2 DEF HandleRestart
<1>4. LaterOn
  BY <1>3, LaterOnOtherwise DEF RestartInv, IInv
<1>5. ~ RunsOn(v)
  BY <1>2 DEF RestartInv, HistoriesRight, EntryRight
<1>6. ResetsReal'
  BY <1>3, <1>4, <1>5 DEF ResetsReal, LaterOn
<1>7. \A f \in Entry : table'[f] \in {Cleared, table[f]}
  BY <1>3 DEF RestartInv, IInv, TypeOK
<1>8. \A q \in seen : RunsOn(q.vid) => q \in seen'
  BY <1>3, <1>5 DEF SeenBut
<1>9. HistoriesRight' /\ OneEntry'
  BY <1>4, <1>7, <1>8, ForgettingKeepsHistories
<1> QED
  BY <1>6, <1>9 DEF RestartInv

LEMMA EndResetKeepsRestartInv ==
  ASSUME RestartInv, IInv', EndReset
  PROVE  RestartInv'
<1>1. PICK r \in Entry, v \in Vehicles : r = reset.entry /\ v = reset.vid /\ ~ RunsOn(v)
  BY DEF EndReset, RestartInv, IInv, ResetRight, ResetsReal
<1>2. /\ table' = [table EXCEPT ![r] = [table[r] EXCEPT !.restart = FALSE, !.vid = v]]
      /\ reset' = NoReset /\ UNCHANGED <<worldVars, restarted>>
      /\ SeenBut(table[r].vid) \subseteq seen'
  BY <1>1 DEF EndReset, SeenBut, RestartInv, IInv, TypeOK
<1>3. LaterOn
  BY <1>2, LaterOnOtherwise DEF RestartInv, IInv
<1>4. table'[r].vid = v /\ \A e \in Entry : e # r => table'[e] = table[e]
  BY <1>2 DEF RestartInv, IInv, TypeOK
<1>5. ~ RunsOn(v)'
  BY <1>1, <1>3 DEF LaterOn
<1>6. ASSUME NEW e \in Entry
      PROVE  EntryRight(e)'
  <2>1. CASE e = r
    BY <1>4, <1>5, <2>1 DEF EntryRight
  <2>2. CASE e # r
    <3>1. ASSUME NEW q \in seen, q.vid = table[e].vid, RunsOn(q.vid)
          PROVE  q \in seen'
      <4>1. q.vid \in Vehicles
        BY DEF RestartInv, IInv, TypeOK, Packet
      <4>2. q.vid # table[r].vid
        BY <2>2, <3>1, <4>1 DEF RestartInv, OneEntry
      <4> QED
        BY <1>2, <4>2 DEF SeenBut
    <3> QED
      BY <1>3, <1>4, <2>2, <3>1, EntryStays DEF IInv
  <2> QED
    BY <2>1, <2>2
<1>7. OneEntry'
  BY <1>3, <1>4, <1>5, OneEntryStays
<1> QED
  BY <1>2, <1>6, <1>7 DEF RestartInv, HistoriesRight, ResetsReal

LEMMA SilenceKeepsRestartInv ==
  ASSUME RestartInv, IInv', NEW e \in Entry, NEW s \in Streams, Silence(e, s)
  PROVE  RestartInv'
<1>1. /\ UNCHANGED <<worldVars, reset, seen, restarted>>
      /\ \A f \in Entry : f # e => table'[f] = table[f]
      /\ table'[e].vid = table[e].vid /\ table'[e].restart = table[e].restart
      /\ \A t \in Streams :
           table'[e].streams[t] =
             IF t = s THEN [table[e].streams[s] EXCEPT !.last = "long"] ELSE table[e].streams[t]
  BY SilenceEffect DEF RestartInv, IInv
<1>2. LaterOn
  BY <1>1, LaterOnOtherwise DEF RestartInv, IInv
<1>3. ASSUME NEW f \in Entry, f # e
      PROVE  EntryRight(f)'
  BY <1>1, <1>2, <1>3, EntryStays DEF IInv
<1>4. EntryRight(e)'
  <2> SUFFICES ASSUME NEW v \in Vehicles, table[e].vid = v, RunsOn(v)'
               PROVE  /\ ~ table[e].restart
                      /\ \A t \in Streams : Remembers(v, t, table[e].streams[t])'
    BY <1>1 DEF EntryRight
  <2>1. ~ table[e].restart /\ \A t \in Streams : Remembers(v, t, table[e].streams[t])
    BY <1>2 DEF LaterOn, RestartInv, HistoriesRight, EntryRight
  <2>2. UNCHANGED <<next, seen>> /\ \A i \in Interfaces : InAir(i)' = InAir(i)
    BY <1>1 DEF worldVars, InAir
  <2>3. ASSUME NEW t \in Streams
        PROVE  Remembers(v, t, table[e].streams[t])'
    <3>1. CASE t # s
      BY <1>1, <2>1, <2>2, <3>1 DEF Remembers
    <3>2. CASE t = s
      <4>1. table[e].streams[s] \in History
        BY DEF RestartInv, IInv, TypeOK
      <4>2. /\ table'[e].streams[s].max = table[e].streams[s].max
            /\ table'[e].streams[s].hash = table[e].streams[s].hash
        BY <1>1, <4>1 DEF History
      <4>3. \A i \in Interfaces : \A q \in InAir(i) : ~ (q.vid = v /\ q.stream = s)
        BY DEF Silence, InAir
      <4> QED
        BY <2>1, <2>2, <3>2, <4>2, <4>3 DEF Remembers
    <3> QED
      BY <3>1, <3>2
  <2> QED
    BY <2>1, <2>3
<1>5. OneEntry'
  BY <1>1, <1>2, OneEntryStays
<1>6. ResetsReal'
  BY <1>1, <1>2 DEF RestartInv, ResetsReal, LaterOn
<1> QED
  BY <1>3, <1>4, <1>5, <1>6 DEF RestartInv, HistoriesRight

LEMMA NextKeepsRestartInv ==
  ASSUME RestartInv, [Next]_vars
  PROVE  RestartInv'
<1>1. IInv'
  BY NextKeepsIInv DEF RestartInv
<1>2. ASSUME NEW v \in Vehicles, NEW s \in Streams, NEW ping \in Pings,
             NEW by \in SUBSET Interfaces, Send(v, s, ping, by)
      PROVE  RestartInv'
  BY <1>1, <1>2, SendKeepsRestartInv
<1>3. ASSUME NEW v \in Vehicles, Restart(v)
      PROVE  RestartInv'
  BY <1>1, <1>3, RestartKeepsRestartInv
<1>4. ASSUME LaterOn, UNCHANGED <<table, reset, seen>>
      PROVE  RestartInv'
  <2>1. HistoriesRight' /\ OneEntry'
    BY <1>1, <1>4, ForgettingKeepsHistories
  <2>2. ResetsReal'
    BY <1>4 DEF RestartInv, ResetsReal, LaterOn
  <2> QED
    BY <1>1, <2>1, <2>2 DEF RestartInv
<1>5. ASSUME NEW i \in Interfaces, Receive(i)
      PROVE  RestartInv'
  <2>1. CASE ReceiveNew(i)
    BY <1>1, <2>1, ReceiveNewKeepsRestartInv
  <2>2. CASE ReceiveDuplicate(i) \/ ReceiveNoRoom(i)
    <3>1. air[i] # <<>> /\ Read(i) /\ UNCHANGED <<table, reset, seen, restarted>>
      BY <2>2 DEF ReceiveDuplicate, ReceiveNoRoom
    <3>2. LaterOn
      BY <3>1, Reading, LaterOnQuietly DEF RestartInv, IInv
    <3> QED
      BY <1>4, <3>1, <3>2
  <2> QED
    BY <1>5, <2>1, <2>2 DEF Receive
<1>6. ASSUME UNCHANGED <<worldVars, restarted>>
      PROVE  LaterOn
  BY <1>6, LaterOnOtherwise DEF RestartInv, IInv
<1>7. CASE Router
  <2>1. CASE Handle
    BY <1>4, <1>6, <2>1 DEF Handle
  <2> QED
    BY <1>1, <1>7, <2>1, HandleRestartKeepsRestartInv, EndResetKeepsRestartInv DEF Router
<1>8. ASSUME NEW v \in Vehicles, RemoveVehicle(v)
      PROVE  RestartInv'
  <2>1. /\ LaterOn /\ UNCHANGED reset
        /\ \A e \in Entry : table'[e] \in {Cleared, table[e]}
    BY <1>6, <1>8, RemoveEffect
  <2>2. ASSUME NEW e \in Entry, NEW q \in seen, table'[e] = table[e], q.vid = table[e].vid
        PROVE  q \in seen'
    <3>1. q.vid \in Vehicles
      BY DEF RestartInv, IInv, TypeOK, Packet
    <3>2. table[e].vid # v
      BY <1>8, <2>2, <3>1, RemoveEffect, DetectionAssumption DEF Cleared, NoVehicle
    <3> QED
      BY <1>8, <2>2, <3>2, RemoveEffect DEF SeenBut
  <2>3. HistoriesRight' /\ OneEntry'
    BY <1>1, <2>1, <2>2, ForgettingKeepsHistories
  <2>4. ResetsReal'
    BY <2>1 DEF RestartInv, ResetsReal, LaterOn
  <2> QED
    BY <1>1, <2>3, <2>4 DEF RestartInv
<1>9. ASSUME NEW v \in Vehicles \cup {NoVehicle}, RemoveAllExcept(v)
      PROVE  RestartInv'
  <2>1. /\ LaterOn /\ UNCHANGED reset
        /\ \A e \in Entry : table'[e] \in {Cleared, table[e]}
    BY <1>6, <1>9, RemoveEffect
  <2>2. ASSUME NEW e \in Entry, NEW q \in seen, table'[e] = table[e], q.vid = table[e].vid
        PROVE  q \in seen'
    <3>1. q.vid \in Vehicles
      BY DEF RestartInv, IInv, TypeOK, Packet
    <3>2. table[e].vid = v
      BY <1>9, <2>2, <3>1, RemoveEffect, DetectionAssumption DEF Cleared, NoVehicle
    <3> QED
      BY <1>9, <2>2, <3>2, RemoveEffect
  <2>3. HistoriesRight' /\ OneEntry'
    BY <1>1, <2>1, <2>2, ForgettingKeepsHistories
  <2>4. ResetsReal'
    BY <2>1 DEF RestartInv, ResetsReal, LaterOn
  <2> QED
    BY <1>1, <2>3, <2>4 DEF RestartInv
<1>10. ASSUME NEW e \in Entry, NEW s \in Streams, Silence(e, s)
       PROVE  RestartInv'
  BY <1>1, <1>10, SilenceKeepsRestartInv
<1>11. CASE EightSecondsPast
  BY <1>4, <1>6, <1>11 DEF EightSecondsPast
<1>12. CASE UNCHANGED vars
  BY <1>4, <1>6, <1>12 DEF vars
<1> QED
  BY <1>2, <1>3, <1>5, <1>7, <1>8, <1>9, <1>10, <1>11, <1>12 DEF Next, NextOnAir

LEMMA InitRestartInv == Init => RestartInv
<1> SUFFICES ASSUME Init PROVE RestartInv
  OBVIOUS
<1>1. IInv
  BY InitIInv
<1>2. \A e \in Entry : table[e].vid \notin Vehicles
  BY DetectionAssumption DEF Init, Cleared, NoVehicle
<1> QED
  BY <1>1, <1>2 DEF RestartInv, HistoriesRight, EntryRight, OneEntry, ResetsReal, Init

\* Past the clock's first 8 seconds a packet of a vehicle that runs on is no
\* restart: not by its lag, nor after a silence, when nothing older is on its
\* way.
LEMMA NoRestartSeen ==
  ASSUME LagIsSmall, RestartInv, ~ early, NEW i \in Interfaces, ReceiveNew(i),
         RunsOn(Head(air[i]).vid)
  PROVE  ~ StreamRestarted(Head(air[i]))
<1> DEFINE history == Current(Head(air[i])).streams[Head(air[i]).stream]
<1>1. PICK p : p = Head(air[i])
  OBVIOUS
<1>2. /\ p \in Packet /\ p \in InAir(i) /\ next[p.vid][p.stream] <= p.idx + MaxLag
  BY <1>1, Taking
<1>3. /\ p.vid \in Vehicles /\ p.stream \in Streams /\ p.idx \in Nat
      /\ next[p.vid][p.stream] \in Nat /\ MaxLag \in Nat /\ PauseDelta \in Nat
      /\ MaxDelta[p.stream] \in Nat /\ MaxLag <= MaxDelta[p.stream] + 1
  BY <1>2, DetectionAssumption DEF Packet, RestartInv, IInv, TypeOK, LagIsSmall
<1>4. /\ history \in History
      /\ history = NoHistory \/ Remembers(p.vid, p.stream, history)
  BY <1>1, <1>2, <1>3, CurrentFacts, CurrentRight DEF RestartInv, IInv, EntryType
<1>5. /\ history.max \in Nat /\ (history.max = 0 \/ history.max < next[p.vid][p.stream])
      /\ history.last = "long" => p.idx >= history.max
  <2> HIDE DEF history
  <2>1. CASE history = NoHistory
    BY <2>1 DEF NoHistory
  <2>2. CASE Remembers(p.vid, p.stream, history)
    BY <1>2, <1>4, <2>2 DEF Remembers, History
  <2> QED
    BY <1>4, <2>1, <2>2
<1>6. /\ ~ (history.max > p.idx + MaxDelta[p.stream])
      /\ history.last = "long" => ~ (history.max > p.idx + PauseDelta)
  <2> HIDE DEF history
  <2> QED
    BY <1>2, <1>3, <1>5
<1> QED
  BY <1>1, <1>6 DEF StreamRestarted

\* While a vehicle runs on, no packet of it looks like a restart once the clock
\* is past its first 8 seconds: whatever was lost, however long a stream was
\* silent, and with whatever the router removes.  The lag may be as large as
\* the distance of the stream; after a silence nothing bounds it by the
\* shorter one.
THEOREM NoFalseRestartCorrect ==
  ASSUME LagIsSmall
  PROVE  Spec => NoFalseRestart
<1>1. Init => RestartInv
  BY InitRestartInv
<1>2. RestartInv /\ [Next]_vars => RestartInv'
  BY NextKeepsRestartInv
<1>3. ASSUME RestartInv
      PROVE  \A i \in Interfaces :
               ReceiveNew(i) /\ RunsOn(Head(air[i]).vid) /\ ~ early =>
                 ~ StreamRestarted(Head(air[i]))
  BY <1>3, NoRestartSeen
<1> QED
  BY <1>1, <1>2, <1>3, PTL DEF Spec, NoFalseRestart

\* What is dropped as a duplicate of a vehicle that runs on was taken before,
\* however far the interfaces are apart.
THEOREM DroppedWasTakenCorrect == Spec => DroppedWasTaken
<1>1. Init => RestartInv
  BY InitRestartInv
<1>2. RestartInv /\ [Next]_vars => RestartInv'
  BY NextKeepsRestartInv
<1>3. ASSUME RestartInv
      PROVE  \A i \in Interfaces :
               ReceiveDuplicate(i) /\ RunsOn(Head(air[i]).vid) => Head(air[i]) \in seen
  <2> SUFFICES ASSUME NEW i \in Interfaces, ReceiveDuplicate(i), RunsOn(Head(air[i]).vid)
               PROVE  Head(air[i]) \in seen
    OBVIOUS
  <2>1. PICK p \in Packet : p = Head(air[i]) /\ p \in InAir(i)
    BY <1>3, Reading DEF ReceiveDuplicate, RestartInv, IInv
  <2>2. /\ p.vid \in Vehicles /\ p.stream \in Streams /\ p.idx \in Nat
        /\ HashOf(p.idx) \in 0 .. HashSize - 1 /\ p.idx # NoIndex
    BY <2>1, HashOfType DEF Packet, NoIndex
  <2>3. NoHistory.hash[HashOf(p.idx)] = NoIndex
    BY <2>2 DEF NoHistory
  <2>4. Noticed(p).streams[p.stream].hash[HashOf(p.idx)] = p.idx
    BY <2>1 DEF ReceiveDuplicate, IsKnown
  <2>5. ~ StreamRestarted(p)
    <3> SUFFICES ASSUME StreamRestarted(p) PROVE Noticed(p).streams[p.stream] = NoHistory
      BY <2>2, <2>3, <2>4
    <3> QED
      BY <2>2 DEF Noticed, Cleared
  <2>6. Current(p).streams[p.stream].hash[HashOf(p.idx)] = p.idx
    BY <2>4, <2>5 DEF Noticed
  <2>7. Remembers(p.vid, p.stream, Current(p).streams[p.stream])
    BY <1>3, <2>1, <2>2, <2>3, <2>6, CurrentRight
  <2>8. PICK q \in seen : q.vid = p.vid /\ q.stream = p.stream /\ q.idx = p.idx
    BY <2>2, <2>6, <2>7 DEF Remembers
  <2>9. p \in Out /\ q \in Out
    BY <2>1 DEF Out
  <2>10. p.life = q.life
    <3>1. p.life = 1
      BY <1>3, <2>1 DEF RestartInv, IInv, World, AirRight, RunsOn
    <3>2. q.life \in Nat /\ 1 <= q.life /\ q.life <= life[q.vid] /\ life[q.vid] = 1
      BY <1>3, <2>1, <2>8, <2>9, OutType
         DEF RestartInv, IInv, World, SentRight, SentBefore, Packet, RunsOn
    <3> QED
      BY <3>1, <3>2
  <2> QED
    BY <1>3, <2>1, <2>8, <2>9, <2>10 DEF RestartInv, IInv, World, NoTwoAlike
<1> QED
  BY <1>1, <1>2, <1>3, PTL DEF Spec, DroppedWasTaken

-----------------------------------------------------------------------------
(***************************************************************************)
(* Duplicates.                                                             *)
(***************************************************************************)
\* No slot of the hash is needed by two packets that are still on their way.
HashIsLarge == MaxLag <= HashSize

LEMMA ResiduesApart ==
  ASSUME NEW n \in Nat \ {0}, NEW a \in Nat, NEW b \in Nat, a < b, b < a + n
  PROVE  a % n # b % n
<1> SUFFICES ASSUME a % n = b % n PROVE FALSE
  OBVIOUS
<1>1. a = n * (a \div n) + (a % n) /\ a \div n \in Int
  BY SMT
<1>2. b = n * (b \div n) + (b % n) /\ b \div n \in Int
  BY SMT
<1> DEFINE x == a \div n
           y == b \div n
<1> HIDE DEF x, y
<1>3. b - a = n * (y - x) /\ x \in Int /\ y \in Int
  <2>1. a = n * x + (a % n) /\ b = n * y + (a % n) /\ x \in Int /\ y \in Int
    BY <1>1, <1>2 DEF x, y
  <2>2. a % n \in Int
    BY SMT
  <2> QED
    BY <2>1, <2>2, SMT
<1>4. CASE y - x <= 0
  <2>1. n * (y - x) <= 0
    BY <1>3, <1>4, SMT
  <2> QED
    BY <1>3, <2>1
<1>5. CASE y - x >= 1
  <2>1. n * (y - x) >= n
    BY <1>3, <1>5, SMT
  <2> QED
    BY <1>3, <2>1
<1> QED
  BY <1>3, <1>4, <1>5

\* Numbers less than HashSize apart have different slots.
LEMMA SlotsApart ==
  ASSUME NEW a \in Nat, NEW b \in Nat, a < b, b < a + HashSize
  PROVE  HashOf(a) # HashOf(b)
BY ResiduesApart, DetectionAssumption DEF HashOf

\* An entry of a packet's vehicle has the packet, or a newer one, in its slot.
Holds(entry, q) ==
  entry.vid = q.vid /\ entry.streams[q.stream].hash[HashOf(q.idx)] >= q.idx

SeenIsHeld == \A q \in seen : RunsOn(q.vid) => \E e \in Entry : Holds(table[e], q)

OnceInv == RestartInv /\ SeenIsHeld

\* What stands in the slot of a packet from the air is not newer.
LEMMA SlotNotNewer ==
  ASSUME HashIsLarge, RestartInv, NEW p \in Packet, RunsOn(p.vid),
         next[p.vid][p.stream] <= p.idx + MaxLag,
         NEW e \in Entry, table[e].vid = p.vid
  PROVE  table[e].streams[p.stream].hash[HashOf(p.idx)] <= p.idx
<1> DEFINE h == HashOf(p.idx)
           x == table[e].streams[p.stream].hash[h]
<1>1. p.vid \in Vehicles /\ p.stream \in Streams /\ p.idx \in Nat /\ h \in 0 .. HashSize - 1
  BY HashOfType DEF Packet
<1>2. x \in Nat \cup {NoIndex}
  BY <1>1, SlotType DEF RestartInv, IInv
<1>3. CASE x = NoIndex
  BY <1>1, <1>3 DEF NoIndex
<1>4. CASE x # NoIndex
  <2>1. Remembers(p.vid, p.stream, table[e].streams[p.stream])
    BY <1>1 DEF RestartInv, HistoriesRight, EntryRight
  <2>2. PICK q \in seen : q.vid = p.vid /\ q.stream = p.stream /\ q.idx = x /\ HashOf(q.idx) = h
    BY <1>1, <1>4, <2>1 DEF Remembers
  <2>3. q \in Packet /\ SentBefore(q)
    BY OutType DEF RestartInv, IInv, World, SentRight, Out
  <2>4. q.life \in Nat /\ 1 <= q.life /\ q.life <= 1 /\ life[q.vid] = 1
    BY <2>2, <2>3 DEF SentBefore, Packet, RunsOn
  <2>5. q.idx < next[p.vid][p.stream]
    BY <2>2, <2>3, <2>4 DEF SentBefore
  <2> HIDE DEF x, h
  <2>6. /\ x \in Nat /\ x < next[p.vid][p.stream] /\ next[p.vid][p.stream] \in Nat
        /\ MaxLag \in Nat /\ HashSize \in Nat
    BY <1>1, <1>2, <1>4, <2>2, <2>5, DetectionAssumption DEF RestartInv, IInv, TypeOK
  <2>7. x < p.idx + HashSize
    BY <1>1, <2>6 DEF HashIsLarge
  <2> QED
    BY <1>1, <2>2, <2>6, <2>7, SlotsApart DEF h, x
<1> QED
  BY <1>3, <1>4

LEMMA ReceiveNewKeepsHeld ==
  ASSUME HashIsLarge, OnceInv, NEW i \in Interfaces, ReceiveNew(i)
  PROVE  SeenIsHeld'
<1>1. PICK p, e : p = Head(air[i]) /\ e = EntryFor(p.vid)
  OBVIOUS
<1>2. /\ p \in Packet /\ next[p.vid][p.stream] <= p.idx + MaxLag /\ LaterOn
      /\ e \in Entry /\ table' = [table EXCEPT ![e] = Entered(Noticed(p), p)]
      /\ seen' = (IF StreamRestarted(p) \/ FirstEntry(p.vid) = NoEntry
                    THEN SeenBut(p.vid) ELSE seen) \cup {p}
      /\ StreamRestarted(p) => p.vid \in restarted'
  BY <1>1, Taking DEF OnceInv
<1>3. /\ p.vid \in Vehicles /\ p.stream \in Streams /\ p.idx \in Nat
      /\ HashOf(p.idx) \in 0 .. HashSize - 1
  BY <1>2, HashOfType DEF Packet
<1>4. /\ TypeOK /\ table \in [Entry -> EntryType] /\ Noticed(p) \in EntryType
      /\ Noticed(p).vid = p.vid
  BY <1>2, CurrentFacts, NoticedType DEF OnceInv, RestartInv, IInv, TypeOK, EntryType
<1>5. /\ table'[e] = Entered(Noticed(p), p) /\ table'[e].vid = p.vid
      /\ table'[e].streams[p.stream].hash[HashOf(p.idx)] = p.idx
      /\ \A f \in Entry : f # e => table'[f] = table[f]
  BY <1>2, <1>3, <1>4, EnteredFacts
<1>6. table[e].vid \in {p.vid, NoVehicle}
  BY <1>1, <1>2, <1>3, <1>4, EntryForFacts, FirstEntryFacts DEF Entry, NoEntry
<1> SUFFICES ASSUME NEW q \in seen', RunsOn(q.vid)'
             PROVE  \E f \in Entry : Holds(table'[f], q)
  BY DEF SeenIsHeld, Holds, RunsOn
<1>7. CASE q = p
  BY <1>2, <1>3, <1>5, <1>7 DEF Holds
<1>8. CASE q # p
  <2>1. q \in seen /\ q \in Packet /\ q.vid \in Vehicles /\ q.stream \in Streams /\ q.idx \in Nat
        /\ HashOf(q.idx) \in 0 .. HashSize - 1
    BY <1>2, <1>4, <1>8, HashOfType DEF SeenBut, TypeOK, Packet
  <2>2. RunsOn(q.vid)
    BY <1>2, <2>1 DEF LaterOn
  <2>3. PICK f \in Entry : Holds(table[f], q)
    BY <2>1, <2>2 DEF OnceInv, SeenIsHeld
  <2>4. CASE f # e
    BY <1>5, <2>3, <2>4
  <2>5. CASE f = e
    <3>1. q.vid = p.vid /\ table[e].vid = p.vid
      BY <1>6, <2>1, <2>3, <2>5, DetectionAssumption DEF Holds, NoVehicle
    <3>2. ~ StreamRestarted(p) /\ FirstEntry(p.vid) # NoEntry
      BY <1>2, <1>4, <1>8, <3>1, FirstEntryFacts DEF RunsOn, SeenBut
    <3>3. Noticed(p) = table[e]
      BY <1>1, <3>2 DEF Noticed, Current, EntryFor
    <3>4. CASE q.stream = p.stream /\ HashOf(q.idx) = HashOf(p.idx)
      <4>1. table[e].streams[p.stream].hash[HashOf(p.idx)] <= p.idx
        BY <1>2, <2>2, <3>1, SlotNotNewer DEF OnceInv
      <4>2. table[e].streams[p.stream].hash[HashOf(p.idx)] >= q.idx
        BY <2>3, <2>5, <3>4 DEF Holds
      <4>3. table[e].streams[p.stream].hash[HashOf(p.idx)] \in Int
        BY <1>2, <1>3, <1>4, SlotType
      <4>4. p.idx >= q.idx
        BY <1>3, <2>1, <4>1, <4>2, <4>3
      <4> QED
        BY <1>2, <1>5, <3>1, <3>4, <4>4 DEF Holds
    <3>5. CASE ~ (q.stream = p.stream /\ HashOf(q.idx) = HashOf(p.idx))
      <4>1. table'[e].streams[q.stream].hash[HashOf(q.idx)]
              = table[e].streams[q.stream].hash[HashOf(q.idx)]
        BY <1>2, <1>4, <1>5, <2>1, <3>3, <3>5, EnteredFacts
      <4> QED
        BY <1>2, <1>5, <2>3, <2>5, <3>1, <4>1 DEF Holds
    <3> QED
      BY <3>4, <3>5
  <2> QED
    BY <2>4, <2>5
<1> QED
  BY <1>7, <1>8

\* Nothing remembered but what the entries that kept their hashes hold.
LEMMA ForgettingKeepsHeld ==
  ASSUME OnceInv, LaterOn, seen' \subseteq seen,
         \A e \in Entry, q \in seen' :
           table[e].vid = q.vid /\ RunsOn(q.vid) /\ Holds(table[e], q) => Holds(table'[e], q)
  PROVE  SeenIsHeld'
<1> SUFFICES ASSUME NEW q \in seen', RunsOn(q.vid)'
             PROVE  \E e \in Entry : Holds(table'[e], q)
  BY DEF SeenIsHeld, Holds, RunsOn
<1>1. q.vid \in Vehicles
  BY DEF OnceInv, RestartInv, IInv, TypeOK, Packet
<1>2. RunsOn(q.vid)
  BY <1>1 DEF LaterOn
<1>3. PICK e \in Entry : Holds(table[e], q)
  BY <1>2 DEF OnceInv, SeenIsHeld
<1> QED
  BY <1>2, <1>3 DEF Holds

LEMMA HandleRestartKeepsHeld ==
  ASSUME OnceInv, LaterOn, HandleRestart
  PROVE  SeenIsHeld'
<1>1. PICK v \in Vehicles : v = Head(queue).vid
  BY TailQueueType DEF HandleRestart, OnceInv, RestartInv, IInv, Packet
<1>2. PICK e \in Entry : e = FirstEntry(v) /\ table[e].vid = v
  BY <1>1, FirstEntryFacts DEF HandleRestart, IsRestarted, OnceInv, RestartInv, IInv
<1>3. table' = [table EXCEPT ![e] = Cleared] /\ seen' = SeenBut(v)
  BY <1>1, <1>2 DEF HandleRestart
<1>4. \A f \in Entry : f # e => table'[f] = table[f]
  BY <1>3 DEF OnceInv, RestartInv, IInv, TypeOK
<1>5. ASSUME NEW f \in Entry, NEW q \in seen', table[f].vid = q.vid
      PROVE  table'[f] = table[f]
  BY <1>2, <1>3, <1>4, <1>5 DEF SeenBut
<1> QED
  BY <1>3, <1>5, ForgettingKeepsHeld DEF SeenBut

LEMMA EndResetKeepsHeld ==
  ASSUME OnceInv, LaterOn, EndReset
  PROVE  SeenIsHeld'
<1>1. PICK r \in Entry, v \in Vehicles : r = reset.entry /\ v = reset.vid /\ ~ RunsOn(v)
  BY DEF EndReset, OnceInv, RestartInv, IInv, ResetRight, ResetsReal
<1>2. \A e \in Entry : e # r => table'[e] = table[e]
  BY <1>1 DEF EndReset, OnceInv, RestartInv, IInv, TypeOK
<1>3. seen' = IF table[r].vid = v THEN seen ELSE SeenBut(table[r].vid)
  BY <1>1 DEF EndReset
<1>4. ASSUME NEW e \in Entry, NEW q \in seen', table[e].vid = q.vid, RunsOn(q.vid)
      PROVE  table'[e] = table[e]
  BY <1>1, <1>2, <1>3, <1>4 DEF SeenBut
<1> QED
  BY <1>3, <1>4, ForgettingKeepsHeld DEF SeenBut

LEMMA SilenceKeepsHeld ==
  ASSUME OnceInv, LaterOn, NEW e \in Entry, NEW s \in Streams, Silence(e, s)
  PROVE  SeenIsHeld'
<1>1. /\ seen' = seen
      /\ \A f \in Entry : f # e => table'[f] = table[f]
      /\ table'[e].vid = table[e].vid
      /\ \A t \in Streams :
           table'[e].streams[t] =
             IF t = s THEN [table[e].streams[s] EXCEPT !.last = "long"] ELSE table[e].streams[t]
  BY SilenceEffect DEF OnceInv, RestartInv, IInv
<1>2. table[e].streams[s] \in History
  BY DEF OnceInv, RestartInv, IInv, TypeOK
<1>3. \A t \in Streams : table'[e].streams[t].hash = table[e].streams[t].hash
  BY <1>1, <1>2 DEF History
<1>4. \A q \in seen' : q.stream \in Streams
  BY <1>1 DEF OnceInv, RestartInv, IInv, TypeOK, Packet
<1>5. \A f \in Entry, q \in seen' : Holds(table[f], q) => Holds(table'[f], q)
  BY <1>1, <1>3, <1>4 DEF Holds
<1> QED
  BY <1>1, <1>5, ForgettingKeepsHeld

LEMMA NextKeepsOnceInv ==
  ASSUME HashIsLarge, OnceInv, [Next]_vars
  PROVE  OnceInv'
<1>1. RestartInv'
  BY NextKeepsRestartInv DEF OnceInv
<1>2. ASSUME SeenIsHeld'
      PROVE  OnceInv'
  BY <1>1, <1>2 DEF OnceInv
<1>3. ASSUME LaterOn, UNCHANGED <<table, seen>>
      PROVE  OnceInv'
  BY <1>2, <1>3, ForgettingKeepsHeld
<1>4. ASSUME UNCHANGED <<worldVars, restarted>>
      PROVE  LaterOn
  BY <1>4, LaterOnOtherwise DEF OnceInv, RestartInv, IInv
<1>5. ASSUME NEW v \in Vehicles, NEW s \in Streams, NEW ping \in Pings,
             NEW by \in SUBSET Interfaces, Send(v, s, ping, by)
      PROVE  OnceInv'
  <2>1. LaterOn /\ UNCHANGED <<table, seen>>
    BY <1>5, LaterOnSent DEF Send, OnceInv, RestartInv
  <2> QED
    BY <1>3, <2>1
<1>6. ASSUME NEW v \in Vehicles, Restart(v)
      PROVE  OnceInv'
  <2>1. LaterOn /\ UNCHANGED <<table, seen>>
    BY <1>6, LaterOnRestarted DEF Restart, OnceInv, RestartInv
  <2> QED
    BY <1>3, <2>1
<1>7. ASSUME NEW i \in Interfaces, Receive(i)
      PROVE  OnceInv'
  <2>1. CASE ReceiveNew(i)
    BY <1>2, <2>1, ReceiveNewKeepsHeld
  <2>2. CASE ReceiveDuplicate(i) \/ ReceiveNoRoom(i)
    <3>1. air[i] # <<>> /\ Read(i) /\ UNCHANGED <<table, seen, restarted>>
      BY <2>2 DEF ReceiveDuplicate, ReceiveNoRoom
    <3>2. LaterOn
      BY <3>1, Reading, LaterOnQuietly DEF OnceInv, RestartInv, IInv
    <3> QED
      BY <1>3, <3>1, <3>2
  <2> QED
    BY <1>7, <2>1, <2>2 DEF Receive
<1>8. CASE Router
  <2>1. LaterOn
    BY <1>4, <1>8 DEF Router, Handle, HandleRestart, EndReset
  <2>2. CASE Handle
    BY <1>3, <2>1, <2>2 DEF Handle
  <2> QED
    BY <1>2, <1>8, <2>1, <2>2, HandleRestartKeepsHeld, EndResetKeepsHeld DEF Router
<1>9. ASSUME NEW v \in Vehicles, RemoveVehicle(v)
      PROVE  OnceInv'
  <2>1. LaterOn
    BY <1>4, <1>9, RemoveEffect
  <2>2. SeenIsHeld'
    BY <1>9, <2>1, RemoveEffect, ForgettingKeepsHeld DEF SeenBut
  <2> QED
    BY <1>2, <2>2
<1>10. ASSUME NEW v \in Vehicles \cup {NoVehicle}, RemoveAllExcept(v)
       PROVE  OnceInv'
  <2>1. LaterOn
    BY <1>4, <1>10, RemoveEffect
  <2>2. \A q \in seen : q.vid # NoVehicle
    BY DetectionAssumption DEF OnceInv, RestartInv, IInv, TypeOK, Packet, NoVehicle
  <2>3. SeenIsHeld'
    BY <1>10, <2>1, <2>2, RemoveEffect, ForgettingKeepsHeld
  <2> QED
    BY <1>2, <2>3
<1>11. ASSUME NEW e \in Entry, NEW s \in Streams, Silence(e, s)
       PROVE  OnceInv'
  <2>1. LaterOn
    BY <1>4, <1>11 DEF Silence
  <2> QED
    BY <1>2, <1>11, <2>1, SilenceKeepsHeld
<1>12. CASE EightSecondsPast
  BY <1>3, <1>4, <1>12 DEF EightSecondsPast
<1>13. CASE UNCHANGED vars
  BY <1>3, <1>4, <1>13 DEF vars
<1> QED
  BY <1>5, <1>6, <1>7, <1>8, <1>9, <1>10, <1>11, <1>12, <1>13 DEF Next, NextOnAir

\* While a vehicle runs on, no packet of it that is remembered is taken a
\* second time, through whichever interfaces and however late it comes, while
\* other vehicles may start again.
THEOREM TakenOnceCorrect ==
  ASSUME HashIsLarge
  PROVE  Spec => TakenOnce
<1>1. Init => OnceInv
  <2> SUFFICES ASSUME Init PROVE OnceInv
    OBVIOUS
  <2>1. RestartInv
    BY InitRestartInv
  <2> QED
    BY <2>1 DEF OnceInv, SeenIsHeld, Init
<1>2. OnceInv /\ [Next]_vars => OnceInv'
  BY NextKeepsOnceInv
<1>3. ASSUME OnceInv
      PROVE  \A i \in Interfaces :
               LET p == Head(air[i])
               IN  ReceiveNew(i) /\ RunsOn(p.vid) =>
                     p \notin seen \/ p.ping \/ StreamRestarted(p)
  <2> SUFFICES ASSUME NEW i \in Interfaces, NEW p, p = Head(air[i]), ReceiveNew(i),
                      RunsOn(p.vid), p \in seen, ~ StreamRestarted(p)
               PROVE  p.ping
    OBVIOUS
  <2>1. /\ p \in Packet /\ next[p.vid][p.stream] <= p.idx + MaxLag
        /\ ~ IsKnown(Current(p), p)
    BY <1>3, Taking DEF OnceInv, Noticed
  <2>2. p.vid \in Vehicles /\ p.stream \in Streams /\ p.idx \in Nat
        /\ HashOf(p.idx) \in 0 .. HashSize - 1
    BY <2>1, HashOfType DEF Packet
  <2>3. PICK e \in Entry : Holds(table[e], p)
    BY <1>3 DEF OnceInv, SeenIsHeld
  <2>4. table[e].vid = p.vid /\ Current(p) = table[e]
    <3>1. table[e].vid = p.vid
      BY <2>3 DEF Holds
    <3>2. FirstEntry(p.vid) # NoEntry
      BY <1>3, <3>1, FirstEntryFacts DEF OnceInv, RestartInv, IInv
    <3>3. FirstEntry(p.vid) \in Entry /\ table[FirstEntry(p.vid)].vid = p.vid
      BY <1>3, <3>2, FirstEntryFacts DEF OnceInv, RestartInv, IInv
    <3> QED
      BY <1>3, <2>2, <3>1, <3>2, <3>3 DEF Current, OnceInv, RestartInv, OneEntry
  <2>5. table[e].streams[p.stream].hash[HashOf(p.idx)] = p.idx
    <3>1. table[e].streams[p.stream].hash[HashOf(p.idx)] <= p.idx
      BY <1>3, <2>1, <2>4, SlotNotNewer DEF OnceInv
    <3>2. table[e].streams[p.stream].hash[HashOf(p.idx)] >= p.idx
      BY <2>3 DEF Holds
    <3>3. table[e].streams[p.stream].hash[HashOf(p.idx)] \in Int
      BY <1>3, <2>2, SlotType DEF OnceInv, RestartInv, IInv
    <3> QED
      BY <2>2, <3>1, <3>2, <3>3
  <2> QED
    BY <2>1, <2>4, <2>5 DEF IsKnown
<1> QED
  BY <1>1, <1>2, <1>3, PTL DEF Spec, TakenOnce
=============================================================================
