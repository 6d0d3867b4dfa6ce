-------------------------- MODULE PacketsQueueProofs --------------------------
(***************************************************************************)
(* Proofs about the packet queue, for every ring size and set of packets:  *)
(* type correctness, the place of the packet in hand, and that the ring    *)
(* implements the bounded deque of module PacketsDeque.                    *)
(***************************************************************************)
EXTENDS PacketsQueue, SequenceTheorems, TLAPS

Inv == TypeOK /\ PositionsOK

-------------------------------------------------------------------------------
(***************************************************************************)
(* The inductive invariant.                                                *)
(***************************************************************************)

\* The two neighbours of a position are positions, and inverse to each other.
LEMMA Neighbours ==
  ASSUME NEW i \in Position
  PROVE  /\ After(i) \in Position
         /\ Before(i) \in Position
         /\ After(Before(i)) = i
         /\ \A j \in Position : After(i) = After(j) => i = j
BY MaxPacketsAssumption DEF Position, After, Before

LEMMA InitInv == Init => Inv
BY MaxPacketsAssumption DEF Init, Inv, TypeOK, PositionsOK, Unset

LEMMA NextInv == Inv /\ [Next]_vars => Inv'
<1> SUFFICES ASSUME Inv, [Next]_vars
             PROVE  Inv'
  OBVIOUS
<1> USE MaxPacketsAssumption DEF Inv, TypeOK, PositionsOK
<1>0. 0 \in Position /\ Unset \notin Position
  BY DEF Position, Unset
<1>1. CASE InitQueue
  BY <1>0, <1>1 DEF InitQueue
<1>2. ASSUME NEW p \in Packet, AddPacket(p)
      PROVE  Inv'
  <2>1. CASE queue_start_pos = Unset
    <3>1. queue_start_pos' = 0 /\ queue_end_pos' = After(0)
          /\ packets_queue' = [packets_queue EXCEPT ![0] = p] /\ held' = held
      BY <1>2, <2>1 DEF AddPacket
    <3>2. held = Unset
      BY <2>1
    <3>3. After(0) \in Position
      BY <1>0, Neighbours
    <3>4. timeFirstSet' \in BOOLEAN
      BY <1>2 DEF AddPacket
    <3> QED
      BY <1>0, <3>1, <3>2, <3>3, <3>4
  <2>2. CASE queue_start_pos # Unset
    <3>1. /\ queue_start_pos' = queue_start_pos
          /\ queue_end_pos' = After(queue_end_pos)
          /\ packets_queue' = [packets_queue EXCEPT ![queue_end_pos] = p]
          /\ held' = held
      BY <1>2, <2>2 DEF AddPacket
    <3>2. queue_end_pos \in Position
      BY <2>2
    <3>3. After(queue_end_pos) \in Position
      BY <3>2, Neighbours
    <3>4. timeFirstSet' \in BOOLEAN
      BY <1>2 DEF AddPacket
    <3> QED
      BY <1>0, <2>2, <3>1, <3>3, <3>4
  <2> QED
    BY <2>1, <2>2
<1>3. CASE AddRefused
  BY <1>3 DEF AddRefused, vars
<1>4. ASSUME NEW p \in Packet, InjectFirst(p)
      PROVE  Inv'
  <2>1. CASE IsEmpty
    <3>1. 1 \in Position
      BY DEF Position
    <3>2. /\ queue_start_pos' = 0 /\ queue_end_pos' = 1
          /\ packets_queue' = [packets_queue EXCEPT ![0] = p]
          /\ timeFirstSet' = TRUE /\ held' = Unset
      BY <1>4, <2>1 DEF InjectFirst
    <3> QED
      BY <1>0, <3>1, <3>2
  <2>2. CASE ~ IsEmpty
    <3>1. queue_start_pos \in Position /\ queue_end_pos \in Position
      BY <2>2 DEF IsEmpty
    <3>2. /\ queue_start_pos' = Before(queue_start_pos)
          /\ queue_end_pos' = queue_end_pos
          /\ packets_queue' = [packets_queue EXCEPT ![Before(queue_start_pos)] = p]
          /\ timeFirstSet' = timeFirstSet /\ held' = Unset
      BY <1>4, <2>2 DEF InjectFirst
    <3>3. Before(queue_start_pos) \in Position
      BY <3>1, Neighbours
    <3> QED
      BY <1>0, <3>1, <3>2, <3>3
  <2> QED
    BY <2>1, <2>2
<1>5. CASE PopPacket
  <2>1. queue_start_pos \in Position /\ queue_end_pos \in Position
    BY <1>5 DEF PopPacket, IsEmpty
  <2>2. After(queue_start_pos) \in Position
    BY <2>1, Neighbours
  <2>3. timeFirstSet' \in BOOLEAN
    BY <1>5 DEF PopPacket
  <2> QED
    BY <1>0, <1>5, <2>1, <2>2, <2>3 DEF PopPacket
<1>6. CASE UNCHANGED vars
  BY <1>6 DEF vars
<1> QED
  BY <1>1, <1>2, <1>3, <1>4, <1>5, <1>6 DEF Next

\* The positions of the ring stay in the ring, or both unset, and the slots
\* hold packets.
THEOREM TypeCorrect == Spec => []TypeOK
<1>1. Init => Inv
  BY InitInv
<1>2. Inv /\ [Next]_vars => Inv'
  BY NextInv
<1>3. Inv => TypeOK
  BY DEF Inv
<1> QED
  BY <1>1, <1>2, <1>3, PTL DEF Spec

\* The packet a caller still reads after a pop lies in the slot left free.
THEOREM PositionsCorrect == Spec => []PositionsOK
<1>1. Init => Inv
  BY InitInv
<1>2. Inv /\ [Next]_vars => Inv'
  BY NextInv
<1>3. Inv => PositionsOK
  BY DEF Inv
<1> QED
  BY <1>1, <1>2, <1>3, PTL DEF Spec

-------------------------------------------------------------------------------
(***************************************************************************)
(* The arrival time of the first packet.                                   *)
(***************************************************************************)
\* A queue whose positions differ holds a packet.
LEMMA CountOfEmpty == Inv => (IsEmpty \/ Count > 0)
BY MaxPacketsAssumption DEF Inv, TypeOK, PositionsOK, Count, IsEmpty, Position, Unset

\* The time is unset only by the pop of the last packet, and set by whatever
\* ends the emptiness of the queue.
LEMMA StepKeepsTime == Inv /\ TimeFirstKnown /\ [Next]_vars => TimeFirstKnown'
<1> SUFFICES ASSUME Inv, IsEmpty \/ timeFirstSet, [Next]_vars
             PROVE  IsEmpty' \/ timeFirstSet'
  <2>1. TimeFirstKnown /\ Inv => IsEmpty \/ timeFirstSet
    BY CountOfEmpty DEF TimeFirstKnown
  <2>2. IsEmpty' \/ timeFirstSet' => TimeFirstKnown'
    BY DEF TimeFirstKnown, Count
  <2> QED
    BY <2>1, <2>2
<1>1. CASE InitQueue
  BY <1>1 DEF InitQueue, IsEmpty
<1>2. ASSUME NEW p \in Packet, AddPacket(p)
      PROVE  timeFirstSet'
  BY <1>2 DEF AddPacket
<1>3. CASE AddRefused \/ UNCHANGED vars
  BY <1>3 DEF AddRefused, vars, IsEmpty
<1>4. ASSUME NEW p \in Packet, InjectFirst(p)
      PROVE  timeFirstSet'
  BY <1>4 DEF InjectFirst
<1>5. CASE PopPacket
  BY <1>5 DEF PopPacket, IsEmpty
<1> QED
  BY <1>1, <1>2, <1>3, <1>4, <1>5 DEF Next

\* While a packet waits its arrival time is known.
THEOREM TimeCorrect == Spec => []TimeFirstKnown
<1>1. Init => Inv /\ TimeFirstKnown
  BY InitInv DEF Init, TimeFirstKnown, Count, IsEmpty
<1>2. Inv /\ TimeFirstKnown /\ [Next]_vars => (Inv /\ TimeFirstKnown)'
  BY NextInv, StepKeepsTime
<1> QED
  BY <1>1, <1>2, PTL DEF Spec

-------------------------------------------------------------------------------
(***************************************************************************)
(* The packet in hand.                                                     *)
(***************************************************************************)

\* Adding writes the slot at the end of the queue; the slot in hand is just
\* before the first packet, so only a full queue could bring them together.
LEMMA StepKeepsHeld ==
  Inv /\ [Next]_vars =>
    (held # Unset /\ held' = held => packets_queue'[held] = packets_queue[held])
<1> SUFFICES ASSUME Inv, [Next]_vars, held # Unset, held' = held
             PROVE  packets_queue'[held] = packets_queue[held]
  OBVIOUS
<1> USE DEF Inv, TypeOK, PositionsOK
<1>1. CASE InitQueue \/ AddRefused \/ PopPacket \/ UNCHANGED vars
  BY <1>1 DEF InitQueue, AddRefused, PopPacket, vars
<1>2. ASSUME NEW p \in Packet, AddPacket(p)
      PROVE  packets_queue'[held] = packets_queue[held]
  <2>1. queue_start_pos # Unset /\ After(held) = queue_start_pos
    OBVIOUS
  <2>2. After(queue_end_pos) # queue_start_pos
    BY <1>2, <2>1 DEF AddPacket, IsFull
  <2>3. held # queue_end_pos
    BY <2>1, <2>2
  <2> QED
    BY <1>2, <2>1, <2>3 DEF AddPacket
<1>3. ASSUME NEW p \in Packet, InjectFirst(p)
      PROVE  FALSE
  BY <1>3 DEF InjectFirst
<1> QED
  BY <1>1, <1>2, <1>3 DEF Next

\* What a caller popped is not overwritten by the packets it queues next.
THEOREM HeldCorrect == Spec => HeldPacketIntact
<1>1. Init => Inv
  BY InitInv
<1>2. Inv /\ [Next]_vars => Inv'
  BY NextInv
<1>3. Inv /\ [Next]_vars =>
        [held # Unset /\ held' = held => packets_queue'[held] = packets_queue[held]]_vars
  BY StepKeepsHeld
<1> QED
  BY <1>1, <1>2, <1>3, PTL DEF Spec, HeldPacketIntact

-------------------------------------------------------------------------------
(***************************************************************************)
(* The ring implements the bounded deque.                                  *)
(***************************************************************************)

\* The count packets_queue_has_packets computes from the two positions.
LEMMA CountRange ==
  Inv => /\ Count \in 0 .. MaxPackets - 1
         /\ Count = 0 <=> IsEmpty
         /\ IsFull <=> Count = MaxPackets - 1
BY MaxPacketsAssumption
   DEF Inv, TypeOK, PositionsOK, Count, IsEmpty, IsFull, Position, Unset, After

\* The slots of the queued packets are distinct positions of the ring.
LEMMA SlotRange ==
  Inv => \A i \in 0 .. Count - 1 : SlotAt(i) \in Position
BY MaxPacketsAssumption, CountRange
   DEF Inv, TypeOK, PositionsOK, Count, IsEmpty, Position, Unset, SlotAt

\* The queued packets as a sequence.
ContentsIsSeq ==
  /\ Contents \in Seq(Packet)
  /\ Len(Contents) = Count
  /\ \A i \in 1 .. Count : Contents[i] = packets_queue[SlotAt(i - 1)]

LEMMA ContentsSeq == Inv => ContentsIsSeq
<1> SUFFICES ASSUME Inv
             PROVE  ContentsIsSeq
  OBVIOUS
<1>1. Count \in Nat
  BY MaxPacketsAssumption, CountRange
<1>2. \A i \in 1 .. Count : Contents[i] = packets_queue[SlotAt(i - 1)]
  BY DEF Contents, Peek
<1>3. \A i \in 1 .. Count : packets_queue[SlotAt(i - 1)] \in Packet
  <2> SUFFICES ASSUME NEW i \in 1 .. Count
               PROVE  packets_queue[SlotAt(i - 1)] \in Packet
    OBVIOUS
  <2>1. i - 1 \in 0 .. Count - 1
    BY <1>1
  <2> QED
    BY <2>1, SlotRange DEF Inv, TypeOK
<1>4. Contents \in [1 .. Count -> Packet]
  BY <1>3 DEF Contents, Peek
<1>5. Contents \in Seq(Packet)
  BY <1>1, <1>4, SeqDef
<1>6. Len(Contents) = Count
  BY <1>1, <1>4, <1>5, LenProperties
<1> QED
  BY <1>2, <1>5, <1>6 DEF ContentsIsSeq

\* A packet added is the last of the sequence.
LEMMA AddAppends ==
  ASSUME Inv, Inv', NEW p \in Packet, AddPacket(p)
  PROVE  /\ Count < MaxPackets - 1
         /\ Contents' = Append(Contents, p)
<1>1. ContentsIsSeq /\ ContentsIsSeq'
  BY ContentsSeq, PTL
<1>2. Count \in 0 .. MaxPackets - 2
  BY MaxPacketsAssumption, CountRange DEF AddPacket
<1>3. Count' = Count + 1
  BY MaxPacketsAssumption
     DEF AddPacket, IsFull, Inv, TypeOK, PositionsOK, Count, IsEmpty, Position,
         Unset, After
<1> DEFINE end == IF queue_start_pos = Unset THEN 0 ELSE queue_end_pos
<1>4. \A i \in 0 .. Count :
        packets_queue'[SlotAt(i)'] = IF i = Count THEN p ELSE packets_queue[SlotAt(i)]
  <2>1. packets_queue' = [packets_queue EXCEPT ![end] = p]
        /\ packets_queue \in [Position -> Packet]
    BY DEF AddPacket, Inv, TypeOK
  <2>2. end \in Position
    BY MaxPacketsAssumption DEF Inv, TypeOK, PositionsOK, Position, Unset
  <2>3. \A i \in 0 .. Count :
           /\ SlotAt(i)' \in Position
           /\ SlotAt(i)' = end <=> i = Count
           /\ i # Count => SlotAt(i)' = SlotAt(i)
    <3>1. CASE queue_start_pos = Unset
      <4>1. Count = 0 /\ queue_start_pos' = 0
        BY <3>1 DEF AddPacket, Inv, PositionsOK, Count, IsEmpty
      <4> QED
        BY <3>1, <4>1, MaxPacketsAssumption DEF SlotAt, Position
    <3>2. CASE queue_start_pos # Unset
      <4>1. queue_start_pos' = queue_start_pos /\ end = queue_end_pos
        BY <3>2 DEF AddPacket
      <4>2. queue_start_pos \in Position /\ queue_end_pos \in Position
        BY <3>2 DEF Inv, TypeOK, PositionsOK
      <4>3. \A i \in 0 .. Count : /\ SlotAt(i) \in Position
                                  /\ SlotAt(i) = queue_end_pos <=> i = Count
        BY <1>2, <4>2, MaxPacketsAssumption DEF Count, IsEmpty, Position, SlotAt
      <4> QED
        BY <4>1, <4>3 DEF SlotAt
    <3> QED
      BY <3>1, <3>2
  <2> QED
    BY <2>1, <2>2, <2>3
<1>5. /\ Append(Contents, p) \in Seq(Packet)
      /\ Len(Append(Contents, p)) = Count + 1
      /\ \A i \in 1 .. Count : Append(Contents, p)[i] = Contents[i]
      /\ Append(Contents, p)[Count + 1] = p
  BY <1>1, AppendProperties DEF ContentsIsSeq
<1>6. \A i \in 1 .. Count + 1 : Contents'[i] = Append(Contents, p)[i]
  <2> SUFFICES ASSUME NEW i \in 1 .. Count + 1
               PROVE  Contents'[i] = Append(Contents, p)[i]
    OBVIOUS
  <2>1. Contents'[i] = packets_queue'[SlotAt(i - 1)']
    BY <1>1, <1>3 DEF ContentsIsSeq
  <2>2. CASE i = Count + 1
    BY <1>2, <1>4, <1>5, <2>1, <2>2
  <2>3. CASE i # Count + 1
    <3>1. i \in 1 .. Count /\ i - 1 \in 0 .. Count - 1
      BY <1>2, <2>3
    <3> QED
      BY <1>1, <1>4, <1>5, <2>1, <3>1 DEF ContentsIsSeq
  <2> QED
    BY <2>2, <2>3
<1>7. Contents' = Append(Contents, p)
  BY <1>1, <1>3, <1>5, <1>6, SeqEqual DEF ContentsIsSeq
<1> QED
  BY <1>2, <1>7, MaxPacketsAssumption

\* A packet injected first becomes the head of the sequence, unless the ring
\* is full: then the two positions meet and the ring reads as empty.
LEMMA InjectPrepends ==
  ASSUME Inv, Inv', NEW p \in Packet, InjectFirst(p)
  PROVE  Contents' = IF Count < MaxPackets - 1 THEN <<p>> \o Contents ELSE <<>>
<1>1. ContentsIsSeq /\ ContentsIsSeq'
  BY ContentsSeq, PTL
<1>2. Count \in 0 .. MaxPackets - 1
  BY MaxPacketsAssumption, CountRange
<1>3. CASE Count = MaxPackets - 1
  <2>1. IsFull /\ ~ IsEmpty
    BY <1>3, CountRange, MaxPacketsAssumption
  <2>2. queue_end_pos \in Position
    BY <2>1 DEF IsFull, Inv, TypeOK, PositionsOK
  <2>3. queue_start_pos' = queue_end_pos /\ queue_end_pos' = queue_end_pos
    BY <2>1, <2>2, MaxPacketsAssumption
       DEF InjectFirst, IsFull, After, Before, Position
  <2>4. Count' = 0
    BY <2>3 DEF Count, IsEmpty
  <2>5. Contents' = <<>>
    BY <1>1, <2>4, EmptySeq DEF ContentsIsSeq
  <2> QED
    BY <1>3, <2>5, MaxPacketsAssumption
<1>4. CASE Count < MaxPackets - 1
  <2> DEFINE front == IF IsEmpty THEN 0 ELSE Before(queue_start_pos)
  <2>1. /\ Count' = Count + 1
        /\ front \in Position
        /\ \A i \in 0 .. Count :
              /\ SlotAt(i)' \in Position
              /\ SlotAt(i)' = front <=> i = 0
              /\ i # 0 => SlotAt(i)' = SlotAt(i - 1)
    <3>1. CASE IsEmpty
      <4>1. Count = 0 /\ queue_start_pos' = 0 /\ queue_end_pos' = 1
        BY <3>1 DEF InjectFirst, Count
      <4> QED
        BY <3>1, <4>1, MaxPacketsAssumption DEF Count, IsEmpty, SlotAt, Position
    <3>2. CASE ~ IsEmpty
      <4>1. /\ queue_start_pos' = Before(queue_start_pos)
            /\ queue_end_pos' = queue_end_pos
        BY <3>2 DEF InjectFirst
      <4>2. queue_start_pos \in Position /\ queue_end_pos \in Position
        BY <3>2 DEF Inv, TypeOK, PositionsOK, IsEmpty
      <4>3. Count' = Count + 1
        BY <1>4, <3>2, <4>1, <4>2, MaxPacketsAssumption
           DEF Count, IsEmpty, Position, Before
      <4>4. front \in Position
        BY <3>2, <4>2, Neighbours
      <4>5. \A i \in 0 .. Count :
              /\ SlotAt(i)' \in Position
              /\ SlotAt(i)' = front <=> i = 0
              /\ i # 0 => SlotAt(i)' = SlotAt(i - 1)
        BY <1>2, <1>4, <3>2, <4>1, <4>2, MaxPacketsAssumption
           DEF SlotAt, Before, Position
      <4> QED
        BY <4>3, <4>4, <4>5
    <3> QED
      BY <3>1, <3>2
  <2>2. packets_queue' = [packets_queue EXCEPT ![front] = p]
        /\ packets_queue \in [Position -> Packet]
    BY DEF InjectFirst, Inv, TypeOK
  <2>3. <<p>> \in Seq(Packet) /\ Len(<<p>>) = 1 /\ <<p>>[1] = p
    OBVIOUS
  <2>4. /\ <<p>> \o Contents \in Seq(Packet)
        /\ Len(<<p>> \o Contents) = Count + 1
        /\ \A i \in 1 .. Count + 1 :
              (<<p>> \o Contents)[i] = IF i = 1 THEN p ELSE Contents[i - 1]
    BY <1>1, <1>2, <2>3, ConcatProperties DEF ContentsIsSeq
  <2>5. \A i \in 1 .. Count + 1 : Contents'[i] = (<<p>> \o Contents)[i]
    <3> SUFFICES ASSUME NEW i \in 1 .. Count + 1
                 PROVE  Contents'[i] = (<<p>> \o Contents)[i]
      OBVIOUS
    <3>1. Contents'[i] = packets_queue'[SlotAt(i - 1)'] /\ i - 1 \in 0 .. Count
      BY <1>1, <1>2, <2>1 DEF ContentsIsSeq
    <3>2. CASE i = 1
      BY <2>1, <2>2, <2>4, <3>1, <3>2
    <3>3. CASE i # 1
      <4>1. i - 1 \in 1 .. Count
        BY <1>2, <3>3
      <4>2. packets_queue'[SlotAt(i - 1)'] = packets_queue[SlotAt(i - 1 - 1)]
        BY <2>1, <2>2, <3>1, <4>1
      <4>3. Contents[i - 1] = packets_queue[SlotAt(i - 1 - 1)]
        BY <1>1, <4>1 DEF ContentsIsSeq
      <4> QED
        BY <2>4, <3>1, <3>3, <4>2, <4>3
    <3> QED
      BY <3>2, <3>3
  <2>6. Contents' = <<p>> \o Contents
    BY <1>1, <2>1, <2>4, <2>5, SeqEqual DEF ContentsIsSeq
  <2> QED
    BY <1>4, <2>6
<1> QED
  BY <1>2, <1>3, <1>4, MaxPacketsAssumption

\* A packet popped was the head of the sequence.
LEMMA PopTakesHead ==
  ASSUME Inv, Inv', PopPacket
  PROVE  /\ Contents # <<>>
         /\ Contents' = Tail(Contents)
         /\ held' # Unset
         /\ packets_queue'[held'] = Head(Contents)
<1>1. ContentsIsSeq /\ ContentsIsSeq'
  BY ContentsSeq, PTL
<1>2. /\ ~ IsEmpty
      /\ queue_start_pos' = After(queue_start_pos)
      /\ queue_end_pos' = queue_end_pos
      /\ packets_queue' = packets_queue
      /\ held' = queue_start_pos
  BY DEF PopPacket
<1>3. queue_start_pos \in Position /\ queue_end_pos \in Position
  BY <1>2 DEF Inv, TypeOK, PositionsOK, IsEmpty
<1>4. Count \in 1 .. MaxPackets - 1
  BY <1>2, CountRange, MaxPacketsAssumption
<1>5. Contents # <<>>
  BY <1>1, <1>4, EmptySeq DEF ContentsIsSeq
<1>6. Count' = Count - 1
  BY <1>2, <1>3, MaxPacketsAssumption DEF Count, IsEmpty, Position, After
<1>7. /\ SlotAt(0) = queue_start_pos
      /\ \A i \in 0 .. Count - 2 : SlotAt(i)' = SlotAt(i + 1)
  BY <1>2, <1>3, <1>4, MaxPacketsAssumption DEF SlotAt, Position, After
<1>8. /\ Tail(Contents) \in Seq(Packet)
      /\ Len(Tail(Contents)) = Count - 1
      /\ \A i \in 1 .. Count - 1 : Tail(Contents)[i] = Contents[i + 1]
  BY <1>1, <1>5, HeadTailProperties DEF ContentsIsSeq
<1>9. \A i \in 1 .. Count - 1 : Contents'[i] = Tail(Contents)[i]
  <2> SUFFICES ASSUME NEW i \in 1 .. Count - 1
               PROVE  Contents'[i] = Tail(Contents)[i]
    OBVIOUS
  <2>1. Contents'[i] = packets_queue'[SlotAt(i - 1)'] /\ i - 1 \in 0 .. Count - 2
    BY <1>1, <1>4, <1>6 DEF ContentsIsSeq
  <2>2. SlotAt(i - 1)' = SlotAt(i)
    BY <1>4, <1>7, <2>1
  <2>3. Contents[i + 1] = packets_queue[SlotAt(i)]
    <3>1. i + 1 \in 1 .. Count /\ (i + 1) - 1 = i
      BY <1>4
    <3> QED
      BY <1>1, <3>1 DEF ContentsIsSeq
  <2> QED
    BY <1>2, <1>8, <2>1, <2>2, <2>3
<1>10. Contents' = Tail(Contents)
  BY <1>1, <1>4, <1>6, <1>8, <1>9, SeqEqual DEF ContentsIsSeq
<1>11. Head(Contents) = packets_queue[queue_start_pos]
  <2>1. Head(Contents) = Contents[1] /\ 1 \in 1 .. Count
    BY <1>1, <1>4, <1>5
  <2>2. Contents[1] = packets_queue[SlotAt(1 - 1)]
    BY <1>1, <2>1 DEF ContentsIsSeq
  <2> QED
    BY <1>7, <2>1, <2>2
<1>12. held' # Unset
  BY <1>2, <1>3 DEF Unset, Position
<1> QED
  BY <1>2, <1>5, <1>10, <1>11, <1>12

InHand == IF held = Unset THEN <<>> ELSE <<packets_queue[held]>>

\* The empty queue, as a sequence.
LEMMA EmptyContents == ASSUME Inv, IsEmpty PROVE Contents = <<>>
<1>1. ContentsIsSeq /\ Count = 0
  BY ContentsSeq DEF Count
<1> QED
  BY <1>1, EmptySeq DEF ContentsIsSeq

\* Every step of the ring is a step of the deque, or leaves it alone.
LEMMA StepRefines ==
  ASSUME Inv, Inv', [Next]_vars
  PROVE  [Deque!Next]_<<Contents, InHand>>
<1>1. ContentsIsSeq /\ ContentsIsSeq'
  BY ContentsSeq, PTL
<1>2. CASE InitQueue
  <2>1. IsEmpty'
    BY <1>2 DEF InitQueue, IsEmpty
  <2>2. Contents' = <<>>
    <3>1. Count' = 0
      BY <2>1 DEF Count
    <3> QED
      BY <1>1, <3>1, EmptySeq DEF ContentsIsSeq
  <2>3. InHand' = <<>>
    BY <1>2 DEF InitQueue, InHand
  <2> QED
    BY <2>2, <2>3 DEF Deque!Next, Deque!Clear, InHand
<1>3. ASSUME NEW p \in Packet, AddPacket(p)
      PROVE  Deque!Add(p)
  <2>1. Count < MaxPackets - 1 /\ Contents' = Append(Contents, p)
    BY <1>3, AddAppends
  <2>2. InHand' = InHand
    <3>1. held' = held
      BY <1>3 DEF AddPacket
    <3>2. held # Unset => packets_queue'[held] = packets_queue[held]
      BY <3>1, StepKeepsHeld
    <3> QED
      BY <3>1, <3>2 DEF InHand
  <2> QED
    BY <1>1, <2>1, <2>2 DEF Deque!Add, ContentsIsSeq, InHand
<1>4. ASSUME NEW p \in Packet, InjectFirst(p)
      PROVE  Deque!Inject(p)
  <2>1. Contents' = IF Count < MaxPackets - 1 THEN <<p>> \o Contents ELSE <<>>
    BY <1>4, InjectPrepends
  <2>2. InHand' = <<>>
    BY <1>4 DEF InjectFirst, InHand
  <2> QED
    BY <1>1, <2>1, <2>2 DEF Deque!Inject, ContentsIsSeq, InHand
<1>5. CASE PopPacket
  <2>1. /\ Contents # <<>>
        /\ Contents' = Tail(Contents)
        /\ InHand' = <<Head(Contents)>>
    BY <1>5, PopTakesHead DEF InHand
  <2> QED
    BY <2>1 DEF Deque!Next, Deque!Take, InHand
<1>6. CASE AddRefused \/ UNCHANGED vars
  <2>1. UNCHANGED vars
    BY <1>6 DEF AddRefused
  <2>2. Contents' = Contents /\ InHand' = InHand
    BY <2>1 DEF vars, Contents, Count, IsEmpty, Peek, SlotAt, InHand
  <2> QED
    BY <2>2
<1> QED
  BY <1>2, <1>3, <1>4, <1>5, <1>6 DEF Next, Deque!Next

\* The ring of slots implements the bounded deque: whatever is added, injected
\* and popped, packets leave in the deque's order, none is lost but by an
\* injection into a full ring, and a packet in hand is the one popped.
THEOREM Refinement == Spec => ImplementsDeque
<1>1. Init => Deque!Init
  <2> SUFFICES ASSUME Init
               PROVE  Deque!Init
    OBVIOUS
  <2>1. Inv /\ IsEmpty
    BY InitInv DEF Init, IsEmpty
  <2> QED
    BY <2>1, EmptyContents DEF Init, Deque!Init
<1>2. Inv /\ Inv' /\ [Next]_vars => [Deque!Next]_<<Contents, InHand>>
  BY StepRefines
<1>3. Init => Inv
  BY InitInv
<1>4. Inv /\ [Next]_vars => Inv'
  BY NextInv
<1> QED
  BY <1>1, <1>2, <1>3, <1>4, PTL DEF Spec, ImplementsDeque, Deque!Spec, InHand
===============================================================================
