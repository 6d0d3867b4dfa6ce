------------------------ MODULE VideoTxBufferProofs ------------------------
(***************************************************************************)
(* Proofs about the vehicle's transmit buffer, for every ring size, block  *)
(* size, set of schemes and frames: types, the numbering of the slots, the *)
(* wholeness of the blocks, the order of what is sent, resends, and the    *)
(* places the packets have in their frame.                                 *)
(***************************************************************************)
EXTENDS VideoTxBuffer, FiniteSetTheorems, WellFoundedInduction, TLAPS

\* How many blocks the send position is behind the fill position.
LagOf(f, s) == IF s <= f THEN f - s ELSE f - s + MaxBlocks
Lag == LagOf(fill, send)

\* What a packet that is there says of its scheme.
HeadersRight ==
  \A s \in Slot, k \in PacketIndex :
    LET p == packets[s][k]
    IN  ~ p.empty => p.data \in 1 .. MaxDataPackets /\ p.ec \in 0 .. p.data

\* The block being filled.
FillingRight ==
  /\ pc = "frame" => frameLeft > 0
  /\ nextPkt > 0 =>
       /\ scheme.data \in 2 .. MaxDataPackets /\ scheme.ec <= scheme.data
       /\ nextPkt < scheme.data
       /\ \A k \in 0 .. nextPkt - 1 :
            LET p == packets[fill][k]
            IN  ~ p.empty /\ p.data = scheme.data /\ p.ec = scheme.ec

\* The send position is at a packet of a finished block, or at the start of
\* the block being filled; and it is right behind what was sent last.
SendRight ==
  LET blk == nextBlk - Lag
  IN  /\ Lag <= nextBlk
      /\ IF Lag = 0 THEN sendPkt = 0
         ELSE sendPkt < packets[send][0].data + packets[send][0].ec
      /\ IF ~ lastSent.known THEN blk = 0 /\ sendPkt = 0
         ELSE IF lastSent.last THEN blk = lastSent.blk + 1 /\ sendPkt = 0
         ELSE blk = lastSent.blk /\ sendPkt = lastSent.idx + 1

IInv ==
  /\ TypeOK /\ FrameEndsBlock /\ SlotsNumbered /\ BlocksWhole
  /\ HeadersRight /\ FillingRight /\ SendRight

-----------------------------------------------------------------------------
(***************************************************************************)
(* Natural numbers.                                                        *)
(***************************************************************************)
\* A set of natural numbers that is not empty has a least member.
LEMMA Least ==
  ASSUME NEW T \in SUBSET Nat, T # {}
  PROVE  \E m \in T : \A k \in T : m <= k
<1>1. PICK m \in T : \A k \in T : ~ (<<k, m>> \in OpToRel(<, Nat))
  BY WFMin, NatLessThanWellFounded, Zenon
<1>2. ASSUME NEW k \in T PROVE m <= k
  <2>1. k \in Nat /\ m \in Nat
    OBVIOUS
  <2>2. ~ (<<k, m>> \in OpToRel(<, Nat))
    BY <1>1, Zenon
  <2>3. ~ (k < m)
    BY <2>1, <2>2, Zenon DEF OpToRel
  <2> QED
    BY <2>1, <2>3
<1> QED
  BY <1>2

\* A bounded one has a greatest.
LEMMA Greatest ==
  ASSUME NEW T, T # {}, NEW b \in Nat, T \subseteq 0 .. b
  PROVE  \E m \in T : \A k \in T : k <= m
<1> DEFINE U == {u \in 0 .. b : b - u \in T}
<1>1. PICK t : t \in T
  OBVIOUS
<1>2. b - t \in U
  BY <1>1
<1>3. U \in SUBSET Nat /\ U # {}
  BY <1>2
<1>4. PICK u \in U : \A v \in U : u <= v
  BY <1>3, Least
<1>5. b - u \in T
  OBVIOUS
<1>6. ASSUME NEW k \in T PROVE k <= b - u
  <2>1. k \in 0 .. b /\ b - (b - k) = k
    OBVIOUS
  <2>2. b - k \in U
    BY <2>1
  <2> QED
    BY <1>4, <2>1, <2>2
<1> QED
  BY <1>5, <1>6

\* Induction up to n, over the set of the numbers a statement holds for.
LEMMA Induction ==
  ASSUME NEW n \in Nat, NEW S, 0 \in S, \A m \in 0 .. n - 1 : m \in S => m + 1 \in S
  PROVE  \A m \in 0 .. n : m \in S
<1> DEFINE T == {m \in 0 .. n : m \notin S}
<1>1. SUFFICES ASSUME T # {} PROVE FALSE
  OBVIOUS
<1>2. T \in SUBSET Nat
  OBVIOUS
<1> HIDE DEF T
<1>3. PICK m \in T : \A k \in T : m <= k
  BY <1>1, <1>2, Least
<1>4. m \in 0 .. n /\ m \notin S /\ m # 0
  BY DEF T
<1>5. m - 1 \in 0 .. n - 1 /\ m - 1 \notin T
  BY <1>2, <1>3, <1>4
<1> QED
  BY <1>4, <1>5 DEF T

-----------------------------------------------------------------------------
(***************************************************************************)
(* Positions in the ring.                                                  *)
(***************************************************************************)
LEMMA RingFacts ==
  ASSUME NEW f \in Slot
  PROVE  /\ Back(f, 0) = f
         /\ \A d \in 0 .. MaxBlocks - 1 : Back(f, d) \in Slot /\ (d > 0 => Back(f, d) # f)
         /\ After(f) \in Slot /\ After(f) # f
         /\ Back(After(f), 0) = After(f)
         /\ \A d \in 1 .. MaxBlocks - 1 : /\ Back(After(f), d) = Back(f, d - 1)
                                          /\ Back(f, d - 1) # After(f)
BY TxBufferAssumption DEF Slot, Back, After

LEMMA NextRingFacts ==
  ASSUME NEW f \in Slot
  PROVE  /\ After(f) \in Slot /\ After(f) # f /\ Back(After(f), 0) = After(f)
         /\ \A d \in 1 .. MaxBlocks - 1 : /\ Back(After(f), d) = Back(f, d - 1)
                                          /\ Back(After(f), d) # After(f)
                                          /\ Back(After(f), d) \in Slot
                                          /\ Back(After(f), d) = f <=> d = 1
BY TxBufferAssumption DEF Slot, Back, After

LEMMA LagFacts ==
  ASSUME NEW f \in Slot, NEW s \in Slot
  PROVE  /\ LagOf(f, s) \in 0 .. MaxBlocks - 1
         /\ Back(f, LagOf(f, s)) = s
         /\ LagOf(f, s) = 0 <=> s = f
         /\ After(f) # s => LagOf(After(f), s) = LagOf(f, s) + 1
         /\ s # f => LagOf(f, After(s)) = LagOf(f, s) - 1
BY TxBufferAssumption DEF Slot, Back, After, LagOf

LEMMA SizeFacts ==
  /\ 0 \in Slot
  /\ \A n, m \in Nat : n <= MaxDataPackets /\ m < 2 * n => m \in PacketIndex
  /\ \A s \in Schemes : /\ s \in SchemeType
                        /\ 2 <= s.data /\ s.data <= MaxDataPackets /\ s.ec <= s.data
BY TxBufferAssumption DEF Slot, PacketIndex, SchemeType

-----------------------------------------------------------------------------
(***************************************************************************)
(* Schemes.                                                                *)
(***************************************************************************)
Usable(s) ==
  /\ s \in SchemeType
  /\ s.data \in 1 .. MaxDataPackets /\ s.ec <= s.data

\* A share of what is no more than x times d is no more than x.
LEMMA Quotient ==
  ASSUME NEW x \in Nat, NEW d \in Nat \ {0}, NEW e \in Nat, e <= d
  PROVE  (x * e) \div d \in Nat /\ (x * e) \div d <= x
<1>1. x * e \in Nat /\ x * d \in Nat /\ x * e <= x * d
  OBVIOUS
<1> DEFINE q == (x * e) \div d
<1>2. q \in Nat /\ d * q <= x * e
  BY <1>1
<1>3. SUFFICES ASSUME q >= x + 1 PROVE FALSE
  BY <1>2
<1> HIDE DEF q
<1>4. d * q >= d * (x + 1)
  BY <1>2, <1>3
<1> QED
  BY <1>1, <1>2, <1>4

LEMMA StartUsable ==
  ASSUME NEW next \in Schemes, NEW left \in Nat
  PROVE  Usable(StartScheme(next, left)) /\ StartScheme(next, left).data >= 2
<1>1. /\ next.data \in Nat \ {0} /\ next.ec \in Nat
      /\ next \in SchemeType
      /\ 2 <= next.data /\ next.data <= MaxDataPackets /\ next.ec <= next.data
  BY SizeFacts DEF SchemeType
<1>2. (left * next.ec) \div next.data \in Nat /\ (left * next.ec) \div next.data <= left
  BY <1>1, Quotient
<1> QED
  BY <1>1, <1>2, TxBufferAssumption DEF StartScheme, Usable, SchemeType

LEMMA CutUsable ==
  ASSUME NEW s, Usable(s), NEW k \in Nat, s.data >= 2, k < s.data
  PROVE  LET c == CutScheme(s, k)
         IN  /\ Usable(c) /\ c.data = k + 1
             /\ c.data = 1 => c.ec = 0
             /\ k = s.data - 1 => c = s
<1>1. s \in SchemeType /\ s.data \in Nat \ {0} /\ s.ec \in Nat /\ s.data <= MaxDataPackets
  BY DEF Usable, SchemeType
<1>2. ((k + 1) * s.ec) \div s.data \in Nat
  BY <1>1, Quotient DEF Usable
<1> QED
  BY <1>1, <1>2, TxBufferAssumption DEF CutScheme, Usable, SchemeType

-----------------------------------------------------------------------------
(***************************************************************************)
(* What a step makes of the packets.                                       *)
(***************************************************************************)
Ring == [Slot -> [PacketIndex -> PacketType]]

\* The same packet, but for its place in the frame.
Alike(p, q) ==
  /\ p.empty = q.empty /\ p.blk = q.blk /\ p.idx = q.idx
  /\ p.data = q.data /\ p.ec = q.ec /\ p.frame = q.frame

\* The places in a frame are written into its packets, and nothing else is.
LEMMA PlacedFacts ==
  ASSUME NEW ring \in Ring, NEW end, NEW count \in Nat, frameSize \in Nat
  PROVE  /\ Placed(ring, end, count) \in Ring
         /\ \A s \in Slot, k \in PacketIndex :
              /\ Alike(Placed(ring, end, count)[s][k], ring[s][k])
              /\ ring[s][k].frame # frame => Placed(ring, end, count)[s][k] = ring[s][k]
<1> DEFINE steps   == IF count = 0 THEN 1 ELSE count
           back    == WalkBack(ring, end, steps)
           At(n)   == ring[back[n].slot][back[n].pkt]
           reached == {n \in 1 .. steps : \A m \in 1 .. n : At(m).frame = frame}
           Place(n) == frameSize - 1 - Cardinality({m \in 1 .. n - 1 : IsData(At(m))})
           Visits(s, k) == {n \in reached : back[n] = [slot |-> s, pkt |-> k]}
           placed == [s \in Slot |-> [k \in PacketIndex |->
              IF Visits(s, k) = {} THEN ring[s][k]
              ELSE [ring[s][k] EXCEPT !.info =
                      Place(CHOOSE n \in Visits(s, k) : \A m \in Visits(s, k) : m <= n)]]]
<1>1. Placed(ring, end, count) = placed
  BY DEF Placed
<1>2. \A n \in 1 .. steps : Place(n) \in Int
  <2> SUFFICES ASSUME NEW n \in 1 .. steps PROVE Place(n) \in Int
    OBVIOUS
  <2>1. n \in Int
    OBVIOUS
  <2> HIDE DEF At
  <2>2. IsFiniteSet(1 .. n - 1)
    BY <2>1, FS_Interval
  <2>3. IsFiniteSet({m \in 1 .. n - 1 : IsData(At(m))})
    BY <2>2, FS_Subset
  <2>4. Cardinality({m \in 1 .. n - 1 : IsData(At(m))}) \in Nat
    BY <2>3, FS_CardinalityType
  <2> QED
    BY <2>4
<1>3. \A s \in Slot, k \in PacketIndex : Visits(s, k) \subseteq 1 .. steps
  OBVIOUS
<1>7. steps \in Nat
  OBVIOUS
<1>9. ASSUME NEW s \in Slot, NEW k \in PacketIndex, Visits(s, k) # {}
      PROVE  ring[s][k].frame = frame
  <2>1. PICK n \in 1 .. steps : At(n).frame = frame /\ back[n] = [slot |-> s, pkt |-> k]
    BY <1>9
  <2> HIDE DEF back
  <2> QED
    BY <2>1
<1>8. ASSUME NEW s \in Slot, NEW k \in PacketIndex, Visits(s, k) # {}
      PROVE  (CHOOSE n \in Visits(s, k) : \A m \in Visits(s, k) : m <= n) \in 1 .. steps
  <2> HIDE DEF Visits, steps
  <2>1. Visits(s, k) \subseteq 0 .. steps
    BY <1>3, <1>7
  <2>2. \E n \in Visits(s, k) : \A m \in Visits(s, k) : m <= n
    BY <1>7, <1>8, <2>1, Greatest
  <2> QED
    BY <1>3, <2>2
<1> HIDE DEF steps, back, At, reached, Place, Visits
<1>4. \A s \in Slot, k \in PacketIndex :
        /\ ring[s][k] \in PacketType
        /\ Visits(s, k) # {} =>
             Place(CHOOSE n \in Visits(s, k) : \A m \in Visits(s, k) : m <= n) \in Int
  BY <1>2, <1>8 DEF Ring
<1>5. \A s \in Slot, k \in PacketIndex :
        /\ placed[s][k] \in PacketType /\ Alike(placed[s][k], ring[s][k])
        /\ ring[s][k].frame # frame => placed[s][k] = ring[s][k]
  BY <1>4, <1>9 DEF PacketType, Alike
<1>6. placed \in Ring
  BY <1>5 DEF Ring
<1> QED
  BY <1>1, <1>5, <1>6

\* A packet of the block being filled that is there is the right one.
Right(p, k) ==
  ~ p.empty => /\ p.blk = nextBlk /\ p.idx = k
               /\ p.data \in 1 .. MaxDataPackets /\ p.ec \in 0 .. p.data

\* The slot being filled after a data packet, and the EC packets up to `last'.
LEMMA FilledFacts ==
  ASSUME IInv, pc = "frame", NEW s, Usable(s), nextPkt < s.data,
         nextPkt > 0 /\ (frameLeft # 1 \/ nextPkt >= scheme.data - 1) => s = scheme,
         NEW last \in Nat, nextPkt < last
  PROVE  LET slot   == IF nextPkt = 0 THEN Emptied(packets[fill]) ELSE packets[fill]
             filled == Filled(slot, s, last)
         IN  /\ filled \in [PacketIndex -> PacketType]
             /\ \A k \in PacketIndex :
                  /\ Right(filled[k], k)
                  /\ k < last => /\ ~ filled[k].empty
                                /\ filled[k].data = s.data /\ filled[k].ec = s.ec
<1> DEFINE slot   == IF nextPkt = 0 THEN Emptied(packets[fill]) ELSE packets[fill]
           filled == Filled(slot, s, last)
<1>1. /\ fill \in Slot /\ nextPkt \in Nat /\ nextBlk \in Nat /\ frame \in Nat
      /\ packets[fill] \in [PacketIndex -> PacketType]
      /\ PacketIndex \subseteq Nat
  BY DEF IInv, TypeOK, PacketIndex
<1>2. /\ s.data \in 1 .. MaxDataPackets /\ s.data \in Nat /\ s.ec \in Nat /\ s.ec \in 0 .. s.data
  BY DEF Usable, SchemeType
<1>3. slot \in [PacketIndex -> PacketType]
  BY <1>1 DEF Emptied, PacketType
<1>4. \A k \in PacketIndex :
        /\ Right(slot[k], k)
        /\ k < nextPkt => /\ ~ slot[k].empty
                         /\ slot[k].data = scheme.data /\ slot[k].ec = scheme.ec
  <2> SUFFICES ASSUME NEW k \in PacketIndex
               PROVE  /\ Right(slot[k], k)
                      /\ k < nextPkt => /\ ~ slot[k].empty
                                       /\ slot[k].data = scheme.data /\ slot[k].ec = scheme.ec
    OBVIOUS
  <2>1. CASE nextPkt = 0
    <3>1. slot[k].empty
      BY <1>1, <2>1 DEF Emptied, PacketType
    <3>2. ~ (k < nextPkt)
      BY <1>1, <2>1
    <3> QED
      BY <3>1, <3>2 DEF Right
  <2>2. CASE nextPkt # 0
    <3>1. slot[k] = packets[fill][k] /\ nextPkt > 0 /\ nextBlk + nextPkt > 0
      BY <1>1, <2>2
    <3>2. ~ packets[fill][k].empty => packets[fill][k].blk = nextBlk /\ packets[fill][k].idx = k
      <4>1. Back(fill, 0) = fill /\ 0 \in 0 .. MaxBlocks - 1 /\ 0 <= nextBlk
        BY <1>1, RingFacts, TxBufferAssumption
      <4> QED
        BY <1>1, <3>1, <4>1 DEF IInv, SlotsNumbered
    <3>3. ~ packets[fill][k].empty =>
            packets[fill][k].data \in 1 .. MaxDataPackets /\ packets[fill][k].ec \in 0 .. packets[fill][k].data
      BY <1>1 DEF IInv, HeadersRight
    <3>4. k < nextPkt => k \in 0 .. nextPkt - 1
      BY <1>1
    <3> QED
      BY <3>1, <3>2, <3>3, <3>4 DEF IInv, FillingRight, Right
  <2> QED
    BY <2>1, <2>2
<1> HIDE DEF slot
<1>5. \A k \in PacketIndex : Header(k, s) \in PacketType
  <2> SUFFICES ASSUME NEW k \in PacketIndex PROVE Header(k, s) \in PacketType
    OBVIOUS
  <2>1. k \in Nat
    BY <1>1
  <2> QED
    BY <1>1, <1>2, <2>1 DEF Header, PacketType
<1>6. filled = [k \in PacketIndex |->
                  IF nextPkt <= k /\ k < last THEN Header(k, s)
                  ELSE IF k < nextPkt /\ frameLeft = 1 /\ nextPkt < scheme.data - 1
                    THEN [slot[k] EXCEPT !.data = s.data, !.ec = s.ec]
                  ELSE slot[k]]
  BY DEF Filled
<1> HIDE DEF filled
<1>7. ASSUME NEW k \in PacketIndex
      PROVE  /\ filled[k] \in PacketType
             /\ Right(filled[k], k)
             /\ k < last => /\ ~ filled[k].empty
                           /\ filled[k].data = s.data /\ filled[k].ec = s.ec
  <2>0. slot[k] \in PacketType /\ k \in Nat
    BY <1>1, <1>3
  <2>1. CASE nextPkt <= k /\ k < last
    <3>1. filled[k] = Header(k, s)
      BY <1>6, <2>1
    <3> QED
      BY <1>2, <1>5, <3>1 DEF Right, Header
  <2>2. CASE k < nextPkt /\ frameLeft = 1 /\ nextPkt < scheme.data - 1
    <3>0. ~ (nextPkt <= k)
      BY <1>1, <2>0, <2>2
    <3>1. filled[k] = [slot[k] EXCEPT !.data = s.data, !.ec = s.ec]
      BY <1>6, <2>2, <3>0
    <3> QED
      BY <1>2, <1>4, <2>0, <2>2, <3>1 DEF Right, PacketType
  <2>3. CASE k < nextPkt /\ ~ (frameLeft = 1 /\ nextPkt < scheme.data - 1)
    <3>0. ~ (nextPkt <= k)
      BY <1>1, <2>0, <2>3
    <3>1. filled[k] = slot[k]
      BY <1>6, <2>3, <3>0
    <3>2. s = scheme
      <4>1. nextPkt > 0
        BY <1>1, <2>0, <2>3
      <4>2. scheme.data \in Nat
        BY DEF IInv, TypeOK, SchemeType
      <4> QED
        BY <1>1, <2>3, <4>1, <4>2
    <3> QED
      BY <1>4, <2>0, <2>3, <3>1, <3>2
  <2>4. CASE last <= k
    <3>0. ~ (k < last) /\ ~ (k < nextPkt)
      BY <1>1, <2>0, <2>4
    <3>1. filled[k] = slot[k]
      BY <1>6, <3>0
    <3> QED
      BY <1>4, <2>0, <3>0, <3>1
  <2> QED
    BY <1>1, <2>0, <2>1, <2>2, <2>3, <2>4
<1>8. filled \in [PacketIndex -> PacketType]
  BY <1>6, <1>7
<1> QED
  BY <1>7, <1>8 DEF slot, filled

LEMMA EmptiedFacts ==
  ASSUME NEW slot \in [PacketIndex -> PacketType]
  PROVE  /\ Emptied(slot) \in [PacketIndex -> PacketType]
         /\ \A k \in PacketIndex : Emptied(slot)[k].empty
BY DEF Emptied, PacketType

\* The ring when the packets up to `last' of the slot being filled are
\* written, and the next slot is opened.
FilledSlot(last) ==
  Filled(IF nextPkt = 0 THEN Emptied(packets[fill]) ELSE packets[fill], scheme', last)
Slots(last)   == [packets EXCEPT ![fill] = FilledSlot(last)]
Done(last)    == last >= scheme'.data + scheme'.ec
Full(last)    == Done(last) /\ After(fill) = send
Opened(last)  ==
  IF Done(last) THEN [Slots(last) EXCEPT ![IF Full(last) THEN 0 ELSE After(fill)] = Emptied(@)]
  ELSE Slots(last)
Count(last)   == IF Full(last) THEN added ELSE added + last - nextPkt

\* What AddPacket does, by the last packet it writes.
AddsUpTo(last) ==
  /\ \/ Full(last) /\ Discard
     \/ /\ Done(last) /\ ~ Full(last)
        /\ nextBlk' = nextBlk + 1 /\ nextPkt' = 0 /\ fill' = After(fill)
        /\ UNCHANGED <<send, sendPkt, lastSent>>
     \/ /\ ~ Done(last)
        /\ nextPkt' = last /\ UNCHANGED <<nextBlk, fill, send, sendPkt, lastSent>>
  /\ \/ /\ frameLeft = 1
        /\ packets' = Placed(Opened(last), [slot |-> fill', pkt |-> nextPkt'], Count(last))
        /\ pc' = "idle" /\ frameSize' = 0 /\ added' = 0
     \/ /\ frameLeft # 1
        /\ packets' = Opened(last) /\ added' = Count(last)
        /\ UNCHANGED <<pc, frameSize>>
  /\ pc = "frame" /\ frameLeft' = frameLeft - 1

LEMMA AddPacketCases ==
  ASSUME IInv, AddPacket
  PROVE  /\ Usable(scheme') /\ nextPkt < scheme'.data
         /\ nextPkt > 0 /\ (frameLeft # 1 \/ nextPkt >= scheme.data - 1) => scheme' = scheme
         /\ \E last \in Nat :
              /\ AddsUpTo(last)
              /\ nextPkt < last
              /\ Done(last) => last = scheme'.data + scheme'.ec /\ nextPkt + 1 = scheme'.data
              /\ ~ Done(last) => last = nextPkt + 1 /\ last < scheme'.data /\ frameLeft > 1
<1> DEFINE s0    == IF nextPkt = 0 THEN StartScheme(nextScheme, frameLeft) ELSE scheme
           s     == IF frameLeft = 1 THEN CutScheme(s0, nextPkt) ELSE s0
           hasEC == nextPkt + 1 >= s.data /\ s.data > 1
           last  == IF hasEC THEN nextPkt + 1 + s.ec ELSE nextPkt + 1
<1>1. scheme' = s
  BY DEF AddPacket
<1>2. AddsUpTo(last)
  BY <1>1 DEF AddPacket, AddsUpTo, FilledSlot, Slots, Done, Full, Opened, Count
<1>3. /\ fill \in Slot /\ nextPkt \in Nat /\ nextBlk \in Nat /\ frameLeft \in Nat /\ frameLeft > 0
      /\ frameSize \in Nat /\ added \in Nat /\ nextScheme \in Schemes /\ scheme \in SchemeType
      /\ packets \in Ring /\ PacketIndex \subseteq Nat
  BY <1>2 DEF AddsUpTo, IInv, TypeOK, Ring, FillingRight, PacketIndex
<1>4. Usable(s0) /\ s0.data >= 2 /\ nextPkt < s0.data
  <2>1. CASE nextPkt = 0
    BY <1>3, <2>1, StartUsable DEF Usable, SchemeType
  <2>2. CASE nextPkt # 0
    BY <1>3, <2>2 DEF Usable, SchemeType, IInv, FillingRight
  <2> QED
    BY <2>1, <2>2
<1>5. /\ Usable(s) /\ nextPkt < s.data /\ s.data \in Nat /\ s.ec \in Nat
      /\ s.data = 1 => s.ec = 0
      /\ frameLeft = 1 => nextPkt + 1 = s.data
      /\ nextPkt > 0 /\ (frameLeft # 1 \/ nextPkt >= scheme.data - 1) => s = scheme
  <2> HIDE DEF s0
  <2>1. CASE frameLeft = 1
    <3>1. /\ s = CutScheme(s0, nextPkt)
          /\ Usable(s) /\ s.data = nextPkt + 1
          /\ s.data = 1 => s.ec = 0
          /\ nextPkt = s0.data - 1 => s = s0
      BY <1>3, <1>4, <2>1, CutUsable
    <3>2. s.data \in Nat /\ s.ec \in Nat /\ s0.data \in Nat
      BY <1>4, <3>1 DEF Usable, SchemeType
    <3>3. nextPkt > 0 => s0 = scheme
      BY <1>3 DEF s0
    <3> HIDE DEF s
    <3>4. nextPkt > 0 /\ nextPkt >= scheme.data - 1 => s = scheme
      BY <1>3, <1>4, <3>1, <3>2, <3>3
    <3> QED
      BY <1>3, <2>1, <3>1, <3>2, <3>4
  <2>2. CASE frameLeft # 1
    <3>1. s = s0
      BY <2>2
    <3> QED
      BY <1>3, <1>4, <2>2, <3>1 DEF Usable, SchemeType, s0
  <2> QED
    BY <2>1, <2>2
<1> HIDE DEF s0, s
<1>6. /\ last \in Nat /\ nextPkt < last
      /\ Done(last) => last = scheme'.data + scheme'.ec /\ nextPkt + 1 = scheme'.data
      /\ ~ Done(last) => last = nextPkt + 1 /\ last < scheme'.data /\ frameLeft > 1
  BY <1>1, <1>3, <1>5 DEF Done
<1> HIDE DEF last
<1> QED
  BY <1>1, <1>5, <1>6, <1>2

\* The slot being filled and the one opened, once the packets are written.
LEMMA OpenedFacts ==
  ASSUME IInv, AddPacket, NEW last \in Nat, AddsUpTo(last), nextPkt < last
  PROVE  /\ FilledSlot(last) \in [PacketIndex -> PacketType]
         /\ \A k \in PacketIndex :
              LET p == FilledSlot(last)[k]
              IN  /\ Right(p, k)
                  /\ k < last => ~ p.empty /\ p.data = scheme'.data /\ p.ec = scheme'.ec
         /\ Opened(last) \in Ring
         /\ ~ Full(last) => Opened(last)[fill] = FilledSlot(last)
         /\ Full(last) => fill = 0 \/ Opened(last)[fill] = FilledSlot(last)
         /\ \A t \in Slot :
              t # fill /\ (Done(last) => t # IF Full(last) THEN 0 ELSE After(fill)) =>
                Opened(last)[t] = packets[t]
         /\ Done(last) => \A k \in PacketIndex : Opened(last)[IF Full(last) THEN 0 ELSE After(fill)][k].empty
<1> DEFINE filled == FilledSlot(last)
           slots  == Slots(last)
           ring   == Opened(last)
           open   == IF Full(last) THEN 0 ELSE After(fill)
<1>1. fill \in Slot /\ packets \in Ring /\ pc = "frame"
  BY DEF AddsUpTo, IInv, TypeOK, Ring
<1>2. /\ Usable(scheme') /\ nextPkt < scheme'.data
      /\ nextPkt > 0 /\ (frameLeft # 1 \/ nextPkt >= scheme.data - 1) => scheme' = scheme
  BY AddPacketCases
<1>3. /\ filled \in [PacketIndex -> PacketType]
      /\ \A k \in PacketIndex :
           /\ Right(filled[k], k)
           /\ k < last => /\ ~ filled[k].empty
                         /\ filled[k].data = scheme'.data /\ filled[k].ec = scheme'.ec
  BY <1>1, <1>2, FilledFacts DEF FilledSlot
<1>4. slots = [packets EXCEPT ![fill] = filled]
  BY DEF Slots
<1> HIDE DEF filled, slots
<1>5. /\ slots \in Ring /\ slots[fill] = filled
      /\ \A t \in Slot : t # fill => slots[t] = packets[t]
  BY <1>1, <1>3, <1>4 DEF Ring
<1>6. open \in Slot /\ After(fill) # fill
  BY <1>1, SizeFacts, RingFacts
<1>7. CASE ~ Done(last)
  <2>1. ring = slots
    BY <1>7 DEF Opened, slots
  <2> QED
    BY <1>3, <1>5, <1>7, <2>1 DEF Full, filled
<1>8. CASE Done(last)
  <2>1. ring = [slots EXCEPT ![open] = Emptied(@)]
    BY <1>8 DEF Opened, slots
  <2> HIDE DEF open, ring
  <2>2. /\ Emptied(slots[open]) \in [PacketIndex -> PacketType]
        /\ \A k \in PacketIndex : Emptied(slots[open])[k].empty
    BY <1>5, <1>6, EmptiedFacts DEF Ring
  <2>3. /\ ring \in Ring
        /\ \A k \in PacketIndex : ring[open][k].empty
        /\ \A t \in Slot : t # open => ring[t] = slots[t]
    BY <1>5, <1>6, <2>1, <2>2 DEF Ring
  <2>4. open # fill \/ open = 0
    BY <1>6 DEF open
  <2>5. ~ Full(last) => open # fill
    BY <1>6 DEF open
  <2>6. open # fill => ring[fill] = filled
    BY <1>1, <1>5, <2>3
  <2>7. \A t \in Slot : t # fill /\ t # open => ring[t] = packets[t]
    BY <1>5, <2>3
  <2> QED
    BY <1>3, <1>8, <2>3, <2>4, <2>5, <2>6, <2>7 DEF ring, open, filled
<1> QED
  BY <1>7, <1>8

\* What AddPacket makes of the slots.
Untouched(s) == \A k \in PacketIndex : Alike(packets'[s][k], packets[s][k])

FilledUpTo(last) ==
  \A k \in PacketIndex :
    LET p == packets'[fill][k]
    IN  /\ Right(p, k)
        /\ k < last => ~ p.empty /\ p.data = scheme'.data /\ p.ec = scheme'.ec

BlockGoesOn ==
  /\ pc' = "frame" /\ frameLeft' > 0
  /\ nextPkt' = nextPkt + 1 /\ nextPkt' < scheme'.data
  /\ UNCHANGED <<nextBlk, fill, send, sendPkt, lastSent>>
  /\ \A s \in Slot : s # fill => Untouched(s)
  /\ FilledUpTo(nextPkt + 1)

BlockEnds ==
  /\ After(fill) # send
  /\ nextBlk' = nextBlk + 1 /\ nextPkt' = 0 /\ fill' = After(fill)
  /\ UNCHANGED <<send, sendPkt, lastSent>>
  /\ \A s \in Slot : s # fill /\ s # After(fill) => Untouched(s)
  /\ FilledUpTo(scheme'.data + scheme'.ec)
  /\ \A k \in PacketIndex : packets'[After(fill)][k].empty

LEMMA AddPacketEffect ==
  ASSUME IInv, AddPacket
  PROVE  /\ packets' \in Ring /\ Usable(scheme')
         /\ frameSize' \in Nat /\ frameLeft' \in Nat /\ added' \in Nat
         /\ \/ pc' = "frame" /\ frameLeft' > 0
            \/ pc' = "idle" /\ nextPkt' = 0
         /\ BlockGoesOn \/ BlockEnds \/ (Discard /\ HeadersRight')
<1>0. PICK last \in Nat :
        /\ AddsUpTo(last)
        /\ nextPkt < last
        /\ Done(last) => last = scheme'.data + scheme'.ec
        /\ ~ Done(last) => last = nextPkt + 1 /\ last < scheme'.data /\ frameLeft > 1
  BY AddPacketCases
<1> DEFINE filled == FilledSlot(last)
           done   == Done(last)
           full   == Full(last)
           ring   == Opened(last)
           count  == Count(last)
<1>1. /\ \/ full /\ Discard
         \/ /\ done /\ ~ full
            /\ nextBlk' = nextBlk + 1 /\ nextPkt' = 0 /\ fill' = After(fill)
            /\ UNCHANGED <<send, sendPkt, lastSent>>
         \/ /\ ~ done
            /\ nextPkt' = last /\ UNCHANGED <<nextBlk, fill, send, sendPkt, lastSent>>
      /\ \/ /\ frameLeft = 1
            /\ packets' = Placed(ring, [slot |-> fill', pkt |-> nextPkt'], count)
            /\ pc' = "idle" /\ frameSize' = 0 /\ added' = 0
         \/ /\ frameLeft # 1
            /\ packets' = ring /\ added' = count
            /\ UNCHANGED <<pc, frameSize>>
      /\ pc = "frame" /\ frameLeft' = frameLeft - 1
  BY <1>0 DEF AddsUpTo
<1>2. /\ fill \in Slot /\ nextPkt \in Nat /\ nextBlk \in Nat /\ frameLeft \in Nat /\ frameLeft > 0
      /\ frameSize \in Nat /\ added \in Nat /\ nextScheme \in Schemes /\ scheme \in SchemeType
      /\ packets \in Ring /\ PacketIndex \subseteq Nat
  BY <1>1 DEF IInv, TypeOK, Ring, FillingRight, PacketIndex
<1>4. /\ Usable(scheme') /\ nextPkt < scheme'.data /\ scheme'.data \in Nat /\ scheme'.ec \in Nat
      /\ nextPkt > 0 /\ (frameLeft # 1 \/ nextPkt >= scheme.data - 1) => scheme' = scheme
  BY AddPacketCases DEF Usable, SchemeType
<1>5. /\ full => done /\ After(fill) = send
      /\ done => last = scheme'.data + scheme'.ec
      /\ ~ done => last = nextPkt + 1 /\ last < scheme'.data /\ frameLeft > 1
      /\ done /\ ~ full => After(fill) # send
  BY <1>0 DEF Full
<1>6. \A k \in PacketIndex :
        /\ Right(filled[k], k)
        /\ k < last => /\ ~ filled[k].empty
                      /\ filled[k].data = scheme'.data /\ filled[k].ec = scheme'.ec
  BY <1>0, OpenedFacts
<1>8. /\ ring \in Ring
      /\ ~ full => ring[fill] = filled
      /\ full => fill = 0 \/ ring[fill] = filled
      /\ \A t \in Slot : t # fill /\ (done => t # IF full THEN 0 ELSE After(fill)) => ring[t] = packets[t]
      /\ done => \A k \in PacketIndex : ring[IF full THEN 0 ELSE After(fill)][k].empty
  BY <1>0, OpenedFacts
<1> HIDE DEF filled, done, full, ring
<1>9. count \in Nat
  BY <1>0, <1>2 DEF Count
<1> HIDE DEF count
<1>10. /\ packets' \in Ring
       /\ \A t \in Slot, k \in PacketIndex : Alike(packets'[t][k], ring[t][k])
  BY <1>1, <1>2, <1>8, <1>9, PlacedFacts DEF Alike
<1>11. FilledUpTo(last) \/ fill = After(fill) \/ full
  <2> SUFFICES ASSUME fill # After(fill), ~ full PROVE FilledUpTo(last)
    OBVIOUS
  <2>1. ring[fill] = filled
    BY <1>8
  <2>2. \A k \in PacketIndex : Alike(packets'[fill][k], filled[k])
    BY <1>2, <1>10, <2>1
  <2> QED
    BY <1>1, <1>6, <2>2 DEF FilledUpTo, Alike, Right
<1>12. fill # After(fill) /\ After(fill) \in Slot
  BY <1>2, RingFacts
<1>13. \A t \in Slot : ring[t] = packets[t] => Untouched(t)
  BY <1>10 DEF Untouched
<1>14. /\ frameSize' \in Nat /\ frameLeft' \in Nat /\ added' \in Nat
       /\ \/ pc' = "frame" /\ frameLeft' > 0
          \/ pc' = "idle" /\ nextPkt' = 0
  <2>1. frameLeft = 1 => done
    BY <1>5
  <2>2. done => nextPkt' = 0
    BY <1>1 DEF Discard
  <2> QED
    BY <1>1, <1>2, <1>9, <2>1, <2>2
<1>15. BlockGoesOn \/ BlockEnds \/ (Discard /\ HeadersRight')
  <2>1. CASE ~ done
    <3>1. nextPkt' = last /\ UNCHANGED <<nextBlk, fill, send, sendPkt, lastSent>>
      BY <1>1, <1>5, <2>1
    <3>2. pc' = "frame" /\ frameLeft' > 0
      BY <1>1, <1>2, <1>5, <2>1
    <3>3. last = nextPkt + 1 /\ last < scheme'.data
      BY <1>1, <1>5, <2>1
    <3>4. FilledUpTo(nextPkt + 1)
      BY <1>5, <1>11, <1>12, <2>1, <3>3
    <3>5. \A t \in Slot : t # fill => Untouched(t)
      BY <1>8, <1>13, <2>1
    <3> QED
      BY <3>1, <3>2, <3>3, <3>4, <3>5 DEF BlockGoesOn
  <2>2. CASE done /\ ~ full
    <3>1. /\ nextBlk' = nextBlk + 1 /\ nextPkt' = 0 /\ fill' = After(fill)
          /\ UNCHANGED <<send, sendPkt, lastSent>>
      BY <1>1, <2>2
    <3>2. FilledUpTo(scheme'.data + scheme'.ec)
      BY <1>1, <1>5, <1>11, <1>12, <2>2
    <3>3. \A t \in Slot : t # fill /\ t # After(fill) => Untouched(t)
      BY <1>8, <1>13, <2>2
    <3>4. \A k \in PacketIndex : packets'[After(fill)][k].empty
      BY <1>8, <1>10, <1>12, <2>2 DEF Alike
    <3> QED
      BY <1>5, <2>2, <3>1, <3>2, <3>3, <3>4 DEF BlockEnds
  <2>3. CASE full
    <3>1. Discard
      BY <1>1, <1>5, <2>3
    <3>2. ASSUME NEW t \in Slot, NEW k \in PacketIndex, ~ ring[t][k].empty
          PROVE  ring[t][k].data \in 1 .. MaxDataPackets /\ ring[t][k].ec \in 0 .. ring[t][k].data
      <4>1. t # 0
        BY <1>5, <1>8, <2>3, <3>2
      <4>2. CASE t = fill
        BY <1>6, <1>8, <2>3, <3>2, <4>1, <4>2 DEF Right
      <4>3. CASE t # fill
        <5>1. ring[t] = packets[t]
          BY <1>8, <2>3, <4>1, <4>3
        <5> QED
          BY <3>2, <5>1 DEF IInv, HeadersRight
      <4> QED
        BY <4>2, <4>3
    <3>3. HeadersRight'
      BY <1>10, <3>2 DEF HeadersRight, Alike
    <3> QED
      BY <3>1, <3>3
  <2> QED
    BY <2>1, <2>2, <2>3
<1> QED
  BY <1>1, <1>4, <1>10, <1>14, <1>15

-----------------------------------------------------------------------------
(***************************************************************************)
(* The inductive invariant.                                                *)
(***************************************************************************)
LEMMA InitInvariant == Init => IInv
<1> SUFFICES ASSUME Init PROVE IInv
  OBVIOUS
<1>1. /\ nextScheme \in SchemeType /\ 2 <= nextScheme.data /\ nextScheme.data <= MaxDataPackets
      /\ nextScheme.data \in Nat /\ MaxDataPackets \in Nat
  BY SizeFacts, TxBufferAssumption DEF Init, SchemeType
<1>2. 0 \in Slot /\ 0 \in PacketIndex
  BY <1>1, SizeFacts
<1>3. TypeOK
  <2>1. NoPacket \in PacketType
    BY DEF NoPacket, PacketType
  <2> QED
    BY <1>1, <1>2, <2>1 DEF Init, TypeOK, NoneSent
<1>4. FrameEndsBlock /\ SlotsNumbered /\ BlocksWhole
  BY TxBufferAssumption DEF Init, FrameEndsBlock, SlotsNumbered, BlocksWhole
<1>5. HeadersRight /\ FillingRight
  BY DEF Init, HeadersRight, FillingRight, NoPacket
<1>6. Lag = 0
  BY DEF Init, Lag, LagOf
<1>7. SendRight
  BY <1>6 DEF Init, SendRight, NoneSent
<1> QED
  BY <1>3, <1>4, <1>5, <1>7 DEF IInv

\* The packets of a finished block: each is in its place in the slot.
LEMMA FinishedBlock ==
  ASSUME IInv, NEW d \in 1 .. MaxBlocks - 1, d <= nextBlk
  PROVE  LET slot == packets[Back(fill, d)]
         IN  /\ Back(fill, d) \in Slot /\ 0 \in PacketIndex
             /\ slot[0].data \in 1 .. MaxDataPackets /\ slot[0].ec \in 0 .. slot[0].data
             /\ \A k \in 0 .. slot[0].data + slot[0].ec - 1 :
                  /\ k \in PacketIndex
                  /\ ~ slot[k].empty /\ slot[k].blk = nextBlk - d /\ slot[k].idx = k
                  /\ slot[k].data = slot[0].data /\ slot[k].ec = slot[0].ec
<1> DEFINE slot == packets[Back(fill, d)]
<1>1. /\ fill \in Slot /\ nextBlk \in Nat /\ nextPkt \in Nat /\ 0 \in PacketIndex
      /\ packets \in Ring
  BY TxBufferAssumption DEF IInv, TypeOK, PacketIndex, Ring
<1>2. Back(fill, d) \in Slot
  BY <1>1, RingFacts
<1>3. slot[0] \in PacketType
  BY <1>1, <1>2 DEF Ring
<1>4. slot[0].data \in Nat /\ slot[0].ec \in Nat /\ slot[0].data > 0
  BY <1>3 DEF PacketType, IInv, BlocksWhole
<1>5. \A k \in 0 .. slot[0].data + slot[0].ec - 1 :
        ~ slot[k].empty /\ slot[k].data = slot[0].data /\ slot[k].ec = slot[0].ec
  BY DEF IInv, BlocksWhole
<1>6. 0 \in 0 .. slot[0].data + slot[0].ec - 1
  BY <1>4
<1>7. slot[0].data \in 1 .. MaxDataPackets /\ slot[0].ec \in 0 .. slot[0].data
  BY <1>1, <1>2, <1>5, <1>6 DEF IInv, HeadersRight
<1>8. \A k \in 0 .. slot[0].data + slot[0].ec - 1 : k \in PacketIndex
  <2> HIDE DEF slot
  <2> SUFFICES ASSUME NEW k \in 0 .. slot[0].data + slot[0].ec - 1 PROVE k \in PacketIndex
    OBVIOUS
  <2>1. k \in Nat /\ k < 2 * slot[0].data
    BY <1>4, <1>7
  <2>2. slot[0].data <= MaxDataPackets
    BY <1>4, <1>7, TxBufferAssumption
  <2> QED
    BY <1>4, <2>1, <2>2, SizeFacts
<1>9. \A k \in 0 .. slot[0].data + slot[0].ec - 1 : slot[k].blk = nextBlk - d /\ slot[k].idx = k
  <2>1. nextBlk + nextPkt > 0 /\ d \in 0 .. MaxBlocks - 1
    BY <1>1, TxBufferAssumption
  <2> QED
    BY <1>5, <1>8, <2>1 DEF IInv, SlotsNumbered
<1> QED
  BY <1>1, <1>2, <1>5, <1>7, <1>8, <1>9

\* Types after a packet was added, once the positions are known.
LEMMA AddPacketTypes ==
  ASSUME IInv, AddPacket, fill' \in Slot, send' \in Slot, sendPkt' \in PacketIndex,
         nextBlk' \in Nat, nextPkt' \in PacketIndex,
         lastSent' \in [known : BOOLEAN, blk : Nat, idx : Nat, last : BOOLEAN]
  PROVE  TypeOK'
<1>1. /\ packets' \in Ring /\ scheme' \in SchemeType
      /\ frameSize' \in Nat /\ frameLeft' \in Nat /\ added' \in Nat
      /\ pc' \in {"idle", "frame", "send"}
  BY AddPacketEffect DEF Usable
<1>2. sent' = {} /\ UNCHANGED <<nextScheme, frame, lastRetrId>>
  BY DEF AddPacket
<1> QED
  BY <1>1, <1>2 DEF IInv, TypeOK, Ring

LEMMA BlockGoesOnInvariant ==
  ASSUME IInv, AddPacket, BlockGoesOn
  PROVE  IInv'
<1>1. /\ fill \in Slot /\ nextPkt \in Nat /\ nextBlk \in Nat /\ send \in Slot
      /\ scheme'.data \in Nat /\ scheme'.ec \in Nat /\ scheme'.data <= MaxDataPackets
      /\ scheme'.ec <= scheme'.data
  BY AddPacketEffect DEF IInv, TypeOK, PacketIndex, Usable, SchemeType
<1>0. \A k \in 0 .. nextPkt + 1 : k \in PacketIndex
  <2> SUFFICES ASSUME NEW k \in 0 .. nextPkt + 1 PROVE k \in PacketIndex
    OBVIOUS
  <2>1. nextPkt + 1 < scheme'.data
    BY DEF BlockGoesOn
  <2>2. k \in Nat /\ k < 2 * scheme'.data
    BY <1>1, <2>1
  <2> QED
    BY <1>1, <2>2, SizeFacts
<1>2. /\ nextPkt' = nextPkt + 1 /\ nextPkt' < scheme'.data /\ nextPkt' \in PacketIndex
      /\ nextBlk' = nextBlk /\ fill' = fill /\ send' = send /\ sendPkt' = sendPkt
      /\ lastSent' = lastSent /\ pc' = "frame" /\ frameLeft' > 0
      /\ \A k \in 0 .. nextPkt : k \in PacketIndex
  BY <1>0, <1>1 DEF BlockGoesOn
<1>3. TypeOK'
  BY <1>2, AddPacketTypes DEF IInv, TypeOK
<1>4. \A k \in PacketIndex :
        LET p == packets'[fill][k]
        IN  /\ ~ p.empty => /\ p.blk = nextBlk /\ p.idx = k
                            /\ p.data \in 1 .. MaxDataPackets /\ p.ec \in 0 .. p.data
            /\ k < nextPkt + 1 => ~ p.empty /\ p.data = scheme'.data /\ p.ec = scheme'.ec
  BY DEF BlockGoesOn, FilledUpTo, Right
<1>5. \A s \in Slot, k \in PacketIndex : s # fill => Alike(packets'[s][k], packets[s][k])
  BY DEF BlockGoesOn, Untouched
<1>6. \A d \in 1 .. MaxBlocks - 1 : Back(fill, d) \in Slot /\ Back(fill, d) # fill
  BY <1>1, RingFacts
<1>7. FrameEndsBlock'
  BY <1>2 DEF FrameEndsBlock
<1>8. SlotsNumbered'
  <2> SUFFICES ASSUME NEW d \in 0 .. MaxBlocks - 1, NEW k \in PacketIndex,
                      d <= nextBlk, ~ packets'[Back(fill, d)][k].empty
               PROVE  /\ packets'[Back(fill, d)][k].blk = nextBlk - d
                      /\ packets'[Back(fill, d)][k].idx = k
    BY <1>2 DEF SlotsNumbered
  <2>1. CASE d = 0
    BY <1>1, <1>4, <2>1, RingFacts
  <2>2. CASE d # 0
    <3>1. d \in 1 .. MaxBlocks - 1
      BY <2>2, TxBufferAssumption
    <3>2. Alike(packets'[Back(fill, d)][k], packets[Back(fill, d)][k])
      BY <1>5, <1>6, <3>1
    <3>3. nextBlk + nextPkt > 0
      BY <1>1, <3>1, TxBufferAssumption
    <3> QED
      BY <3>2, <3>3 DEF IInv, SlotsNumbered, Alike
  <2> QED
    BY <2>1, <2>2
<1>9. BlocksWhole'
  <2> SUFFICES ASSUME NEW d \in 1 .. MaxBlocks - 1, d <= nextBlk
               PROVE  LET slot == packets'[Back(fill, d)]
                      IN  /\ slot[0].data > 0
                          /\ \A k \in 0 .. slot[0].data + slot[0].ec - 1 :
                               /\ ~ slot[k].empty
                               /\ slot[k].data = slot[0].data /\ slot[k].ec = slot[0].ec
    BY <1>2 DEF BlocksWhole
  <2> QED
    BY <1>5, <1>6, FinishedBlock DEF Alike
<1>10. HeadersRight'
  BY <1>4, <1>5 DEF HeadersRight, Alike, IInv
<1>11. FillingRight'
  BY <1>1, <1>2, <1>4 DEF FillingRight
<1>12. SendRight'
  BY <1>1, <1>2, <1>5, LagFacts DEF SendRight, Lag, IInv, Alike
<1> QED
  BY <1>3, <1>7, <1>8, <1>9, <1>10, <1>11, <1>12 DEF IInv

LEMMA BlockEndsInvariant ==
  ASSUME IInv, AddPacket, BlockEnds
  PROVE  IInv'
<1>1. /\ fill \in Slot /\ nextPkt \in Nat /\ nextBlk \in Nat /\ send \in Slot
      /\ sendPkt \in PacketIndex /\ 0 \in PacketIndex
      /\ scheme'.data \in Nat /\ scheme'.ec \in Nat /\ scheme'.data > 0
      /\ scheme'.data <= MaxDataPackets /\ scheme'.ec <= scheme'.data
  BY AddPacketEffect, TxBufferAssumption DEF IInv, TypeOK, PacketIndex, Usable, SchemeType
<1>2. /\ After(fill) # send /\ nextBlk' = nextBlk + 1 /\ nextPkt' = 0 /\ fill' = After(fill)
      /\ send' = send /\ sendPkt' = sendPkt /\ lastSent' = lastSent
  BY DEF BlockEnds
<1>3. /\ After(fill) \in Slot /\ After(fill) # fill /\ Back(After(fill), 0) = After(fill)
      /\ \A d \in 1 .. MaxBlocks - 1 : /\ Back(After(fill), d) = Back(fill, d - 1)
                                       /\ Back(After(fill), d) # After(fill)
                                       /\ Back(After(fill), d) \in Slot
                                       /\ Back(After(fill), d) = fill <=> d = 1
  BY <1>1, NextRingFacts
<1>4. TypeOK'
  BY <1>1, <1>2, <1>3, AddPacketTypes DEF IInv, TypeOK
<1>5. \A k \in PacketIndex :
        LET p == packets'[fill][k]
        IN  /\ ~ p.empty => /\ p.blk = nextBlk /\ p.idx = k
                            /\ p.data \in 1 .. MaxDataPackets /\ p.ec \in 0 .. p.data
            /\ k < scheme'.data + scheme'.ec =>
                 ~ p.empty /\ p.data = scheme'.data /\ p.ec = scheme'.ec
  BY DEF BlockEnds, FilledUpTo, Right
<1>6. \A s \in Slot, k \in PacketIndex :
        s # fill /\ s # After(fill) => Alike(packets'[s][k], packets[s][k])
  BY <1>2 DEF BlockEnds, Untouched
<1>7. \A k \in PacketIndex : packets'[After(fill)][k].empty
  BY <1>2 DEF BlockEnds
<1>8. FrameEndsBlock'
  BY <1>2 DEF FrameEndsBlock
<1>9. SlotsNumbered'
  <2>0. SUFFICES ASSUME NEW d \in 0 .. MaxBlocks - 1, NEW k \in PacketIndex,
                        d <= nextBlk', ~ packets'[Back(fill', d)][k].empty
                 PROVE  /\ packets'[Back(fill', d)][k].blk = nextBlk' - d
                        /\ packets'[Back(fill', d)][k].idx = k
    BY DEF SlotsNumbered
  <2> SUFFICES ASSUME d <= nextBlk + 1, ~ packets'[Back(After(fill), d)][k].empty
               PROVE  /\ packets'[Back(After(fill), d)][k].blk = nextBlk + 1 - d
                      /\ packets'[Back(After(fill), d)][k].idx = k
    BY <1>1, <1>2, <2>0
  <2>1. d # 0
    BY <1>3, <1>7
  <2>2. d \in 1 .. MaxBlocks - 1
    BY <2>1, TxBufferAssumption
  <2>3. CASE d = 1
    BY <1>1, <1>3, <1>5, <2>2, <2>3
  <2>4. CASE d # 1
    <3>0. /\ Back(After(fill), d) \in Slot /\ Back(After(fill), d) # fill /\ Back(After(fill), d) # After(fill)
          /\ Back(After(fill), d) = Back(fill, d - 1)
      BY <1>3, <2>2, <2>4
    <3>1. Alike(packets'[Back(After(fill), d)][k], packets[Back(fill, d - 1)][k])
      BY <1>6, <3>0
    <3>2. /\ nextBlk + nextPkt > 0 /\ d - 1 <= nextBlk /\ d - 1 \in 0 .. MaxBlocks - 1
          /\ nextBlk - (d - 1) = nextBlk + 1 - d
      BY <1>1, <2>2, <2>4, TxBufferAssumption
    <3> QED
      BY <3>1, <3>2 DEF IInv, SlotsNumbered, Alike
  <2> QED
    BY <2>3, <2>4
<1>10. BlocksWhole'
  <2> SUFFICES ASSUME NEW d \in 1 .. MaxBlocks - 1, d <= nextBlk + 1
               PROVE  LET slot == packets'[Back(After(fill), d)]
                      IN  /\ slot[0].data > 0
                          /\ \A k \in 0 .. slot[0].data + slot[0].ec - 1 :
                               /\ ~ slot[k].empty
                               /\ slot[k].data = slot[0].data /\ slot[k].ec = slot[0].ec
    BY <1>2 DEF BlocksWhole
  <2>1. CASE d = 1
    <3>1. Back(After(fill), d) = fill
      BY <1>3, <2>1
    <3>2. ASSUME NEW k \in 0 .. scheme'.data + scheme'.ec - 1
          PROVE  k \in PacketIndex /\ k < scheme'.data + scheme'.ec
      <4>1. k \in Nat /\ k < scheme'.data + scheme'.ec /\ k < 2 * scheme'.data
        BY <1>1
      <4> QED
        BY <1>1, <4>1, SizeFacts
    <3>3. packets'[fill][0].data = scheme'.data /\ packets'[fill][0].ec = scheme'.ec
      BY <1>1, <1>5
    <3> QED
      BY <1>1, <1>5, <3>1, <3>2, <3>3
  <2>2. CASE d # 1
    <3>1. d - 1 \in 1 .. MaxBlocks - 1 /\ d - 1 <= nextBlk
      BY <1>1, <2>2, TxBufferAssumption
    <3>0. /\ Back(After(fill), d) \in Slot /\ Back(After(fill), d) # fill /\ Back(After(fill), d) # After(fill)
          /\ Back(After(fill), d) = Back(fill, d - 1)
      BY <1>3, <2>2
    <3>2. \A k \in PacketIndex : Alike(packets'[Back(After(fill), d)][k], packets[Back(fill, d - 1)][k])
      BY <1>6, <3>0
    <3> QED
      BY <3>1, <3>2, FinishedBlock DEF Alike
  <2> QED
    BY <2>1, <2>2
<1>11. HeadersRight'
  BY <1>5, <1>6, <1>7 DEF HeadersRight, Alike, IInv
<1>12. FillingRight'
  BY <1>1, <1>2, AddPacketEffect DEF FillingRight
<1>13. SendRight'
  <2>1. /\ Lag' = Lag + 1 /\ Lag \in Nat /\ nextBlk' - Lag' = nextBlk - Lag /\ Lag <= nextBlk
        /\ Lag = 0 <=> send = fill
    BY <1>1, <1>2, LagFacts DEF Lag, IInv, SendRight
  <2>2. sendPkt' < packets'[send'][0].data + packets'[send'][0].ec
    <3>1. CASE Lag = 0
      BY <1>1, <1>2, <1>5, <2>1, <3>1 DEF IInv, SendRight
    <3>2. CASE Lag # 0
      <4>1. Alike(packets'[send][0], packets[send][0])
        BY <1>1, <1>2, <1>6, <2>1, <3>2
      <4> QED
        BY <1>2, <3>2, <4>1 DEF IInv, SendRight, Alike
    <3> QED
      BY <3>1, <3>2
  <2>3. Lag' # 0 /\ Lag' <= nextBlk'
    BY <1>1, <1>2, <2>1
  <2> HIDE DEF Lag
  <2> QED
    BY <1>2, <2>1, <2>2, <2>3 DEF IInv, SendRight
<1> QED
  BY <1>4, <1>8, <1>9, <1>10, <1>11, <1>12, <1>13 DEF IInv

\* A discard: no block is finished, and none begun.
LEMMA DiscardFacts ==
  ASSUME IInv, Discard, HeadersRight', pc' = "frame" => frameLeft' > 0
  PROVE  /\ fill' \in Slot /\ send' \in Slot /\ sendPkt' \in PacketIndex
         /\ nextBlk' \in Nat /\ nextPkt' \in PacketIndex
         /\ lastSent' \in [known : BOOLEAN, blk : Nat, idx : Nat, last : BOOLEAN]
         /\ TypeOK' => IInv'
<1>1. /\ fill' = 0 /\ send' = 0 /\ sendPkt' = 0 /\ nextBlk' = 0 /\ nextPkt' = 0
      /\ lastSent' = NoneSent
  BY DEF Discard
<1>2. 0 \in Slot /\ 0 \in PacketIndex
  BY SizeFacts, TxBufferAssumption DEF IInv, TypeOK, PacketIndex
<1>3. NoneSent \in [known : BOOLEAN, blk : Nat, idx : Nat, last : BOOLEAN] /\ ~ NoneSent.known
  BY DEF NoneSent
<1>4. FrameEndsBlock' /\ SlotsNumbered' /\ FillingRight'
  BY <1>1 DEF FrameEndsBlock, SlotsNumbered, FillingRight
<1>5. BlocksWhole'
  BY <1>1, TxBufferAssumption DEF BlocksWhole
<1>6. SendRight'
  <2>1. Lag' = 0
    BY <1>1 DEF Lag, LagOf
  <2> HIDE DEF Lag
  <2> QED
    BY <1>1, <1>3, <2>1 DEF SendRight
<1> QED
  BY <1>1, <1>2, <1>3, <1>4, <1>5, <1>6 DEF IInv

LEMMA AddPacketInvariant == IInv /\ AddPacket => IInv'
<1> SUFFICES ASSUME IInv, AddPacket PROVE IInv'
  OBVIOUS
<1>1. CASE Discard /\ HeadersRight'
  <2>1. pc' = "frame" => frameLeft' > 0
    BY AddPacketEffect
  <2> QED
    BY <1>1, <2>1, DiscardFacts, AddPacketTypes
<1> QED
  BY <1>1, AddPacketEffect, BlockGoesOnInvariant, BlockEndsInvariant

\* A step that leaves the slots and the fill position alone.
LEMMA Keeps ==
  ASSUME IInv, UNCHANGED <<packets, nextBlk, nextPkt, fill, frameLeft>>,
         pc' = "frame" => (pc = "frame" \/ frameLeft > 0),
         pc' # "frame" => nextPkt = 0,
         nextPkt > 0 => scheme' = scheme
  PROVE  /\ FrameEndsBlock' /\ SlotsNumbered' /\ BlocksWhole' /\ HeadersRight' /\ FillingRight'
         /\ UNCHANGED <<send, sendPkt, lastSent>> => SendRight'
<1>1. FrameEndsBlock'
  BY DEF FrameEndsBlock
<1>2. SlotsNumbered' /\ BlocksWhole' /\ HeadersRight'
  BY DEF IInv, SlotsNumbered, BlocksWhole, HeadersRight
<1>3. FillingRight'
  BY DEF IInv, FillingRight
<1>4. UNCHANGED <<send, sendPkt, lastSent>> => SendRight'
  BY DEF IInv, SendRight, Lag
<1> QED
  BY <1>1, <1>2, <1>3, <1>4

LEMMA StartFrameInvariant ==
  ASSUME IInv, NEW n \in FrameSizes, StartFrame(n)
  PROVE  IInv'
<1>1. /\ pc = "idle" /\ pc' = "frame" /\ frame' = frame + 1
      /\ frameSize' = n /\ frameLeft' = n /\ added' = 0
      /\ scheme' = nextScheme /\ sent' = {}
      /\ UNCHANGED <<packets, nextBlk, nextPkt, fill, send, sendPkt, nextScheme, lastRetrId, lastSent>>
  BY DEF StartFrame
<1>2. n \in Nat /\ n > 0
  BY TxBufferAssumption
<1>3. nextPkt = 0
  BY <1>1 DEF IInv, FrameEndsBlock
<1>4. TypeOK'
  BY <1>1, <1>2, SizeFacts DEF IInv, TypeOK
<1>5. FrameEndsBlock' /\ SlotsNumbered' /\ BlocksWhole' /\ HeadersRight' /\ SendRight'
  BY <1>1 DEF IInv, FrameEndsBlock, SlotsNumbered, BlocksWhole, HeadersRight, SendRight, Lag
<1>6. FillingRight'
  BY <1>1, <1>2, <1>3 DEF FillingRight
<1> QED
  BY <1>4, <1>5, <1>6 DEF IInv

\* The packet the send loop is at.
LEMMA SendFacts ==
  ASSUME IInv, pc = "send", HasPending
  PROVE  LET p == packets[send][sendPkt]
         IN  /\ Lag \in 1 .. MaxBlocks - 1 /\ Lag <= nextBlk /\ send # fill
             /\ p \in PacketType
             /\ ~ p.empty /\ p.blk = nextBlk - Lag /\ p.idx = sendPkt
             /\ sendPkt < p.data + p.ec
             /\ p.data = packets[send][0].data /\ p.ec = packets[send][0].ec
             /\ p.data \in Nat /\ p.ec \in Nat /\ p.ec <= p.data /\ p.data <= MaxDataPackets
<1>1. /\ fill \in Slot /\ send \in Slot /\ nextBlk \in Nat /\ sendPkt \in PacketIndex
      /\ sendPkt \in Nat /\ packets \in Ring /\ nextPkt = 0
  BY TxBufferAssumption DEF IInv, TypeOK, Ring, FrameEndsBlock, PacketIndex
<1>2. Lag # 0
  BY <1>1, LagFacts DEF HasPending, IInv, SendRight, Lag
<1>3. Lag \in 1 .. MaxBlocks - 1 /\ Back(fill, Lag) = send /\ send # fill
  BY <1>1, <1>2, LagFacts, TxBufferAssumption DEF Lag
<1> HIDE DEF Lag
<1>4. Lag <= nextBlk /\ sendPkt < packets[send][0].data + packets[send][0].ec
  BY <1>2 DEF IInv, SendRight
<1>5. /\ packets[send][0].data \in 1 .. MaxDataPackets
      /\ packets[send][0].ec \in 0 .. packets[send][0].data
      /\ \A k \in 0 .. packets[send][0].data + packets[send][0].ec - 1 :
           LET p == packets[send][k]
           IN  /\ ~ p.empty /\ p.blk = nextBlk - Lag /\ p.idx = k
               /\ p.data = packets[send][0].data /\ p.ec = packets[send][0].ec
  BY <1>3, <1>4, FinishedBlock
<1>6. sendPkt \in 0 .. packets[send][0].data + packets[send][0].ec - 1
  BY <1>1, <1>4, <1>5
<1>7. packets[send][sendPkt] \in PacketType
  BY <1>1 DEF Ring
<1> QED
  BY <1>3, <1>4, <1>5, <1>6, <1>7, TxBufferAssumption

\* Where the send position is after a packet.
LEMMA SendPacketInvariant == IInv /\ SendPacket => IInv'
<1> SUFFICES ASSUME IInv, SendPacket PROVE IInv'
  OBVIOUS
<1> DEFINE p == packets[send][sendPkt]
<1>1. /\ pc = "send" /\ HasPending
      /\ sent' = IF p.empty THEN {} ELSE {p}
      /\ lastSent' = IF p.empty THEN lastSent
                      ELSE [known |-> TRUE, blk |-> p.blk, idx |-> p.idx,
                            last |-> p.idx + 1 = p.data + p.ec]
      /\ \/ sendPkt + 1 >= p.data + p.ec /\ send' = After(send) /\ sendPkt' = 0
         \/ ~ (sendPkt + 1 >= p.data + p.ec) /\ sendPkt' = sendPkt + 1 /\ send' = send
      /\ UNCHANGED <<pc, packets, nextBlk, nextPkt, fill, scheme, nextScheme, frameVars, lastRetrId>>
  BY DEF SendPacket, BlockSent
<1>2. /\ Lag \in 1 .. MaxBlocks - 1 /\ Lag <= nextBlk /\ send # fill
      /\ p \in PacketType
      /\ ~ p.empty /\ p.blk = nextBlk - Lag /\ p.idx = sendPkt
      /\ sendPkt < p.data + p.ec
      /\ p.data = packets[send][0].data /\ p.ec = packets[send][0].ec
      /\ p.data \in Nat /\ p.ec \in Nat /\ p.ec <= p.data /\ p.data <= MaxDataPackets
  BY <1>1, SendFacts
<1> HIDE DEF p
<1>3. /\ fill \in Slot /\ send \in Slot /\ nextBlk \in Nat /\ sendPkt \in Nat /\ 0 \in PacketIndex
      /\ nextPkt = 0
  BY <1>1, TxBufferAssumption DEF IInv, TypeOK, FrameEndsBlock, PacketIndex
<1>4. /\ sent' = {p}
      /\ lastSent' = [known |-> TRUE, blk |-> nextBlk - Lag, idx |-> sendPkt,
                      last |-> sendPkt + 1 = p.data + p.ec]
  BY <1>1, <1>2
<1>5. /\ nextBlk - Lag \in Nat
      /\ lastSent'.known /\ lastSent'.blk = nextBlk - Lag /\ lastSent'.idx = sendPkt
      /\ lastSent'.last <=> sendPkt + 1 = p.data + p.ec
  <2>1. nextBlk - Lag \in Nat
    BY <1>2, <1>3
  <2>2. /\ lastSent'.known /\ lastSent'.blk = nextBlk - Lag /\ lastSent'.idx = sendPkt
        /\ lastSent'.last <=> sendPkt + 1 = p.data + p.ec
    BY <1>4, Zenon
  <2> QED
    BY <2>1, <2>2
<1>6. FrameEndsBlock' /\ SlotsNumbered' /\ BlocksWhole' /\ HeadersRight' /\ FillingRight'
  BY <1>1, <1>3, Keeps DEF frameVars
<1>7. CASE sendPkt + 1 >= p.data + p.ec
  <2>1. send' = After(send) /\ sendPkt' = 0 /\ lastSent'.last /\ lastSent'.known /\ lastSent'.blk = nextBlk - Lag
    BY <1>1, <1>2, <1>3, <1>5, <1>7
  <2>2. Lag' = Lag - 1
    BY <1>1, <1>2, <1>3, <2>1, LagFacts DEF Lag
  <2>3. After(send) \in Slot
    BY <1>3, RingFacts
  <2>4. TypeOK'
    BY <1>1, <1>2, <1>3, <1>4, <1>5, <2>1, <2>3 DEF IInv, TypeOK, frameVars
  <2>5. Lag' # 0 => /\ send' \in Slot /\ packets'[send'][0].data + packets'[send'][0].ec > 0
    <3> SUFFICES ASSUME Lag' # 0
                 PROVE  send' \in Slot /\ packets[send'][0].data + packets[send'][0].ec > 0
      BY <1>1
    <3>1. Lag' \in 1 .. MaxBlocks - 1 /\ Lag' <= nextBlk
      BY <1>2, <1>3, <2>2, TxBufferAssumption
    <3>2. Back(fill, LagOf(fill, After(send))) = After(send) /\ Lag' = LagOf(fill, After(send))
      BY <1>1, <1>3, <2>1, <2>3, LagFacts DEF Lag
    <3>3. /\ packets[After(send)][0].data \in 1 .. MaxDataPackets
          /\ packets[After(send)][0].ec \in 0 .. packets[After(send)][0].data
      BY <3>1, <3>2, FinishedBlock
    <3> QED
      BY <2>1, <2>3, <3>3
  <2> HIDE DEF Lag
  <2>6. Lag' <= nextBlk' /\ nextBlk' - Lag' = (nextBlk - Lag) + 1
    BY <1>1, <1>2, <1>3, <2>2
  <2>7. SendRight'
    BY <2>1, <2>5, <2>6 DEF SendRight
  <2> QED
    BY <1>6, <2>4, <2>7 DEF IInv
<1>8. CASE ~ (sendPkt + 1 >= p.data + p.ec)
  <2>1. /\ send' = send /\ sendPkt' = sendPkt + 1 /\ sendPkt + 1 < p.data + p.ec
        /\ lastSent'.known /\ ~ lastSent'.last /\ lastSent'.blk = nextBlk - Lag
        /\ lastSent'.idx = sendPkt
    BY <1>1, <1>2, <1>3, <1>5, <1>8
  <2>2. sendPkt + 1 \in PacketIndex
    BY <1>2, <1>3, <2>1, SizeFacts
  <2>3. TypeOK'
    BY <1>1, <1>2, <1>3, <1>4, <1>5, <2>1, <2>2 DEF IInv, TypeOK, frameVars
  <2>4. Lag' = Lag /\ nextBlk' = nextBlk /\ packets' = packets
    BY <1>1, <2>1 DEF Lag
  <2> HIDE DEF Lag
  <2>5. SendRight'
    BY <1>2, <2>1, <2>4 DEF SendRight
  <2> QED
    BY <1>6, <2>3, <2>5 DEF IInv
<1> QED
  BY <1>7, <1>8

\* What is sent again is taken from the slots.
LEMMA ResentFacts ==
  ASSUME IInv, NEW blk \in Nat, NEW idx \in PacketIndex \cup {WholeBlock}
  PROVE  Resent(blk, idx) \subseteq PacketType
<1>1. /\ fill \in Slot /\ nextBlk \in Nat
      /\ packets \in Ring
  BY DEF IInv, TypeOK, Ring
<1>2. CASE InBuffer(blk)
  <2>1. nextBlk - blk \in 0 .. MaxBlocks - 1
    BY <1>1, <1>2, TxBufferAssumption DEF InBuffer
  <2>2. Back(fill, nextBlk - blk) \in Slot
    BY <1>1, <2>1, RingFacts
  <2>3. \A k \in PacketIndex : packets[Back(fill, nextBlk - blk)][k] \in PacketType
    BY <1>1, <2>2 DEF Ring
  <2> QED
    BY <2>3 DEF Resent
<1>3. CASE ~ InBuffer(blk)
  BY <1>3 DEF Resent
<1> QED
  BY <1>2, <1>3

LEMMA RestFacts ==
  ASSUME IInv, NEW f, NEW n
  PROVE  RestResent(f, n) \subseteq PacketType
<1>1. fill \in Slot /\ packets \in Ring
  BY DEF IInv, TypeOK, Ring
<1>2. \A d \in 0 .. MaxBlocks - 1, k \in PacketIndex : packets[Back(fill, d)][k] \in PacketType
  BY <1>1, RingFacts DEF Ring
<1>3. \A d \in 0 .. MaxBlocks - 1 : RestOfBlock(n, d) \subseteq PacketType
  BY <1>2 DEF RestOfBlock
<1> QED
  BY <1>3 DEF RestResent

\* Requests: whatever is sent again, the buffer stays as it is.
LEMMA RequestInvariant ==
  ASSUME IInv, UNCHANGED <<pc, packets, nextBlk, nextPkt, fill, send, sendPkt, scheme, nextScheme,
                           frameVars, lastSent>>,
         lastRetrId' \in RetrIds, sent' \subseteq PacketType
  PROVE  IInv'
<1>1. TypeOK'
  BY TxBufferAssumption DEF IInv, TypeOK, frameVars
<1>2. FrameEndsBlock' /\ SlotsNumbered' /\ BlocksWhole' /\ HeadersRight' /\ FillingRight' /\ SendRight'
  BY Keeps DEF frameVars, IInv, FrameEndsBlock, FillingRight
<1> QED
  BY <1>1, <1>2 DEF IInv

LEMMA NextInvariant == IInv /\ [Next]_vars => IInv'
<1> SUFFICES ASSUME IInv, [Next]_vars PROVE IInv'
  OBVIOUS
<1>1. CASE \E n \in FrameSizes : StartFrame(n)
  BY <1>1, StartFrameInvariant
<1>2. CASE AddPacket
  BY <1>2, AddPacketInvariant
<1>3. CASE StartSend \/ SendDone
  <2>1. /\ pc \in {"idle", "send"} /\ pc' \in {"idle", "send"} /\ sent' = {}
        /\ UNCHANGED <<packets, nextBlk, nextPkt, fill, send, sendPkt, scheme, nextScheme,
                       frameVars, lastRetrId, lastSent>>
    BY <1>3 DEF StartSend, SendDone
  <2>2. TypeOK'
    BY <2>1 DEF IInv, TypeOK, frameVars
  <2>3. FrameEndsBlock' /\ SlotsNumbered' /\ BlocksWhole' /\ HeadersRight' /\ FillingRight' /\ SendRight'
    BY <2>1, Keeps DEF frameVars, IInv, FrameEndsBlock
  <2> QED
    BY <2>2, <2>3 DEF IInv
<1>4. CASE SendPacket
  BY <1>4, SendPacketInvariant
<1>5. ASSUME NEW id \in RetrIds, NEW blk \in 0 .. MaxBlockNumber + MaxBlocks,
             NEW idx \in PacketIndex \cup {WholeBlock}, RetransmissionRequest(id, blk, idx)
      PROVE  IInv'
  <2>1. blk \in Nat
    BY TxBufferAssumption
  <2>2. sent' \subseteq PacketType
    BY <1>5, <2>1, ResentFacts DEF RetransmissionRequest
  <2> QED
    BY <1>5, <2>2, RequestInvariant DEF RetransmissionRequest
<1>6. ASSUME NEW id \in RetrIds, NEW f, NEW n, RestRequest(id, f, n)
      PROVE  IInv'
  <2>1. sent' \subseteq PacketType
    BY <1>6, RestFacts DEF RestRequest
  <2> QED
    BY <1>6, <2>1, RequestInvariant DEF RestRequest
<1>7. ASSUME NEW s \in Schemes, ChangeScheme(s)
      PROVE  IInv'
  <2>1. /\ pc = "idle" /\ nextScheme' = s /\ scheme' \in {s, scheme} /\ sent' = {}
        /\ UNCHANGED <<pc, packets, nextBlk, nextPkt, fill, send, sendPkt, frameVars,
                       lastRetrId, lastSent>>
    BY <1>7 DEF ChangeScheme
  <2>2. nextPkt = 0
    BY <2>1 DEF IInv, FrameEndsBlock
  <2>3. TypeOK'
    BY <2>1, SizeFacts DEF IInv, TypeOK, frameVars
  <2>4. FrameEndsBlock' /\ SlotsNumbered' /\ BlocksWhole' /\ HeadersRight' /\ FillingRight' /\ SendRight'
    <3>1. nextPkt \in Nat
      BY <2>2
    <3> QED
      BY <2>1, <2>2, Keeps DEF frameVars
  <2> QED
    BY <2>3, <2>4 DEF IInv
<1>8. CASE DiscardBuffer
  <2>1. /\ Discard /\ sent' = {} /\ pc = "idle"
        /\ UNCHANGED <<pc, packets, scheme, nextScheme, frameVars, lastRetrId>>
    BY <1>8 DEF DiscardBuffer
  <2>2. HeadersRight'
    BY <2>1 DEF IInv, HeadersRight
  <2>3. TypeOK'
    BY <2>1, <2>2, DiscardFacts DEF IInv, TypeOK, frameVars
  <2> QED
    BY <2>1, <2>2, <2>3, DiscardFacts
<1>9. CASE UNCHANGED vars
  BY <1>9 DEF vars, frameVars, IInv, TypeOK, FrameEndsBlock, SlotsNumbered, BlocksWhole, HeadersRight,
    FillingRight, SendRight, Lag
<1> QED
  BY <1>1, <1>2, <1>3, <1>4, <1>5, <1>6, <1>7, <1>8, <1>9 DEF Next

THEOREM Invariant == Spec => []IInv
BY InitInvariant, NextInvariant, PTL DEF Spec

-----------------------------------------------------------------------------
(***************************************************************************)
(* Places in a row of blocks, the newest first and each read from its last *)
(* packet back.                                                            *)
(***************************************************************************)
\* The sizes of so many blocks.
Sizes(count) == [1 .. count -> 1 .. MaxPacketsInBlock]

Places(count, size) == {x \in (1 .. count) \X PacketIndex : x[2] < size[x[1]]}

\* The places not behind packet k of block d, itself one of them.
From(count, size, d, k) ==
  {x \in Places(count, size) : x[1] < d \/ (x[1] = d /\ x[2] >= k)}

LEMMA PlaceFacts ==
  ASSUME NEW count \in Nat, NEW size \in Sizes(count)
  PROVE  /\ IsFiniteSet(Places(count, size))
         /\ \A d, k : <<d, k>> \in Places(count, size) <=> d \in 1 .. count /\ k \in 0 .. size[d] - 1
         /\ \A d \in 1 .. count : size[d] \in Nat \ {0}
<1>1. MaxPacketsInBlock \in Nat
  BY TxBufferAssumption
<1>2. IsFiniteSet(1 .. count) /\ IsFiniteSet(PacketIndex)
  BY <1>1, FS_Interval DEF PacketIndex
<1>3. IsFiniteSet((1 .. count) \X PacketIndex)
  BY <1>2, FS_Product
<1>4. IsFiniteSet(Places(count, size))
  BY <1>3, FS_Subset DEF Places
<1>5. ASSUME NEW d, NEW k
      PROVE  <<d, k>> \in Places(count, size) <=> d \in 1 .. count /\ k \in 0 .. size[d] - 1
  BY <1>1 DEF Places, Sizes, PacketIndex
<1>6. \A d \in 1 .. count : size[d] \in Nat \ {0}
  BY <1>1 DEF Sizes
<1> QED
  BY <1>4, <1>5, <1>6

LEMMA FromFacts ==
  ASSUME NEW count \in Nat, NEW size \in Sizes(count), NEW d, NEW k
  PROVE  /\ From(count, size, d, k) \subseteq Places(count, size)
         /\ IsFiniteSet(From(count, size, d, k))
         /\ Cardinality(From(count, size, d, k)) \in Nat
         /\ \A e, j : <<e, j>> \in From(count, size, d, k) <=>
              /\ e \in 1 .. count /\ j \in 0 .. size[e] - 1
              /\ e < d \/ (e = d /\ j >= k)
<1>1. From(count, size, d, k) \subseteq Places(count, size)
  BY DEF From
<1>2. IsFiniteSet(From(count, size, d, k))
  BY <1>1, PlaceFacts, FS_Subset
<1>3. Cardinality(From(count, size, d, k)) \in Nat
  BY <1>2, FS_CardinalityType
<1>4. ASSUME NEW e, NEW j
      PROVE  <<e, j>> \in From(count, size, d, k) <=>
               /\ e \in 1 .. count /\ j \in 0 .. size[e] - 1
               /\ e < d \/ (e = d /\ j >= k)
  BY PlaceFacts DEF From
<1> QED
  BY <1>1, <1>2, <1>3, <1>4

\* Every place is a pair.
LEMMA Pairs ==
  ASSUME NEW count \in Nat, NEW size \in Sizes(count), NEW x \in Places(count, size)
  PROVE  /\ x = <<x[1], x[2]>>
         /\ x[1] \in 1 .. count /\ x[2] \in 0 .. size[x[1]] - 1 /\ size[x[1]] \in Nat
BY TxBufferAssumption DEF Places, PacketIndex, Sizes

\* Two sets of places that hold the same pairs are equal.
LEMMA SamePlaces ==
  ASSUME NEW count \in Nat, NEW size \in Sizes(count),
         NEW S \in SUBSET Places(count, size), NEW T \in SUBSET Places(count, size),
         \A e \in 1 .. count, j \in Nat : <<e, j>> \in S <=> <<e, j>> \in T
  PROVE  S = T
<1>1. ASSUME NEW x \in Places(count, size) PROVE x \in S <=> x \in T
  <2>1. x = <<x[1], x[2]>> /\ x[1] \in 1 .. count /\ x[2] \in Nat
    BY Pairs
  <2>2. <<x[1], x[2]>> \in S <=> <<x[1], x[2]>> \in T
    BY <2>1
  <2> QED
    BY <2>1, <2>2
<1> QED
  BY <1>1

\* The first place of the row.
LEMMA FirstPlace ==
  ASSUME NEW count \in Nat \ {0}, NEW size \in Sizes(count)
  PROVE  /\ <<1, size[1] - 1>> \in Places(count, size)
         /\ From(count, size, 1, size[1] - 1) = {<<1, size[1] - 1>>}
<1>1. 1 \in 1 .. count /\ size[1] \in Nat \ {0}
  BY TxBufferAssumption DEF Sizes
<1>2. <<1, size[1] - 1>> \in Places(count, size)
  BY <1>1, PlaceFacts
<1>3. \A e \in 1 .. count, j \in Nat :
        <<e, j>> \in From(count, size, 1, size[1] - 1) <=> <<e, j>> \in {<<1, size[1] - 1>>}
  <2> SUFFICES ASSUME NEW e \in 1 .. count, NEW j \in Nat
               PROVE  <<e, j>> \in From(count, size, 1, size[1] - 1) <=> <<e, j>> = <<1, size[1] - 1>>
    OBVIOUS
  <2>1. <<e, j>> \in From(count, size, 1, size[1] - 1) <=>
          /\ e \in 1 .. count /\ j \in 0 .. size[e] - 1
          /\ e < 1 \/ (e = 1 /\ j >= size[1] - 1)
    BY FromFacts
  <2> QED
    BY <1>1, <2>1
<1>4. From(count, size, 1, size[1] - 1) = {<<1, size[1] - 1>>}
  <2>1. {<<1, size[1] - 1>>} \in SUBSET Places(count, size)
    BY <1>2
  <2>2. From(count, size, 1, size[1] - 1) \in SUBSET Places(count, size)
    BY FromFacts
  <2> DEFINE S == From(count, size, 1, size[1] - 1)
             T == {<<1, size[1] - 1>>}
  <2>3. S \in SUBSET Places(count, size) /\ T \in SUBSET Places(count, size)
    BY <2>1, <2>2
  <2>4. \A e \in 1 .. count, j \in Nat : <<e, j>> \in S <=> <<e, j>> \in T
    BY <1>3
  <2>5. count \in Nat
    OBVIOUS
  <2> HIDE DEF S, T
  <2>6. S = T
    BY <2>3, <2>4, <2>5, SamePlaces
  <2> QED
    BY <2>6 DEF S, T
<1> QED
  BY <1>2, <1>4

\* The place behind packet k of block d.
BehindBlock(d, k)        == IF k > 0 THEN d ELSE d + 1
BehindPacket(size, d, k) == IF k > 0 THEN k - 1 ELSE size[d + 1] - 1

LEMMA NextPlace ==
  ASSUME NEW count \in Nat, NEW size \in Sizes(count),
         NEW d, NEW k, <<d, k>> \in Places(count, size),
         Cardinality(From(count, size, d, k)) # Cardinality(Places(count, size))
  PROVE  LET e == BehindBlock(d, k)
             j == BehindPacket(size, d, k)
         IN  /\ <<e, j>> \in Places(count, size)
             /\ <<e, j>> \notin From(count, size, d, k)
             /\ From(count, size, e, j) = From(count, size, d, k) \cup {<<e, j>>}
<1> DEFINE e == BehindBlock(d, k)
           j == BehindPacket(size, d, k)
<1>1. d \in 1 .. count /\ k \in 0 .. size[d] - 1 /\ size[d] \in Nat
  BY PlaceFacts
<1>2. PICK x \in Places(count, size) : x \notin From(count, size, d, k)
  BY FromFacts
<1>3. x = <<x[1], x[2]>> /\ x[1] \in 1 .. count /\ x[2] \in 0 .. size[x[1]] - 1 /\ size[x[1]] \in Nat
  BY Pairs
<1>4. ~ (x[1] < d) /\ ~ (x[1] = d /\ x[2] >= k)
  BY <1>2, <1>3, FromFacts
<1>5. k = 0 => d + 1 \in 1 .. count
  BY <1>1, <1>3, <1>4
<1>6. e \in 1 .. count /\ size[e] \in Nat \ {0} /\ j \in 0 .. size[e] - 1
  <2>1. \A b \in 1 .. count : size[b] \in Nat \ {0}
    BY PlaceFacts
  <2> QED
    BY <1>1, <1>5, <2>1 DEF BehindBlock, BehindPacket
<1>7. <<e, j>> \in Places(count, size)
  BY <1>6, PlaceFacts
<1>8. (k > 0 /\ e = d /\ j = k - 1) \/ (k = 0 /\ e = d + 1 /\ j = size[e] - 1)
  BY <1>1 DEF BehindBlock, BehindPacket
<1> HIDE DEF e, j
<1>9. <<e, j>> \notin From(count, size, d, k)
  BY <1>1, <1>6, <1>8, FromFacts
<1>10. \A b \in 1 .. count, i \in Nat :
         <<b, i>> \in From(count, size, e, j) <=> <<b, i>> \in From(count, size, d, k) \cup {<<e, j>>}
  <2> SUFFICES ASSUME NEW b \in 1 .. count, NEW i \in Nat
               PROVE  <<b, i>> \in From(count, size, e, j) <=>
                        <<b, i>> \in From(count, size, d, k) \/ (b = e /\ i = j)
    OBVIOUS
  <2>1. <<b, i>> \in From(count, size, e, j) <=>
          i \in 0 .. size[b] - 1 /\ (b < e \/ (b = e /\ i >= j))
    BY FromFacts
  <2>2. <<b, i>> \in From(count, size, d, k) <=>
          i \in 0 .. size[b] - 1 /\ (b < d \/ (b = d /\ i >= k))
    BY FromFacts
  <2>3. size[b] \in Nat
    BY PlaceFacts
  <2> QED
    BY <1>1, <1>6, <1>8, <2>1, <2>2, <2>3
<1>11. From(count, size, e, j) = From(count, size, d, k) \cup {<<e, j>>}
  <2>1. From(count, size, d, k) \cup {<<e, j>>} \in SUBSET Places(count, size)
    BY <1>7, FromFacts
  <2>2. From(count, size, e, j) \in SUBSET Places(count, size)
    BY FromFacts
  <2> DEFINE S == From(count, size, e, j)
             T == From(count, size, d, k) \cup {<<e, j>>}
  <2>3. S \in SUBSET Places(count, size) /\ T \in SUBSET Places(count, size)
    BY <2>1, <2>2
  <2>4. \A b \in 1 .. count, i \in Nat : <<b, i>> \in S <=> <<b, i>> \in T
    BY <1>10
  <2> HIDE DEF S, T
  <2>6. S = T
    BY <2>3, <2>4, SamePlaces
  <2> QED
    BY <2>6 DEF S, T
<1> QED
  BY <1>7, <1>9, <1>11 DEF e, j

\* A place is known by how many are not behind it.
LEMMA OnePlace ==
  ASSUME NEW count \in Nat, NEW size \in Sizes(count),
         NEW d, NEW k, <<d, k>> \in Places(count, size),
         NEW e, NEW j, <<e, j>> \in Places(count, size),
         Cardinality(From(count, size, d, k)) = Cardinality(From(count, size, e, j))
  PROVE  d = e /\ k = j
<1>1. /\ d \in 1 .. count /\ k \in 0 .. size[d] - 1 /\ size[d] \in Nat
      /\ e \in 1 .. count /\ j \in 0 .. size[e] - 1 /\ size[e] \in Nat
  BY PlaceFacts
<1>2. ASSUME NEW b, NEW i, <<b, i>> \in Places(count, size),
             NEW c, NEW l, <<c, l>> \in Places(count, size),
             b < c \/ (b = c /\ i > l)
      PROVE  Cardinality(From(count, size, b, i)) # Cardinality(From(count, size, c, l))
  <2>1. /\ b \in 1 .. count /\ i \in 0 .. size[b] - 1 /\ size[b] \in Nat
        /\ c \in 1 .. count /\ l \in 0 .. size[c] - 1 /\ size[c] \in Nat
    BY <1>2, PlaceFacts
  <2>2. From(count, size, b, i) \subseteq From(count, size, c, l)
    <3> SUFFICES ASSUME NEW x \in From(count, size, b, i) PROVE x \in From(count, size, c, l)
      OBVIOUS
    <3>1. x = <<x[1], x[2]>> /\ x[1] \in 1 .. count /\ x[2] \in 0 .. size[x[1]] - 1 /\ size[x[1]] \in Nat
      BY FromFacts, Pairs
    <3>2. x[1] < b \/ (x[1] = b /\ x[2] >= i)
      BY <3>1, FromFacts
    <3>3. x[1] < c \/ (x[1] = c /\ x[2] >= l)
      BY <1>2, <2>1, <3>1, <3>2
    <3> QED
      BY <3>1, <3>3, FromFacts
  <2>3. <<c, l>> \in From(count, size, c, l) /\ <<c, l>> \notin From(count, size, b, i)
    BY <1>2, <2>1, FromFacts
  <2> QED
    BY <2>2, <2>3, FromFacts, FS_Subset
<1>3. ~ (d < e \/ (d = e /\ k > j)) /\ ~ (e < d \/ (e = d /\ j > k))
  BY <1>2
<1> QED
  BY <1>1, <1>3

\* The data packets among them, when the first data[d] of a block are.
DataOf(S, data) == {x \in S : x[2] < data[x[1]]}
DataFrom(count, size, data, d, k) == DataOf(From(count, size, d, k), data)

DataSizes(count, size) ==
  {data \in [1 .. count -> Nat] : \A d \in 1 .. count : 1 <= data[d] /\ data[d] <= size[d]}

LEMMA DataFromFacts ==
  ASSUME NEW count \in Nat, NEW size \in Sizes(count), NEW data \in DataSizes(count, size),
         NEW d, NEW k
  PROVE  /\ DataFrom(count, size, data, d, k) \in SUBSET Places(count, size)
         /\ IsFiniteSet(DataFrom(count, size, data, d, k))
         /\ Cardinality(DataFrom(count, size, data, d, k)) \in Nat
         /\ \A e, j : <<e, j>> \in DataFrom(count, size, data, d, k) <=>
              /\ e \in 1 .. count /\ j \in 0 .. size[e] - 1 /\ j < data[e]
              /\ e < d \/ (e = d /\ j >= k)
<1>1. DataFrom(count, size, data, d, k) \subseteq From(count, size, d, k)
  BY DEF DataFrom, DataOf
<1>2. IsFiniteSet(DataFrom(count, size, data, d, k))
  BY <1>1, FromFacts, FS_Subset
<1>3. Cardinality(DataFrom(count, size, data, d, k)) \in Nat
  BY <1>2, FS_CardinalityType
<1>4. ASSUME NEW e, NEW j
      PROVE  <<e, j>> \in DataFrom(count, size, data, d, k) <=>
               /\ e \in 1 .. count /\ j \in 0 .. size[e] - 1 /\ j < data[e]
               /\ e < d \/ (e = d /\ j >= k)
  BY FromFacts DEF DataFrom, DataOf
<1> QED
  BY <1>1, <1>2, <1>3, <1>4, FromFacts

\* The first k packets of a block.
Beginning(d, k) == {d} \X (0 .. k - 1)

LEMMA BeginningFacts ==
  ASSUME NEW d, NEW k \in Nat
  PROVE  /\ IsFiniteSet(Beginning(d, k)) /\ Cardinality(Beginning(d, k)) = k
         /\ \A e, j : <<e, j>> \in Beginning(d, k) <=> e = d /\ j \in 0 .. k - 1
<1>1. IsFiniteSet(0 .. k - 1) /\ Cardinality(0 .. k - 1) = k
  BY FS_Interval
<1>2. IsFiniteSet({d}) /\ Cardinality({d}) = 1
  BY FS_Singleton
<1>3. IsFiniteSet(Beginning(d, k)) /\ Cardinality(Beginning(d, k)) = 1 * k
  BY <1>1, <1>2, FS_Product DEF Beginning
<1> QED
  BY <1>3 DEF Beginning

LEMMA BeginningPlaces ==
  ASSUME NEW count \in Nat, NEW size \in Sizes(count), NEW d \in 1 .. count, NEW k \in Nat, k <= size[d]
  PROVE  Beginning(d, k) \in SUBSET Places(count, size)
<1> SUFFICES ASSUME NEW x \in Beginning(d, k) PROVE x \in Places(count, size)
  OBVIOUS
<1>1. x = <<x[1], x[2]>> /\ x[1] = d /\ x[2] \in 0 .. k - 1
  BY DEF Beginning
<1>2. size[d] \in Nat
  BY PlaceFacts
<1>3. <<x[1], x[2]>> \in Places(count, size)
  BY <1>1, <1>2, PlaceFacts
<1> QED
  BY <1>1, <1>3

\* Two sets of places that have nothing in common.
LEMMA Apart ==
  ASSUME NEW count \in Nat, NEW size \in Sizes(count),
         NEW S \in SUBSET Places(count, size), NEW T \in SUBSET Places(count, size),
         \A e \in 1 .. count, j \in Nat : ~ (<<e, j>> \in S /\ <<e, j>> \in T),
         NEW U, U = S \cup T
  PROVE  IsFiniteSet(U) /\ Cardinality(U) = Cardinality(S) + Cardinality(T)
<1>1. S \cap T = {}
  <2> SUFFICES ASSUME NEW x \in S \cap T PROVE FALSE
    OBVIOUS
  <2>1. x = <<x[1], x[2]>> /\ x[1] \in 1 .. count /\ x[2] \in Nat
    BY Pairs
  <2> QED
    BY <2>1
<1>2. IsFiniteSet(S) /\ IsFiniteSet(T)
  BY PlaceFacts, FS_Subset
<1>3. Cardinality(S) \in Nat /\ Cardinality(T) \in Nat
  BY <1>2, FS_CardinalityType
<1>4. /\ IsFiniteSet(S \cup T)
      /\ Cardinality(S \cup T) = Cardinality(S) + Cardinality(T) - Cardinality(S \cap T)
  BY <1>2, FS_Union
<1>5. Cardinality(S \cap T) = 0
  BY <1>1, FS_EmptySet, Zenon
<1> QED
  BY <1>3, <1>4, <1>5

\* How the data packets of a block, and of the blocks before it, add up.
LEMMA DataAddUp ==
  ASSUME NEW count \in Nat, NEW size \in Sizes(count), NEW data \in DataSizes(count, size),
         NEW d \in 1 .. count
  PROVE  LET From0(e, k) == Cardinality(DataFrom(count, size, data, e, k))
         IN  /\ \A k \in 0 .. data[d] - 1 : From0(d, 0) = From0(d, k) + k
             /\ \A k \in data[d] .. size[d] - 1 : From0(d, data[d] - 1) = From0(d, k) + 1
             /\ \A e \in 1 .. d - 1 : From0(d, 0) >= From0(e, 0) + data[d]
<1> DEFINE D(e, k) == DataFrom(count, size, data, e, k)
<1>1. /\ data[d] \in Nat /\ 1 <= data[d] /\ data[d] <= size[d] /\ size[d] \in Nat
      /\ \A e \in 1 .. count : data[e] \in Nat /\ size[e] \in Nat
  BY PlaceFacts DEF DataSizes
<1>2. \A e, k : /\ D(e, k) \in SUBSET Places(count, size) /\ IsFiniteSet(D(e, k)) /\ Cardinality(D(e, k)) \in Nat
                /\ \A b, i : <<b, i>> \in D(e, k) <=>
                     /\ b \in 1 .. count /\ i \in 0 .. size[b] - 1 /\ i < data[b]
                     /\ b < e \/ (b = e /\ i >= k)
  BY DataFromFacts
<1> HIDE DEF D
<1>3. ASSUME NEW k \in 0 .. data[d] - 1
      PROVE  Cardinality(D(d, 0)) = Cardinality(D(d, k)) + k
  <2>1. k \in Nat /\ k <= size[d]
    BY <1>1
  <2>2. /\ IsFiniteSet(Beginning(d, k)) /\ Cardinality(Beginning(d, k)) = k
        /\ Beginning(d, k) \in SUBSET Places(count, size)
        /\ \A e, j : <<e, j>> \in Beginning(d, k) <=> e = d /\ j \in 0 .. k - 1
    BY <2>1, BeginningFacts, BeginningPlaces
  <2> DEFINE S == D(d, k)
             H == Beginning(d, k)
             T == S \cup H
  <2> HIDE DEF H
  <2>3. S \in SUBSET Places(count, size) /\ H \in SUBSET Places(count, size)
    BY <1>2, <2>2 DEF H
  <2>4. \A e \in 1 .. count, j \in Nat : ~ (<<e, j>> \in S /\ <<e, j>> \in H)
    <3> SUFFICES ASSUME NEW e \in 1 .. count, NEW j \in Nat, <<e, j>> \in S, <<e, j>> \in H PROVE FALSE
      OBVIOUS
    <3>1. e = d /\ j \in 0 .. k - 1
      BY <2>2 DEF H
    <3>2. e < d \/ (e = d /\ j >= k)
      BY <1>2
    <3> QED
      BY <2>1, <3>1, <3>2
  <2>5. \A e \in 1 .. count, j \in Nat : <<e, j>> \in D(d, 0) <=> <<e, j>> \in T
    <3> SUFFICES ASSUME NEW e \in 1 .. count, NEW j \in Nat
                 PROVE  <<e, j>> \in D(d, 0) <=> <<e, j>> \in S \/ <<e, j>> \in H
      OBVIOUS
    <3>1. <<e, j>> \in H <=> e = d /\ j \in 0 .. k - 1
      BY <2>2 DEF H
    <3>2. <<e, j>> \in S <=> j \in 0 .. size[e] - 1 /\ j < data[e] /\ (e < d \/ (e = d /\ j >= k))
      BY <1>2
    <3>3. <<e, j>> \in D(d, 0) <=> j \in 0 .. size[e] - 1 /\ j < data[e] /\ (e < d \/ (e = d /\ j >= 0))
      BY <1>2
    <3> HIDE DEF S
    <3> QED
      BY <1>1, <2>1, <3>1, <3>2, <3>3
  <2>6. Cardinality(T) = Cardinality(S) + Cardinality(H)
    <3>1. T = S \cup H
      OBVIOUS
    <3> HIDE DEF S, T
    <3> QED
      BY <2>3, <2>4, <3>1, Apart
  <2>7. D(d, 0) \in SUBSET Places(count, size) /\ T \in SUBSET Places(count, size)
    BY <1>2, <2>3
  <2> HIDE DEF T
  <2>8. D(d, 0) = T
    BY <2>5, <2>7, SamePlaces, Zenon
  <2> QED
    BY <2>2, <2>6, <2>8 DEF H
<1>4. ASSUME NEW k \in data[d] .. size[d] - 1
      PROVE  Cardinality(D(d, data[d] - 1)) = Cardinality(D(d, k)) + 1
  <2> DEFINE x == <<d, data[d] - 1>>
             T == D(d, k) \cup {x}
  <2>1. k \in Nat
    BY <1>1
  <2>2. x \in D(d, data[d] - 1) /\ x \notin D(d, k)
    BY <1>1, <1>2, <2>1
  <2>3. \A e \in 1 .. count, j \in Nat : <<e, j>> \in D(d, data[d] - 1) <=> <<e, j>> \in T
    <3> SUFFICES ASSUME NEW e \in 1 .. count, NEW j \in Nat
                 PROVE  <<e, j>> \in D(d, data[d] - 1) <=> <<e, j>> \in D(d, k) \/ (e = d /\ j = data[d] - 1)
      OBVIOUS
    <3>1. <<e, j>> \in D(d, k) <=> j \in 0 .. size[e] - 1 /\ j < data[e] /\ (e < d \/ (e = d /\ j >= k))
      BY <1>2
    <3>2. <<e, j>> \in D(d, data[d] - 1) <=>
            j \in 0 .. size[e] - 1 /\ j < data[e] /\ (e < d \/ (e = d /\ j >= data[d] - 1))
      BY <1>2
    <3>3. e = d => data[e] = data[d] /\ size[e] = size[d]
      OBVIOUS
    <3> QED
      BY <1>1, <2>1, <3>1, <3>2, <3>3
  <2>4. D(d, data[d] - 1) \in SUBSET Places(count, size) /\ T \in SUBSET Places(count, size)
    BY <1>2, <2>2
  <2>5. Cardinality(T) = Cardinality(D(d, k)) + 1
    BY <1>2, <2>2, FS_AddElement
  <2> DEFINE S == D(d, data[d] - 1)
  <2>6. S = T
    <3>1. S \in SUBSET Places(count, size) /\ T \in SUBSET Places(count, size)
      BY <2>4
    <3>2. \A e \in 1 .. count, j \in Nat : <<e, j>> \in S <=> <<e, j>> \in T
      BY <2>3
    <3> HIDE DEF S, T
    <3> QED
      BY <3>1, <3>2, SamePlaces
  <2> QED
    BY <2>5, <2>6
<1>5. ASSUME NEW e \in 1 .. d - 1
      PROVE  Cardinality(D(d, 0)) >= Cardinality(D(e, 0)) + data[d]
  <2> DEFINE S == D(e, 0)
             H == Beginning(d, data[d])
             T == S \cup H
  <2>2. /\ IsFiniteSet(H) /\ Cardinality(H) = data[d] /\ H \in SUBSET Places(count, size)
        /\ \A b, j : <<b, j>> \in H <=> b = d /\ j \in 0 .. data[d] - 1
    BY <1>1, BeginningFacts, BeginningPlaces
  <2> HIDE DEF H
  <2>3. S \in SUBSET Places(count, size)
    BY <1>2
  <2>4. \A b \in 1 .. count, j \in Nat : ~ (<<b, j>> \in S /\ <<b, j>> \in H)
    <3> SUFFICES ASSUME NEW b \in 1 .. count, NEW j \in Nat, <<b, j>> \in S, <<b, j>> \in H PROVE FALSE
      OBVIOUS
    <3>1. b = d
      BY <2>2
    <3>2. b < e \/ (b = e /\ j >= 0)
      BY <1>2
    <3> QED
      BY <3>1, <3>2
  <2>5. ASSUME NEW x \in T PROVE x \in D(d, 0)
    <3>1. x = <<x[1], x[2]>> /\ x[1] \in 1 .. count /\ x[2] \in 0 .. size[x[1]] - 1 /\ size[x[1]] \in Nat
      BY <2>2, <2>3, Pairs
    <3>2. CASE x \in S
      <4>1. x[2] < data[x[1]] /\ (x[1] < e \/ (x[1] = e /\ x[2] >= 0))
        BY <1>2, <3>1, <3>2
      <4>2. x[1] < d
        BY <3>1, <4>1
      <4>3. <<x[1], x[2]>> \in D(d, 0)
        BY <1>2, <3>1, <4>1, <4>2
      <4> QED
        BY <3>1, <4>3
    <3>3. CASE x \in H
      <4>1. x[1] = d /\ x[2] \in 0 .. data[d] - 1
        BY <2>2, <3>1, <3>3
      <4>2. <<x[1], x[2]>> \in D(d, 0)
        BY <1>1, <1>2, <3>1, <4>1
      <4> QED
        BY <3>1, <4>2
    <3> QED
      BY <3>2, <3>3
  <2>6. Cardinality(T) = Cardinality(S) + Cardinality(H) /\ IsFiniteSet(T)
    <3>1. T = S \cup H
      OBVIOUS
    <3> HIDE DEF S, T
    <3> QED
      BY <2>2, <2>3, <2>4, <3>1, Apart
  <2> HIDE DEF T
  <2>7. Cardinality(T) <= Cardinality(D(d, 0))
    BY <1>2, <2>5, FS_Subset
  <2> QED
    BY <1>1, <1>2, <2>2, <2>6, <2>7
<1> QED
  BY <1>3, <1>4, <1>5 DEF D

\* The walk back is what its definition says.
LEMMA WalkDefined ==
  ASSUME NEW ring, NEW end, NEW steps \in Nat
  PROVE  /\ WalkBack(ring, end, steps)[0] = end
         /\ \A n \in 1 .. steps :
              WalkBack(ring, end, steps)[n] = StepBack(ring, WalkBack(ring, end, steps)[n - 1])
<1> DEFINE Defines(f, n) == f = [m \in 0 .. n |-> IF m = 0 THEN end ELSE StepBack(ring, f[m - 1])]
           S == {n \in Nat : \E f : Defines(f, n)}
<1>1. 0 \in S
  <2>1. Defines([m \in 0 .. 0 |-> end], 0)
    OBVIOUS
  <2> QED
    BY <2>1
<1>2. ASSUME NEW n \in 0 .. steps - 1, n \in S PROVE n + 1 \in S
  <2>1. PICK f : Defines(f, n)
    BY <1>2
  <2> DEFINE g == [m \in 0 .. n + 1 |-> IF m = n + 1 THEN StepBack(ring, f[n]) ELSE f[m]]
  <2>2. ASSUME NEW m \in 0 .. n + 1
        PROVE  g[m] = IF m = 0 THEN end ELSE StepBack(ring, g[m - 1])
    <3>0. n \in Nat
      OBVIOUS
    <3>1. CASE m = n + 1
      BY <3>0, <3>1
    <3>2. CASE m # n + 1
      <4>1. m \in 0 .. n
        BY <3>0, <3>2
      <4>2. f[m] = IF m = 0 THEN end ELSE StepBack(ring, f[m - 1])
        BY <2>1, <4>1
      <4> QED
        BY <3>0, <3>2, <4>1, <4>2
    <3> QED
      BY <3>1, <3>2
  <2>3. Defines(g, n + 1)
    BY <2>2
  <2> HIDE DEF g, Defines
  <2>4. \E h : Defines(h, n + 1)
    BY <2>3
  <2> QED
    BY <2>4
<1> HIDE DEF S
<1>3. steps \in S
  <2>1. \A m \in 0 .. steps : m \in S
    BY <1>1, <1>2, Induction
  <2> QED
    BY <2>1
<1>4. \E f : Defines(f, steps)
  BY <1>3 DEF S
<1>5. Defines(WalkBack(ring, end, steps), steps)
  BY <1>4 DEF WalkBack
<1> QED
  BY <1>5

\* The blocks before a position of the ring: their sizes, their data packets,
\* and that they are blocks of the current frame in full.
RowSize(ring, at, blocks) ==
  [d \in 1 .. blocks |-> ring[Back(at, d)][0].data + ring[Back(at, d)][0].ec]
RowData(ring, at, blocks) == [d \in 1 .. blocks |-> ring[Back(at, d)][0].data]

FrameRow(ring, at, blocks) ==
  /\ ring \in Ring /\ at \in Slot /\ blocks \in 1 .. MaxBlocks - 1
  /\ \A d \in 1 .. blocks :
       LET slot == ring[Back(at, d)]
       IN  /\ slot[0].data \in 1 .. MaxDataPackets /\ slot[0].ec \in 0 .. slot[0].data
           /\ \A k \in PacketIndex :
                IF k < slot[0].data + slot[0].ec
                  THEN /\ ~ slot[k].empty /\ slot[k].frame = frame
                       /\ slot[k].idx = k /\ slot[k].data = slot[0].data
                  ELSE slot[k].empty

\* Where in the ring a place of the row is.
Position(at, d, k) == [slot |-> Back(at, d), pkt |-> k]

LEMMA RowFacts ==
  ASSUME NEW ring, NEW at, NEW blocks, FrameRow(ring, at, blocks)
  PROVE  /\ blocks \in Nat \ {0} /\ RowSize(ring, at, blocks) \in Sizes(blocks)
         /\ RowData(ring, at, blocks) \in DataSizes(blocks, RowSize(ring, at, blocks))
         /\ \A d \in 1 .. blocks :
              /\ Back(at, d) \in Slot /\ Back(Back(at, d), 1) = Back(at, d + 1)
              /\ RowSize(ring, at, blocks)[d] = ring[Back(at, d)][0].data + ring[Back(at, d)][0].ec
              /\ RowData(ring, at, blocks)[d] = ring[Back(at, d)][0].data
              /\ ring[Back(at, d)][0].data \in Nat /\ ring[Back(at, d)][0].ec \in Nat
              /\ \A e \in 1 .. blocks : Back(at, e) = Back(at, d) => e = d
              /\ \A k \in 0 .. RowSize(ring, at, blocks)[d] - 1 :
                   /\ k \in PacketIndex
                   /\ ring[Back(at, d)][k].frame = frame /\ ~ ring[Back(at, d)][k].empty
                   /\ IsData(ring[Back(at, d)][k]) <=> k < RowData(ring, at, blocks)[d]
<1> DEFINE size == RowSize(ring, at, blocks)
           data == RowData(ring, at, blocks)
<1>1. blocks \in Nat \ {0} /\ blocks <= MaxBlocks - 1 /\ at \in Slot
  BY TxBufferAssumption DEF FrameRow
<1>2. ASSUME NEW d \in 1 .. blocks
      PROVE  /\ Back(at, d) \in Slot /\ Back(Back(at, d), 1) = Back(at, d + 1)
             /\ \A e \in 1 .. blocks : Back(at, e) = Back(at, d) => e = d
  BY <1>1, TxBufferAssumption DEF Slot, Back
<1>3. ASSUME NEW d \in 1 .. blocks
      PROVE  /\ data[d] = ring[Back(at, d)][0].data
             /\ size[d] = data[d] + ring[Back(at, d)][0].ec
             /\ ring[Back(at, d)][0].data \in Nat /\ ring[Back(at, d)][0].ec \in Nat
             /\ data[d] \in Nat /\ 1 <= data[d] /\ data[d] <= size[d]
             /\ size[d] \in 1 .. MaxPacketsInBlock
  BY TxBufferAssumption DEF RowSize, RowData, FrameRow
<1>4. size \in Sizes(blocks)
  BY <1>3 DEF Sizes, RowSize
<1>5. data \in DataSizes(blocks, size)
  BY <1>3 DEF DataSizes, RowData
<1>6. ASSUME NEW d \in 1 .. blocks, NEW k \in 0 .. size[d] - 1
      PROVE  /\ k \in PacketIndex
             /\ ring[Back(at, d)][k].frame = frame /\ ~ ring[Back(at, d)][k].empty
             /\ IsData(ring[Back(at, d)][k]) <=> k < data[d]
  <2>1. k \in PacketIndex
    BY <1>3, TxBufferAssumption DEF PacketIndex
  <2>2. k < ring[Back(at, d)][0].data + ring[Back(at, d)][0].ec
    BY <1>3
  <2>3. /\ ~ ring[Back(at, d)][k].empty /\ ring[Back(at, d)][k].frame = frame
        /\ ring[Back(at, d)][k].idx = k /\ ring[Back(at, d)][k].data = ring[Back(at, d)][0].data
    BY <2>1, <2>2 DEF FrameRow
  <2> QED
    BY <1>3, <2>1, <2>3 DEF IsData
<1> QED
  BY <1>1, <1>2, <1>3, <1>4, <1>5, <1>6

LEMMA StepFacts ==
  ASSUME NEW ring, NEW s, NEW k
  PROVE  /\ k > 0 => StepBack(ring, [slot |-> s, pkt |-> k]) = [slot |-> s, pkt |-> k - 1]
         /\ ~ (k > 0) =>
              StepBack(ring, [slot |-> s, pkt |-> k]) =
                [slot |-> Back(s, 1), pkt |-> ring[Back(s, 1)][0].data + ring[Back(s, 1)][0].ec - 1]
<1> DEFINE pos == [slot |-> s, pkt |-> k]
<1>1. pos.pkt = k /\ pos.slot = s
  OBVIOUS
<1>2. [pos EXCEPT !.pkt = @ - 1] = [slot |-> s, pkt |-> k - 1]
  OBVIOUS
<1>3. StepBack(ring, pos) =
        IF pos.pkt > 0 THEN [pos EXCEPT !.pkt = @ - 1]
        ELSE [slot |-> Back(pos.slot, 1),
              pkt |-> ring[Back(pos.slot, 1)][0].data + ring[Back(pos.slot, 1)][0].ec - 1]
  BY DEF StepBack
<1> HIDE DEF pos
<1>4. StepBack(ring, pos) =
        IF k > 0 THEN [slot |-> s, pkt |-> k - 1]
        ELSE [slot |-> Back(s, 1), pkt |-> ring[Back(s, 1)][0].data + ring[Back(s, 1)][0].ec - 1]
  BY <1>1, <1>2, <1>3, Zenon
<1> QED
  BY <1>4, Zenon DEF pos

LEMMA StepDown ==
  ASSUME NEW ring, NEW s, NEW k, k > 0
  PROVE  StepBack(ring, [slot |-> s, pkt |-> k]) = [slot |-> s, pkt |-> k - 1]
BY StepFacts

\* A step back goes to the place behind.
LEMMA StepsBack ==
  ASSUME NEW ring, NEW at, NEW blocks, FrameRow(ring, at, blocks)
  PROVE  /\ StepBack(ring, [slot |-> at, pkt |-> 0]) =
               Position(at, 1, RowSize(ring, at, blocks)[1] - 1)
         /\ \A d \in 1 .. blocks, k \in Nat :
              k > 0 \/ d + 1 \in 1 .. blocks =>
                StepBack(ring, Position(at, d, k)) =
                  Position(at, BehindBlock(d, k), BehindPacket(RowSize(ring, at, blocks), d, k))
<1>1. 1 \in 1 .. blocks
  BY RowFacts
<1>2. StepBack(ring, [slot |-> at, pkt |-> 0]) = Position(at, 1, RowSize(ring, at, blocks)[1] - 1)
  <2>1. /\ RowSize(ring, at, blocks)[1] = ring[Back(at, 1)][0].data + ring[Back(at, 1)][0].ec
        /\ ring[Back(at, 1)][0].data \in Nat /\ ring[Back(at, 1)][0].ec \in Nat
    BY <1>1, RowFacts
  <2>2. ~ (0 > 0)
    OBVIOUS
  <2>3. StepBack(ring, [slot |-> at, pkt |-> 0]) =
          [slot |-> Back(at, 1), pkt |-> ring[Back(at, 1)][0].data + ring[Back(at, 1)][0].ec - 1]
    BY <2>2, StepFacts, Zenon
  <2>4. ring[Back(at, 1)][0].data + ring[Back(at, 1)][0].ec - 1 = RowSize(ring, at, blocks)[1] - 1
    BY <2>1
  <2> QED
    BY <2>3, <2>4, Zenon DEF Position
<1>3. ASSUME NEW d \in 1 .. blocks, NEW k \in Nat, k > 0 \/ d + 1 \in 1 .. blocks
      PROVE  StepBack(ring, Position(at, d, k)) =
               Position(at, BehindBlock(d, k), BehindPacket(RowSize(ring, at, blocks), d, k))
  <2>1. CASE k > 0
    BY <2>1, StepFacts DEF Position, BehindBlock, BehindPacket
  <2>2. CASE ~ (k > 0)
    <3>1. d + 1 \in 1 .. blocks /\ k = 0
      BY <1>3, <2>2
    <3>2. Back(Back(at, d), 1) = Back(at, d + 1)
      BY RowFacts
    <3>3. /\ RowSize(ring, at, blocks)[d + 1] = ring[Back(at, d + 1)][0].data + ring[Back(at, d + 1)][0].ec
          /\ ring[Back(at, d + 1)][0].data \in Nat /\ ring[Back(at, d + 1)][0].ec \in Nat
      BY <3>1, RowFacts
    <3> QED
      <4>1. /\ BehindBlock(d, k) = d + 1
            /\ BehindPacket(RowSize(ring, at, blocks), d, k) = RowSize(ring, at, blocks)[d + 1] - 1
        BY <3>1 DEF BehindBlock, BehindPacket
      <4>2. StepBack(ring, [slot |-> Back(at, d), pkt |-> k]) =
              [slot |-> Back(Back(at, d), 1),
               pkt |-> ring[Back(Back(at, d), 1)][0].data + ring[Back(Back(at, d), 1)][0].ec - 1]
        BY <2>2, StepFacts, Zenon
      <4>3. ring[Back(Back(at, d), 1)][0].data + ring[Back(Back(at, d), 1)][0].ec - 1 =
              RowSize(ring, at, blocks)[d + 1] - 1
        BY <3>2, <3>3
      <4> QED
        BY <3>2, <4>1, <4>2, <4>3, Zenon DEF Position
  <2> QED
    BY <2>1, <2>2
<1> QED
  BY <1>2, <1>3

\* The packet n steps back, and that it is the one in a place: as many packets
\* are not behind it, and as many data packets, as were met.
AtStep(ring, back, n) == ring[back[n].slot][back[n].pkt]
DataMet(ring, back, n) == {m \in 1 .. n : IsData(AtStep(ring, back, m))}

Met(ring, at, blocks, back, n, d, k) ==
  LET size == RowSize(ring, at, blocks)
  IN  /\ <<d, k>> \in Places(blocks, size)
      /\ back[n] = Position(at, d, k)
      /\ Cardinality(From(blocks, size, d, k)) = n
      /\ Cardinality(DataMet(ring, back, n)) =
           Cardinality(DataFrom(blocks, size, RowData(ring, at, blocks), d, k))

LEMMA DataMetFacts ==
  ASSUME NEW ring, NEW back, NEW n \in Nat
  PROVE  /\ IsFiniteSet(DataMet(ring, back, n)) /\ Cardinality(DataMet(ring, back, n)) \in Nat
         /\ Cardinality(DataMet(ring, back, n + 1)) =
              Cardinality(DataMet(ring, back, n)) + IF IsData(AtStep(ring, back, n + 1)) THEN 1 ELSE 0
<1>1. IsFiniteSet(1 .. n)
  BY FS_Interval
<1>2. IsFiniteSet(DataMet(ring, back, n))
  BY <1>1, FS_Subset DEF DataMet
<1>3. Cardinality(DataMet(ring, back, n)) \in Nat
  BY <1>2, FS_CardinalityType
<1>4. CASE IsData(AtStep(ring, back, n + 1))
  <2>1. DataMet(ring, back, n + 1) = DataMet(ring, back, n) \cup {n + 1} /\ n + 1 \notin DataMet(ring, back, n)
    BY <1>4 DEF DataMet
  <2>2. Cardinality(DataMet(ring, back, n) \cup {n + 1}) = Cardinality(DataMet(ring, back, n)) + 1
    BY <1>2, <2>1, FS_AddElement
  <2> QED
    BY <1>2, <1>3, <1>4, <2>1, <2>2
<1>5. CASE ~ IsData(AtStep(ring, back, n + 1))
  <2>1. DataMet(ring, back, n + 1) = DataMet(ring, back, n)
    <3>1. ASSUME NEW m \in 1 .. n + 1, IsData(AtStep(ring, back, m)) PROVE m \in 1 .. n
      BY <1>5, <3>1
    <3> QED
      BY <3>1 DEF DataMet
  <2> QED
    BY <1>2, <1>3, <1>5, <2>1
<1> QED
  BY <1>4, <1>5

\* One place more adds its data packet.
LEMMA DataOfMore ==
  ASSUME NEW S, IsFiniteSet(S), NEW data, NEW e, NEW j, <<e, j>> \notin S
  PROVE  Cardinality(DataOf(S \cup {<<e, j>>}, data)) =
           Cardinality(DataOf(S, data)) + IF j < data[e] THEN 1 ELSE 0
<1> DEFINE y     == <<e, j>>
           Of(x) == x[2] < data[x[1]]
           old   == {x \in S : Of(x)}
           new   == {x \in S \cup {y} : Of(x)}
<1>1. DataOf(S, data) = old /\ DataOf(S \cup {<<e, j>>}, data) = new
  BY DEF DataOf
<1>2. y \notin S /\ (Of(y) <=> j < data[e])
  OBVIOUS
<1> HIDE DEF y, Of
<1>3. IsFiniteSet(old) /\ Cardinality(old) \in Nat
  BY FS_Subset, FS_CardinalityType
<1>4. Cardinality(new) = Cardinality(old) + IF Of(y) THEN 1 ELSE 0
  <2>1. CASE Of(y)
    <3>1. new = old \cup {y} /\ y \notin old
      BY <1>2, <2>1
    <3> HIDE DEF old, new
    <3> QED
      BY <1>3, <2>1, <3>1, FS_AddElement
  <2>2. CASE ~ Of(y)
    <3>1. new = old
      BY <2>2
    <3> HIDE DEF old, new
    <3> QED
      BY <1>3, <2>2, <3>1
  <2> QED
    BY <2>1, <2>2
<1> HIDE DEF old, new
<1> QED
  BY <1>1, <1>2, <1>4

\* The walk meets every packet of the row, one after the other.
LEMMA WalkFacts ==
  ASSUME NEW ring, NEW at, NEW blocks, FrameRow(ring, at, blocks),
         NEW total, total = Cardinality(Places(blocks, RowSize(ring, at, blocks))),
         NEW back, back[0] = [slot |-> at, pkt |-> 0],
         \A n \in 1 .. total : back[n] = StepBack(ring, back[n - 1])
  PROVE  /\ total \in Nat \ {0}
         /\ \A n \in 1 .. total : \E d, k : Met(ring, at, blocks, back, n, d, k)
<1> DEFINE size == RowSize(ring, at, blocks)
           data == RowData(ring, at, blocks)
           Meets(n) == \E d, k : Met(ring, at, blocks, back, n, d, k)
           S == {n \in Nat : n < total => Meets(n + 1)}
<1>1. /\ blocks \in Nat \ {0} /\ size \in Sizes(blocks) /\ data \in DataSizes(blocks, size)
      /\ \A d \in 1 .. blocks : \A k \in 0 .. size[d] - 1 : IsData(ring[Back(at, d)][k]) <=> k < data[d]
      /\ StepBack(ring, [slot |-> at, pkt |-> 0]) = Position(at, 1, size[1] - 1)
      /\ \A d \in 1 .. blocks, k \in Nat :
           k > 0 \/ d + 1 \in 1 .. blocks =>
             StepBack(ring, Position(at, d, k)) =
               Position(at, BehindBlock(d, k), BehindPacket(size, d, k))
  BY RowFacts, StepsBack
<1> HIDE DEF size, data
<1>2. <<1, size[1] - 1>> \in Places(blocks, size) /\ From(blocks, size, 1, size[1] - 1) = {<<1, size[1] - 1>>}
  BY <1>1, FirstPlace
<1>3. total \in Nat \ {0}
  <2>1. IsFiniteSet(Places(blocks, size)) /\ Places(blocks, size) # {}
    BY <1>1, <1>2, PlaceFacts
  <2> QED
    BY <2>1, FS_CardinalityType, FS_EmptySet DEF size
<1>4. ASSUME NEW n \in Nat, NEW e, NEW j, <<e, j>> \in Places(blocks, size),
             back[n + 1] = Position(at, e, j)
      PROVE  IsData(AtStep(ring, back, n + 1)) <=> j < data[e]
  <2>1. e \in 1 .. blocks /\ j \in 0 .. size[e] - 1
    BY <1>1, <1>4, PlaceFacts
  <2>2. AtStep(ring, back, n + 1) = ring[Back(at, e)][j]
    BY <1>4 DEF AtStep, Position
  <2> QED
    BY <1>1, <2>1, <2>2
<1>5. Meets(1)
  <2> DEFINE j == size[1] - 1
  <2>1. back[1] = Position(at, 1, j)
    <3>1. 1 \in 1 .. total /\ 1 - 1 = 0
      BY <1>3
    <3>2. back[1] = StepBack(ring, back[0])
      BY <3>1
    <3> QED
      BY <1>1, <3>2
  <2>2. From(blocks, size, 1, j) = {} \cup {<<1, j>>}
    BY <1>2
  <2>3. Cardinality(From(blocks, size, 1, j)) = 1
    BY <1>2, FS_Singleton
  <2> HIDE DEF j
  <2>4. Cardinality(DataFrom(blocks, size, data, 1, j)) = IF j < data[1] THEN 1 ELSE 0
    <3>1. Cardinality(DataOf({} \cup {<<1, j>>}, data)) =
            Cardinality(DataOf({}, data)) + IF j < data[1] THEN 1 ELSE 0
      <4> DEFINE E == {}
      <4>1. IsFiniteSet(E) /\ <<1, j>> \notin E
        BY FS_EmptySet
      <4> HIDE DEF E
      <4>2. Cardinality(DataOf(E \cup {<<1, j>>}, data)) =
              Cardinality(DataOf(E, data)) + IF j < data[1] THEN 1 ELSE 0
        BY <4>1, DataOfMore
      <4> QED
        BY <4>2 DEF E
    <3>2. DataOf({}, data) = {}
      BY DEF DataOf
    <3>3. Cardinality(DataOf({}, data)) = 0
      BY <3>2, FS_EmptySet, Zenon
    <3>4. DataFrom(blocks, size, data, 1, j) = DataOf({} \cup {<<1, j>>}, data)
      <4> DEFINE T == {} \cup {<<1, j>>}
      <4>1. From(blocks, size, 1, j) = T
        BY <2>2
      <4> HIDE DEF T
      <4>2. DataFrom(blocks, size, data, 1, j) = DataOf(T, data)
        BY <4>1 DEF DataFrom
      <4> QED
        BY <4>2 DEF T
    <3> QED
      BY <3>1, <3>3, <3>4
  <2>5. Cardinality(DataMet(ring, back, 0 + 1)) = IF IsData(AtStep(ring, back, 0 + 1)) THEN 1 ELSE 0
    <3>1. DataMet(ring, back, 0) = {}
      BY DEF DataMet
    <3> QED
      BY <3>1, DataMetFacts, FS_EmptySet
  <2>6. IsData(AtStep(ring, back, 0 + 1)) <=> j < data[1]
    <3>1. back[0 + 1] = Position(at, 1, j)
      BY <2>1
    <3> QED
      BY <1>2, <1>4, <3>1 DEF j
  <2>7. Met(ring, at, blocks, back, 1, 1, j)
    BY <1>2, <2>1, <2>3, <2>4, <2>5, <2>6 DEF Met, size, data, j
  <2> QED
    BY <2>7
<1>6. ASSUME NEW n \in 1 .. total - 1, Meets(n) PROVE Meets(n + 1)
  <2>0. n \in Nat /\ n + 1 \in 1 .. total /\ n # total /\ (n + 1) - 1 = n
    BY <1>3
  <2>1. PICK d, k : Met(ring, at, blocks, back, n, d, k)
    BY <1>6
  <2>2. /\ <<d, k>> \in Places(blocks, size) /\ back[n] = Position(at, d, k)
        /\ Cardinality(From(blocks, size, d, k)) = n
        /\ Cardinality(DataMet(ring, back, n)) = Cardinality(DataFrom(blocks, size, data, d, k))
    BY <2>1 DEF Met, size, data
  <2> DEFINE e == BehindBlock(d, k)
             j == BehindPacket(size, d, k)
  <2>3. /\ <<e, j>> \in Places(blocks, size) /\ <<e, j>> \notin From(blocks, size, d, k)
        /\ From(blocks, size, e, j) = From(blocks, size, d, k) \cup {<<e, j>>}
    BY <1>1, <2>0, <2>2, NextPlace DEF size
  <2>4. d \in 1 .. blocks /\ k \in Nat /\ e \in 1 .. blocks
    BY <1>1, <2>2, <2>3, PlaceFacts
  <2>5. k > 0 \/ d + 1 \in 1 .. blocks
    BY <2>4 DEF BehindBlock
  <2>6. back[n + 1] = Position(at, e, j)
    <3>1. back[n + 1] = StepBack(ring, back[n])
      BY <2>0
    <3>2. StepBack(ring, Position(at, d, k)) = Position(at, e, j)
      BY <1>1, <2>4, <2>5
    <3> QED
      BY <2>2, <3>1, <3>2
  <2> HIDE DEF e, j
  <2>7. Cardinality(From(blocks, size, e, j)) = n + 1
    BY <1>1, <2>2, <2>3, FromFacts, FS_AddElement
  <2>8. Cardinality(DataFrom(blocks, size, data, e, j)) =
          Cardinality(DataFrom(blocks, size, data, d, k)) + IF j < data[e] THEN 1 ELSE 0
    <3>1. IsFiniteSet(From(blocks, size, d, k))
      BY <1>1, FromFacts
    <3> DEFINE old == From(blocks, size, d, k)
    <3>2. /\ IsFiniteSet(old)
          /\ DataFrom(blocks, size, data, d, k) = DataOf(old, data)
          /\ DataFrom(blocks, size, data, e, j) = DataOf(old \cup {<<e, j>>}, data)
      BY <2>3, <3>1, Zenon DEF DataFrom
    <3>3. <<e, j>> \notin old
      BY <2>3
    <3> HIDE DEF old
    <3>4. Cardinality(DataOf(old \cup {<<e, j>>}, data)) =
            Cardinality(DataOf(old, data)) + IF j < data[e] THEN 1 ELSE 0
      BY <3>2, <3>3, DataOfMore
    <3> QED
      BY <3>2, <3>4
  <2>9. Cardinality(DataMet(ring, back, n + 1)) = Cardinality(DataFrom(blocks, size, data, e, j))
    <3>1. IsData(AtStep(ring, back, n + 1)) <=> j < data[e]
      BY <1>4, <2>0, <2>3, <2>6
    <3>2. Cardinality(DataMet(ring, back, n + 1)) =
            Cardinality(DataMet(ring, back, n)) + IF IsData(AtStep(ring, back, n + 1)) THEN 1 ELSE 0
      BY <2>0, DataMetFacts
    <3> QED
      BY <2>2, <2>8, <3>1, <3>2
  <2>10. Met(ring, at, blocks, back, n + 1, e, j)
    BY <2>3, <2>6, <2>7, <2>9 DEF Met, size, data
  <2> QED
    BY <2>10
<1> HIDE DEF Meets
<1>7. 0 \in S
  BY <1>5
<1>8. \A n \in 0 .. (total - 1) - 1 : n \in S => n + 1 \in S
  <2> SUFFICES ASSUME NEW n \in 0 .. (total - 1) - 1, n \in S PROVE n + 1 \in S
    OBVIOUS
  <2>1. n + 1 \in 1 .. total - 1 /\ n < total /\ n + 1 \in Nat
    BY <1>3
  <2>2. Meets(n + 1)
    BY <2>1
  <2> QED
    BY <1>6, <2>1, <2>2
<1> HIDE DEF S
<1>9. \A n \in 0 .. total - 1 : n \in S
  BY <1>3, <1>7, <1>8, Induction
<1>10. ASSUME NEW n \in 1 .. total PROVE Meets(n)
  <2>1. n - 1 \in 0 .. total - 1 /\ n - 1 < total /\ (n - 1) + 1 = n
    BY <1>3
  <2> QED
    BY <1>9, <2>1 DEF S
<1> QED
  BY <1>3, <1>10 DEF Meets

\* All the ring behind the row, up to the slot the walk set out from, opens
\* with packets of the same frame.
RestOfRing(ring, at, blocks) ==
  \A c \in blocks + 1 .. MaxBlocks : ring[Back(at, c)][0].frame = frame

\* The last place of the row is not before any other.
LEMMA LastPlace ==
  ASSUME NEW count \in Nat \ {0}, NEW size \in Sizes(count)
  PROVE  /\ <<count, 0>> \in Places(count, size)
         /\ From(count, size, count, 0) = Places(count, size)
<1>1. count \in 1 .. count /\ size[count] \in Nat \ {0}
  BY PlaceFacts
<1>2. <<count, 0>> \in Places(count, size)
  BY <1>1, PlaceFacts
<1>3. ASSUME NEW x \in Places(count, size) PROVE x \in From(count, size, count, 0)
  <2>1. x[1] \in 1 .. count /\ x[2] \in 0 .. size[x[1]] - 1 /\ size[x[1]] \in Nat
    BY Pairs
  <2> QED
    BY <2>1 DEF From
<1> QED
  BY <1>2, <1>3, FromFacts

\* The first n steps back meet packets of the current frame; a step back lies
\* behind the row.
MetOfFrame(ring, back, n) == \A m \in 1 .. n : AtStep(ring, back, m).frame = frame
BehindRow(at, blocks, back, n) == \E e \in blocks + 1 .. MaxBlocks : back[n].slot = Back(at, e)

\* A walk that goes on behind the row comes to the slots behind it one after
\* the other, and back to the row only once all of them are of the frame.
LEMMA WalkBehind ==
  ASSUME NEW ring, NEW at, NEW blocks, FrameRow(ring, at, blocks),
         NEW total, total = Cardinality(Places(blocks, RowSize(ring, at, blocks))),
         NEW steps \in Nat, \A s \in Slot : ring[s][0].data > 0,
         NEW back, back[0] = [slot |-> at, pkt |-> 0],
         \A n \in 1 .. steps : back[n] = StepBack(ring, back[n - 1]),
         ~ RestOfRing(ring, at, blocks)
  PROVE  \A n \in total + 1 .. steps :
           MetOfFrame(ring, back, n) => BehindRow(at, blocks, back, n)
<1> SUFFICES ASSUME NEW n \in total + 1 .. steps,
                    \A m \in 1 .. n : AtStep(ring, back, m).frame = frame
             PROVE  \E e \in blocks + 1 .. MaxBlocks : back[n].slot = Back(at, e)
  BY DEF MetOfFrame, BehindRow
<1> DEFINE size == RowSize(ring, at, blocks)
           IsFrame(c) == ring[Back(at, c)][0].frame = frame
           Behind(m, e, k) == /\ e \in blocks .. MaxBlocks /\ k \in Nat
                              /\ back[m] = Position(at, e, k)
                              /\ \A c \in blocks + 1 .. e - 1 : IsFrame(c)
                              /\ e = blocks => k = 0 /\ m = total
           S == {i \in Nat : total + i <= n => \E e, k : Behind(total + i, e, k)}
<1>1. /\ blocks \in Nat \ {0} /\ blocks <= MaxBlocks - 1 /\ MaxBlocks \in Nat /\ at \in Slot /\ ring \in Ring
      /\ size \in Sizes(blocks) /\ 0 \in PacketIndex
  BY RowFacts, TxBufferAssumption DEF FrameRow, PacketIndex
<1>2. /\ \A e \in 1 .. MaxBlocks : Back(at, e) \in Slot
      /\ \A e \in 1 .. MaxBlocks - 1 : Back(Back(at, e), 1) = Back(at, e + 1)
  BY <1>1, TxBufferAssumption DEF Slot, Back
<1>3. \A s \in Slot : /\ ring[s][0].data \in Nat /\ ring[s][0].ec \in Nat
                      /\ ring[s][0].data + ring[s][0].ec - 1 \in Nat
  <2> SUFFICES ASSUME NEW s \in Slot
               PROVE  /\ ring[s][0].data \in Nat /\ ring[s][0].ec \in Nat
                      /\ ring[s][0].data + ring[s][0].ec - 1 \in Nat
    OBVIOUS
  <2>1. ring[s][0].data \in Nat /\ ring[s][0].ec \in Nat
    BY <1>1 DEF Ring, PacketType
  <2>2. ring[s][0].data > 0
    OBVIOUS
  <2> QED
    BY <2>1, <2>2
<1>4. /\ total \in Nat \ {0} /\ total <= n /\ n \in Nat /\ n <= steps
      /\ \A m \in 1 .. total : \E d, k : Met(ring, at, blocks, back, m, d, k)
  <2>1. IsFiniteSet(Places(blocks, size))
    BY <1>1, PlaceFacts
  <2>2. total \in Nat
    BY <2>1, FS_CardinalityType
  <2>3. total <= n /\ n \in Nat /\ n <= steps
    BY <2>2
  <2>4. \A m \in 1 .. total : back[m] = StepBack(ring, back[m - 1])
    BY <2>2, <2>3
  <2> QED
    BY <2>2, <2>3, <2>4, WalkFacts
<1> HIDE DEF size
<1>5. Behind(total, blocks, 0)
  <2>1. total \in 1 .. total
    BY <1>4
  <2>2. PICK d, k : Met(ring, at, blocks, back, total, d, k)
    BY <1>4, <2>1
  <2>3. /\ <<d, k>> \in Places(blocks, size) /\ back[total] = Position(at, d, k)
        /\ Cardinality(From(blocks, size, d, k)) = total
    BY <2>2 DEF Met, size
  <2>4. <<blocks, 0>> \in Places(blocks, size) /\ Cardinality(From(blocks, size, blocks, 0)) = total
    BY <1>1, LastPlace DEF size
  <2>5. d = blocks /\ k = 0
    BY <1>1, <2>3, <2>4, OnePlace
  <2> QED
    BY <1>1, <2>3, <2>5
<1>6. ASSUME NEW m \in total .. n - 1, NEW e, NEW k, Behind(m, e, k)
      PROVE  \E d, j : Behind(m + 1, d, j)
  <2>1. /\ m \in Nat /\ m > 0 /\ m \in 1 .. n /\ m + 1 \in 1 .. steps /\ (m + 1) - 1 = m
        /\ e \in 1 .. MaxBlocks /\ e \in Nat /\ k \in Nat
    BY <1>1, <1>4, <1>6
  <2>2. back[m] = [slot |-> Back(at, e), pkt |-> k] /\ back[m + 1] = StepBack(ring, back[m])
    BY <1>6, <2>1 DEF Position
  <2>3. CASE k > 0
    <3>1. back[m + 1] = Position(at, e, k - 1)
      <4>1. StepBack(ring, [slot |-> Back(at, e), pkt |-> k]) = [slot |-> Back(at, e), pkt |-> k - 1]
        BY <2>3, StepDown
      <4> QED
        BY <2>2, <4>1, Zenon DEF Position
    <3> HIDE DEF IsFrame
    <3>2. Behind(m + 1, e, k - 1)
      BY <1>6, <2>1, <2>3, <3>1
    <3> QED
      BY <3>2
  <2>4. CASE ~ (k > 0)
    <3>1. k = 0
      BY <2>1, <2>4
    <3>2. e # blocks => IsFrame(e)
      <4>1. AtStep(ring, back, m).frame = frame
        BY <2>1
      <4>2. AtStep(ring, back, m) = ring[Back(at, e)][0]
        BY <2>2, <3>1 DEF AtStep
      <4> QED
        BY <4>1, <4>2
    <3> HIDE DEF IsFrame
    <3>3. \A c \in blocks + 1 .. e : IsFrame(c)
      BY <1>1, <1>6, <2>1, <3>2
    <3>4. e # MaxBlocks
      BY <3>3 DEF RestOfRing, IsFrame
    <3> DEFINE j == ring[Back(at, e + 1)][0].data + ring[Back(at, e + 1)][0].ec - 1
    <3>5. e \in 1 .. MaxBlocks - 1 /\ e + 1 \in 1 .. MaxBlocks
      BY <1>1, <2>1, <3>4
    <3>6. Back(Back(at, e), 1) = Back(at, e + 1) /\ Back(at, e + 1) \in Slot
      BY <1>2, <3>5
    <3>7. j \in Nat
      BY <1>3, <3>6
    <3>8. back[m + 1] = Position(at, e + 1, j)
      <4>1. StepBack(ring, [slot |-> Back(at, e), pkt |-> k]) =
              [slot |-> Back(Back(at, e), 1),
               pkt |-> ring[Back(Back(at, e), 1)][0].data + ring[Back(Back(at, e), 1)][0].ec - 1]
        BY <2>4, StepFacts, Zenon
      <4> QED
        BY <2>2, <3>6, <4>1, Zenon DEF Position
    <3> HIDE DEF j
    <3>9. Behind(m + 1, e + 1, j)
      <4>1. e + 1 \in blocks .. MaxBlocks /\ e + 1 # blocks /\ (e + 1) - 1 = e
        BY <1>1, <1>6, <3>5
      <4> QED
        BY <3>3, <3>7, <3>8, <4>1
    <3> QED
      BY <3>9
  <2> QED
    BY <2>3, <2>4
<1> HIDE DEF Behind
<1>7. 0 \in S
  <2>1. total + 0 = total
    BY <1>4
  <2> QED
    BY <1>5, <2>1
<1>8. \A i \in 0 .. (n - total) - 1 : i \in S => i + 1 \in S
  <2> SUFFICES ASSUME NEW i \in 0 .. (n - total) - 1, i \in S PROVE i + 1 \in S
    OBVIOUS
  <2>1. /\ i \in Nat /\ total + i <= n /\ total + i \in total .. n - 1 /\ i + 1 \in Nat
        /\ (total + i) + 1 = total + (i + 1)
    BY <1>4
  <2>2. PICK e, k : Behind(total + i, e, k)
    BY <2>1
  <2>3. \E d, j : Behind((total + i) + 1, d, j)
    BY <1>6, <2>1, <2>2
  <2> QED
    BY <2>1, <2>3
<1>9. n - total \in Nat /\ n - total \in 0 .. n - total /\ total + (n - total) = n /\ n # total
  BY <1>4
<1>10. n - total \in S
  <2> HIDE DEF S
  <2>1. \A i \in 0 .. n - total : i \in S
    BY <1>7, <1>8, <1>9, Induction
  <2> QED
    BY <1>9, <2>1
<1>11. PICK e, k : Behind(n, e, k)
  BY <1>9, <1>10
<1>12. e \in blocks + 1 .. MaxBlocks /\ back[n] = Position(at, e, k)
  BY <1>1, <1>9, <1>11 DEF Behind
<1> QED
  BY <1>12 DEF Position

\* More steps back meet no fewer data packets.
LEMMA DataMetMore ==
  ASSUME NEW ring, NEW back, NEW m \in Nat, NEW n \in Nat, m <= n
  PROVE  Cardinality(DataMet(ring, back, m)) <= Cardinality(DataMet(ring, back, n))
<1>1. 1 .. m \subseteq 1 .. n
  OBVIOUS
<1>2. DataMet(ring, back, m) \subseteq DataMet(ring, back, n)
  BY <1>1 DEF DataMet
<1> QED
  BY <1>2, DataMetFacts, FS_Subset

\* At the end of a frame each packet of its row gets its place; and what gets
\* one behind the row gets that of an earlier packet, unless the walk goes
\* all around the ring.
LEMMA PlacedInfo ==
  ASSUME NEW ring, NEW at, NEW blocks, FrameRow(ring, at, blocks), frameSize \in Nat,
         NEW count \in Nat, Cardinality(Places(blocks, RowSize(ring, at, blocks))) <= count,
         Cardinality(Places(blocks, RowSize(ring, at, blocks))) < count =>
           \A s \in Slot : ring[s][0].data > 0,
         ~ RestOfRing(ring, at, blocks)
  PROVE  LET placed == Placed(ring, [slot |-> at, pkt |-> 0], count)
             size   == RowSize(ring, at, blocks)
             data   == RowData(ring, at, blocks)
         IN  /\ \A d \in 1 .. blocks : \A k \in 0 .. size[d] - 1 :
                  placed[Back(at, d)][k].info =
                    frameSize - Cardinality(DataFrom(blocks, size, data, d, k)) - IF k < data[d] THEN 0 ELSE 1
             /\ \A e \in blocks + 1 .. MaxBlocks - 1, k \in PacketIndex :
                  \/ placed[Back(at, e)][k].info = ring[Back(at, e)][k].info
                  \/ /\ placed[Back(at, e)][k].info \in Int
                     /\ placed[Back(at, e)][k].info <
                          frameSize - Cardinality(DataFrom(blocks, size, data, blocks, 0))
<1> DEFINE end     == [slot |-> at, pkt |-> 0]
           size    == RowSize(ring, at, blocks)
           data    == RowData(ring, at, blocks)
           total   == Cardinality(Places(blocks, size))
           steps   == IF count = 0 THEN 1 ELSE count
           back    == WalkBack(ring, end, steps)
           At(n)   == ring[back[n].slot][back[n].pkt]
           reached == {n \in 1 .. steps : \A m \in 1 .. n : At(m).frame = frame}
           Place(n) == frameSize - 1 - Cardinality({m \in 1 .. n - 1 : IsData(At(m))})
           Visits(s, k) == {n \in reached : back[n] = [slot |-> s, pkt |-> k]}
           placed == [s \in Slot |-> [k \in PacketIndex |->
              IF Visits(s, k) = {} THEN ring[s][k]
              ELSE [ring[s][k] EXCEPT !.info =
                      Place(CHOOSE n \in Visits(s, k) : \A m \in Visits(s, k) : m <= n)]]]
<1>1. Placed(ring, end, count) = placed
  BY DEF Placed
<1>2. /\ blocks \in Nat \ {0} /\ size \in Sizes(blocks) /\ data \in DataSizes(blocks, size)
      /\ \A d \in 1 .. blocks :
           /\ Back(at, d) \in Slot
           /\ \A e \in 1 .. blocks : Back(at, e) = Back(at, d) => e = d
           /\ \A k \in 0 .. size[d] - 1 :
                /\ k \in PacketIndex
                /\ ring[Back(at, d)][k].frame = frame
                /\ IsData(ring[Back(at, d)][k]) <=> k < data[d]
  BY RowFacts
<1>3. IsFiniteSet(Places(blocks, size))
  BY <1>2, PlaceFacts
<1>4. total \in Nat /\ total <= count /\ (total < count => \A s \in Slot : ring[s][0].data > 0)
  BY <1>3, FS_CardinalityType
<1>5. /\ steps \in Nat /\ count <= steps /\ back[0] = end
      /\ \A n \in 1 .. steps : back[n] = StepBack(ring, back[n - 1])
  BY WalkDefined
<1> HIDE DEF back, total
<1>6. /\ total \in Nat \ {0}
      /\ \A n \in 1 .. total : \E d, k : Met(ring, at, blocks, back, n, d, k)
  <2>1. \A n \in 1 .. total : back[n] = StepBack(ring, back[n - 1])
    BY <1>4, <1>5
  <2> HIDE DEF steps
  <2> QED
    BY <1>5, <2>1, WalkFacts DEF total
<1>7. steps = count
  BY <1>4, <1>6
<1> HIDE DEF steps, size, data
<1>8. ASSUME NEW n \in 1 .. total, NEW d, NEW k, Met(ring, at, blocks, back, n, d, k)
      PROVE  /\ d \in 1 .. blocks /\ k \in 0 .. size[d] - 1
             /\ <<d, k>> \in Places(blocks, size)
             /\ back[n].slot = Back(at, d) /\ back[n].pkt = k
             /\ At(n) = ring[Back(at, d)][k]
             /\ Cardinality(From(blocks, size, d, k)) = n
             /\ Cardinality(DataMet(ring, back, n)) = Cardinality(DataFrom(blocks, size, data, d, k))
  <2>1. /\ <<d, k>> \in Places(blocks, size) /\ back[n] = Position(at, d, k)
        /\ Cardinality(From(blocks, size, d, k)) = n
        /\ Cardinality(DataMet(ring, back, n)) = Cardinality(DataFrom(blocks, size, data, d, k))
    BY <1>8 DEF Met, size, data
  <2>2. d \in 1 .. blocks /\ k \in 0 .. size[d] - 1
    BY <1>2, <2>1, PlaceFacts
  <2>3. back[n].slot = Back(at, d) /\ back[n].pkt = k
    BY <2>1 DEF Position
  <2> QED
    BY <2>1, <2>2, <2>3
<1>9. \A n \in 1 .. total : At(n).frame = frame
  <2> SUFFICES ASSUME NEW n \in 1 .. total PROVE At(n).frame = frame
    OBVIOUS
  <2>1. PICK d, k : Met(ring, at, blocks, back, n, d, k)
    BY <1>6
  <2>2. d \in 1 .. blocks /\ k \in 0 .. size[d] - 1 /\ At(n) = ring[Back(at, d)][k]
    BY <1>8, <2>1
  <2>3. ring[Back(at, d)][k].frame = frame
    BY <1>2, <2>2
  <2> HIDE DEF At
  <2> QED
    BY <2>2, <2>3
<1>10. ASSUME NEW n \in reached, ~ (n <= total)
       PROVE  \E e \in blocks + 1 .. MaxBlocks : back[n].slot = Back(at, e)
  <2>1. /\ n \in 1 .. count /\ n \in total + 1 .. count
        /\ \A m \in 1 .. n : AtStep(ring, back, m).frame = frame
    BY <1>4, <1>6, <1>7, <1>10 DEF AtStep
  <2>2. \A s \in Slot : ring[s][0].data > 0
    BY <1>4, <2>1
  <2> HIDE DEF reached
  <2>3. back[0] = end /\ \A m \in 1 .. count : back[m] = StepBack(ring, back[m - 1])
    BY <1>5, <1>7
  <2>4. total = Cardinality(Places(blocks, RowSize(ring, at, blocks)))
    BY DEF total, size
  <2>5. FrameRow(ring, at, blocks) /\ ~ RestOfRing(ring, at, blocks) /\ count \in Nat
    OBVIOUS
  <2> HIDE DEF At, Visits, Place, placed, reached
  <2>6. \A i \in total + 1 .. count : MetOfFrame(ring, back, i) => BehindRow(at, blocks, back, i)
    BY <2>2, <2>3, <2>4, <2>5, WalkBehind, Zenon
  <2> QED
    BY <2>1, <2>6 DEF MetOfFrame, BehindRow
<1>11. ASSUME NEW d \in 1 .. blocks, NEW e \in blocks + 1 .. MaxBlocks
       PROVE  Back(at, d) # Back(at, e)
  <2>1. at \in Slot /\ blocks \in Nat /\ blocks <= MaxBlocks - 1 /\ MaxBlocks \in Nat
    BY TxBufferAssumption DEF FrameRow
  <2>2. /\ d \in Nat /\ e \in Nat /\ 1 <= d /\ d < e /\ e <= MaxBlocks /\ at \in 0 .. MaxBlocks - 1
    BY <2>1 DEF Slot
  <2> QED
    BY <2>1, <2>2 DEF Back
<1>12. ASSUME NEW d \in 1 .. blocks, NEW k \in 0 .. size[d] - 1
       PROVE  \E n \in 1 .. total :
                /\ Met(ring, at, blocks, back, n, d, k)
                /\ Visits(Back(at, d), k) = {n}
  <2> DEFINE n == Cardinality(From(blocks, size, d, k))
  <2>1. <<d, k>> \in Places(blocks, size)
    BY <1>2, PlaceFacts
  <2>2. n \in 1 .. total
    <3>1. IsFiniteSet(From(blocks, size, d, k)) /\ From(blocks, size, d, k) \in SUBSET Places(blocks, size)
      BY <1>2, FromFacts
    <3>2. size[d] \in Nat
      BY <1>2, PlaceFacts
    <3>3. <<d, k>> \in From(blocks, size, d, k)
      BY <1>2, <3>2, FromFacts
    <3>4. n \in Nat /\ n # 0
      BY <3>1, <3>3, FS_CardinalityType, FS_EmptySet
    <3>5. n <= total
      <4> DEFINE from   == From(blocks, size, d, k)
                 places == Places(blocks, size)
      <4>1. IsFiniteSet(places) /\ from \in SUBSET places
        BY <1>3, <3>1
      <4> HIDE DEF from, places
      <4>2. Cardinality(from) <= Cardinality(places)
        BY <4>1, FS_Subset
      <4> QED
        BY <4>2 DEF from, places, total
    <3> HIDE DEF n
    <3> QED
      BY <1>6, <3>4, <3>5
  <2> HIDE DEF n
  <2>3. ASSUME NEW m \in 1 .. total, NEW e, NEW j, Met(ring, at, blocks, back, m, e, j), m = n
        PROVE  e = d /\ j = k
    <3>1. /\ <<e, j>> \in Places(blocks, size)
          /\ Cardinality(From(blocks, size, d, k)) = Cardinality(From(blocks, size, e, j))
      BY <1>8, <2>3 DEF n
    <3>2. blocks \in Nat /\ size \in Sizes(blocks)
      BY <1>2
    <3> QED
      BY <2>1, <3>1, <3>2, OnePlace, Zenon
  <2>4. Met(ring, at, blocks, back, n, d, k)
    <3>1. PICK e, j : Met(ring, at, blocks, back, n, e, j)
      BY <1>6, <2>2
    <3> QED
      BY <2>2, <2>3, <3>1
  <2>5. back[n] = [slot |-> Back(at, d), pkt |-> k]
    BY <2>4 DEF Met, Position
  <2>6. ASSUME NEW m \in 1 .. total, back[m] = [slot |-> Back(at, d), pkt |-> k]
        PROVE  m = n
    <3>1. PICK e, j : Met(ring, at, blocks, back, m, e, j)
      BY <1>6
    <3>2. e \in 1 .. blocks /\ Back(at, e) = Back(at, d) /\ j = k
      <4>1. back[m].slot = Back(at, d) /\ back[m].pkt = k
        BY <2>6
      <4>2. e \in 1 .. blocks /\ back[m].slot = Back(at, e) /\ back[m].pkt = j
        BY <1>8, <3>1
      <4> QED
        BY <4>1, <4>2
    <3>3. e = d
      BY <1>2, <3>2
    <3>4. Cardinality(From(blocks, size, e, j)) = m
      BY <1>8, <3>1
    <3> QED
      BY <3>2, <3>3, <3>4 DEF n
  <2>7. n \in reached
    <3>1. \A m \in 1 .. n : m \in 1 .. total
      BY <1>6, <2>2
    <3>2. \A m \in 1 .. n : At(m).frame = frame
      BY <1>9, <3>1
    <3>3. n \in 1 .. steps
      BY <1>4, <1>6, <1>7, <2>2
    <3> HIDE DEF At
    <3> QED
      BY <3>2, <3>3
  <2>8. ASSUME NEW m \in reached, back[m] = [slot |-> Back(at, d), pkt |-> k] PROVE m \in 1 .. total
    <3>1. back[m].slot = Back(at, d)
      BY <2>8
    <3>2. m <= total
      BY <1>10, <1>11, <3>1
    <3>3. m \in 1 .. count
      BY <1>7
    <3> QED
      BY <1>4, <3>2, <3>3
  <2> HIDE DEF reached
  <2>9. Visits(Back(at, d), k) = {n}
    BY <2>5, <2>6, <2>7, <2>8
  <2> QED
    BY <2>2, <2>4, <2>9
<1>13. ASSUME NEW d \in 1 .. blocks, NEW k \in 0 .. size[d] - 1
       PROVE  placed[Back(at, d)][k].info =
                frameSize - Cardinality(DataFrom(blocks, size, data, d, k)) - IF k < data[d] THEN 0 ELSE 1
  <2>1. PICK n \in 1 .. total : Met(ring, at, blocks, back, n, d, k) /\ Visits(Back(at, d), k) = {n}
    BY <1>12
  <2>2. /\ Back(at, d) \in Slot /\ k \in PacketIndex
        /\ IsData(ring[Back(at, d)][k]) <=> k < data[d]
    BY <1>2
  <2>3. (CHOOSE m \in Visits(Back(at, d), k) : \A l \in Visits(Back(at, d), k) : l <= m) = n
    <3> HIDE DEF Visits
    <3> QED
      BY <2>1
  <2>4. ring[Back(at, d)][k] \in PacketType
    BY <2>2 DEF FrameRow, Ring
  <2>5. placed[Back(at, d)][k].info = Place(n)
    <3> HIDE DEF Visits, Place
    <3>1. placed[Back(at, d)][k] = [ring[Back(at, d)][k] EXCEPT !.info = Place(n)]
      BY <2>1, <2>2, <2>3
    <3> QED
      BY <2>4, <3>1 DEF PacketType
  <2>6. /\ At(n) = ring[Back(at, d)][k]
        /\ Cardinality(DataMet(ring, back, n)) = Cardinality(DataFrom(blocks, size, data, d, k))
    BY <1>8, <2>1
  <2>7. {m \in 1 .. n - 1 : IsData(At(m))} = DataMet(ring, back, n - 1)
    BY DEF DataMet, AtStep
  <2>8. /\ n - 1 \in Nat /\ (n - 1) + 1 = n
        /\ Cardinality(DataMet(ring, back, n - 1)) \in Nat
        /\ Cardinality(DataMet(ring, back, n)) =
             Cardinality(DataMet(ring, back, n - 1)) + IF IsData(At(n)) THEN 1 ELSE 0
    <3>1. n - 1 \in Nat /\ (n - 1) + 1 = n
      BY <1>6
    <3> QED
      BY <3>1, DataMetFacts DEF AtStep
  <2>9. Place(n) = frameSize - 1 - Cardinality(DataMet(ring, back, n - 1))
    BY <2>7
  <2> HIDE DEF At, Place, placed
  <2> QED
    BY <2>2, <2>5, <2>6, <2>8, <2>9
<1>14. Cardinality(DataMet(ring, back, total)) = Cardinality(DataFrom(blocks, size, data, blocks, 0))
  <2>1. total \in 1 .. total
    BY <1>6
  <2>2. PICK d, k : Met(ring, at, blocks, back, total, d, k)
    BY <1>6, <2>1
  <2>3. /\ <<d, k>> \in Places(blocks, size) /\ Cardinality(From(blocks, size, d, k)) = total
        /\ Cardinality(DataMet(ring, back, total)) = Cardinality(DataFrom(blocks, size, data, d, k))
    BY <1>8, <2>1, <2>2
  <2>4. <<blocks, 0>> \in Places(blocks, size) /\ Cardinality(From(blocks, size, blocks, 0)) = total
    BY <1>2, LastPlace DEF total
  <2>5. d = blocks /\ k = 0
    BY <1>2, <2>3, <2>4, OnePlace
  <2> QED
    BY <2>3, <2>5
<1>15. ASSUME NEW e \in blocks + 1 .. MaxBlocks - 1, NEW k \in PacketIndex,
              placed[Back(at, e)][k].info # ring[Back(at, e)][k].info
       PROVE  /\ placed[Back(at, e)][k].info \in Int
              /\ placed[Back(at, e)][k].info < frameSize - Cardinality(DataFrom(blocks, size, data, blocks, 0))
  <2> DEFINE s == Back(at, e)
             V == Visits(s, k)
             n == CHOOSE m \in V : \A l \in V : l <= m
  <2>1. s \in Slot /\ e \in blocks + 1 .. MaxBlocks
    BY <1>2, TxBufferAssumption DEF FrameRow, Slot, Back
  <2>2. ring[s][k] \in PacketType
    BY <2>1 DEF FrameRow, Ring
  <2>3. placed[s][k] = IF V = {} THEN ring[s][k] ELSE [ring[s][k] EXCEPT !.info = Place(n)]
    BY <2>1
  <2>4. V # {} /\ placed[s][k].info = Place(n)
    <3> HIDE DEF placed, V, Place, n, s
    <3>1. V # {}
      BY <1>15, <2>3 DEF s
    <3> QED
      BY <2>2, <2>3, <3>1 DEF PacketType
  <2>5. n \in V
    <3>1. V \subseteq 1 .. steps
      OBVIOUS
    <3>2. V \subseteq 0 .. steps /\ steps \in Nat
      BY <1>5, <3>1
    <3> HIDE DEF V, n
    <3>3. \E m \in V : \A l \in V : l <= m
      BY <2>4, <3>2, Greatest
    <3> QED
      BY <3>3 DEF n
  <2> HIDE DEF n
  <2>6. n \in reached /\ back[n] = [slot |-> s, pkt |-> k] /\ n \in 1 .. count
    BY <1>7, <2>5
  <2>7. ~ (n <= total)
    <3> SUFFICES ASSUME n <= total PROVE FALSE
      OBVIOUS
    <3>1. n \in 1 .. total
      BY <1>4, <2>6
    <3>2. PICK d, j : Met(ring, at, blocks, back, n, d, j)
      BY <1>6, <3>1
    <3>3. d \in 1 .. blocks /\ back[n].slot = Back(at, d)
      BY <1>8, <3>1, <3>2
    <3>4. back[n].slot = s
      BY <2>6
    <3> HIDE DEF reached
    <3> QED
      BY <1>11, <2>1, <3>3, <3>4
  <2>8. {m \in 1 .. n - 1 : IsData(At(m))} = DataMet(ring, back, n - 1)
    BY DEF DataMet, AtStep
  <2>9. Place(n) = frameSize - 1 - Cardinality(DataMet(ring, back, n - 1))
    BY <2>8
  <2>10. /\ n - 1 \in Nat /\ total <= n - 1
         /\ Cardinality(DataMet(ring, back, n - 1)) \in Nat
         /\ Cardinality(DataMet(ring, back, total)) \in Nat
         /\ Cardinality(DataMet(ring, back, total)) <= Cardinality(DataMet(ring, back, n - 1))
    <3>1. n - 1 \in Nat /\ total <= n - 1
      BY <1>4, <2>6, <2>7
    <3> QED
      BY <1>4, <3>1, DataMetFacts, DataMetMore
  <2> HIDE DEF reached, Place, placed, s
  <2> QED
    BY <1>14, <2>4, <2>9, <2>10 DEF s
<1> QED
  BY <1>1, <1>13, <1>15 DEF size, data

\* What the places say of the blocks of the frame: they are not below zero,
\* count up through the packets of a block and from block to block; and what
\* the walk leaves behind the row is of earlier places.
LEMMA PlacedLabels ==
  ASSUME NEW ring, NEW at, NEW blocks, FrameRow(ring, at, blocks), frameSize \in Nat,
         NEW count \in Nat, Cardinality(Places(blocks, RowSize(ring, at, blocks))) <= count,
         Cardinality(Places(blocks, RowSize(ring, at, blocks))) < count =>
           \A s \in Slot : ring[s][0].data > 0,
         ~ RestOfRing(ring, at, blocks),
         Cardinality(DataFrom(blocks, RowSize(ring, at, blocks), RowData(ring, at, blocks), blocks, 0))
           <= frameSize
  PROVE  LET placed  == Placed(ring, [slot |-> at, pkt |-> 0], count)
             data(d) == ring[Back(at, d)][0].data
             ec(d)   == ring[Back(at, d)][0].ec
         IN  \A d \in 1 .. blocks :
               /\ \A k \in 0 .. data(d) + ec(d) - 1 :
                    placed[Back(at, d)][k].info =
                      placed[Back(at, d)][0].info + IF k < data(d) THEN k ELSE data(d) - 1
               /\ \A e \in 1 .. d - 1 :
                    placed[Back(at, e)][0].info >= placed[Back(at, d)][0].info + data(d)
               /\ placed[Back(at, d)][0].info >= 0
               /\ \A e \in blocks + 1 .. MaxBlocks - 1, k \in PacketIndex :
                    \/ placed[Back(at, e)][k].info = ring[Back(at, e)][k].info
                    \/ placed[Back(at, e)][k].info < placed[Back(at, d)][0].info
<1> DEFINE placed == Placed(ring, [slot |-> at, pkt |-> 0], count)
           size   == RowSize(ring, at, blocks)
           data   == RowData(ring, at, blocks)
           Num(d, k) == Cardinality(DataFrom(blocks, size, data, d, k))
<1>1. /\ blocks \in Nat \ {0} /\ size \in Sizes(blocks) /\ data \in DataSizes(blocks, size)
      /\ \A d \in 1 .. blocks :
           /\ size[d] = ring[Back(at, d)][0].data + ring[Back(at, d)][0].ec
           /\ data[d] = ring[Back(at, d)][0].data
           /\ ring[Back(at, d)][0].data \in Nat /\ ring[Back(at, d)][0].ec \in Nat
  BY RowFacts
<1>2. /\ \A d \in 1 .. blocks : \A k \in 0 .. size[d] - 1 :
           placed[Back(at, d)][k].info = frameSize - Num(d, k) - IF k < data[d] THEN 0 ELSE 1
      /\ \A e \in blocks + 1 .. MaxBlocks - 1, k \in PacketIndex :
           \/ placed[Back(at, e)][k].info = ring[Back(at, e)][k].info
           \/ /\ placed[Back(at, e)][k].info \in Int
              /\ placed[Back(at, e)][k].info < frameSize - Num(blocks, 0)
      /\ Num(blocks, 0) <= frameSize
  BY PlacedInfo
<1> HIDE DEF placed, size, data
<1>3. \A d, k : Num(d, k) \in Nat
  BY <1>1, DataFromFacts
<1>4. ASSUME NEW d \in 1 .. blocks
      PROVE  /\ \A k \in 0 .. data[d] - 1 : Num(d, 0) = Num(d, k) + k
             /\ \A k \in data[d] .. size[d] - 1 : Num(d, data[d] - 1) = Num(d, k) + 1
             /\ \A e \in 1 .. d - 1 : Num(d, 0) >= Num(e, 0) + data[d]
  BY <1>1, DataAddUp
<1>5. \A d \in 1 .. blocks : data[d] \in Nat /\ 1 <= data[d] /\ data[d] <= size[d] /\ size[d] \in Nat
  BY <1>1, PlaceFacts DEF DataSizes
<1> HIDE DEF Num
<1>6. ASSUME NEW d \in 1 .. blocks, NEW k \in 0 .. size[d] - 1
      PROVE  placed[Back(at, d)][k].info =
               placed[Back(at, d)][0].info + IF k < data[d] THEN k ELSE data[d] - 1
  <2>1. placed[Back(at, d)][0].info = frameSize - Num(d, 0)
    BY <1>2, <1>3, <1>5
  <2>2. CASE k < data[d]
    <3>1. placed[Back(at, d)][k].info = frameSize - Num(d, k)
      BY <1>2, <1>3, <2>2
    <3>2. Num(d, 0) = Num(d, k) + k
      BY <1>4, <1>5, <2>2
    <3> QED
      BY <1>3, <1>5, <2>1, <2>2, <3>1, <3>2
  <2>3. CASE ~ (k < data[d])
    <3>1. placed[Back(at, d)][k].info = frameSize - Num(d, k) - 1
      BY <1>2, <1>3, <2>3
    <3>2. k \in data[d] .. size[d] - 1 /\ data[d] - 1 \in 0 .. data[d] - 1
      BY <1>5, <2>3
    <3>3. Num(d, data[d] - 1) = Num(d, k) + 1 /\ Num(d, 0) = Num(d, data[d] - 1) + (data[d] - 1)
      BY <1>4, <3>2
    <3> QED
      BY <1>3, <1>5, <2>1, <2>3, <3>1, <3>3
  <2> QED
    BY <2>2, <2>3
<1>7. ASSUME NEW d \in 1 .. blocks, NEW e \in 1 .. d - 1
      PROVE  placed[Back(at, e)][0].info >= placed[Back(at, d)][0].info + data[d]
  <2>1. e \in 1 .. blocks
    BY <1>1
  <2>2. /\ placed[Back(at, d)][0].info = frameSize - Num(d, 0)
        /\ placed[Back(at, e)][0].info = frameSize - Num(e, 0)
    BY <1>2, <1>3, <1>5, <2>1
  <2>3. Num(d, 0) >= Num(e, 0) + data[d]
    BY <1>4
  <2> QED
    BY <1>3, <1>5, <2>2, <2>3
<1>8. ASSUME NEW d \in 1 .. blocks
      PROVE  placed[Back(at, d)][0].info = frameSize - Num(d, 0) /\ Num(d, 0) <= Num(blocks, 0)
  <2>1. placed[Back(at, d)][0].info = frameSize - Num(d, 0)
    BY <1>2, <1>3, <1>5
  <2>2. CASE d = blocks
    BY <1>3, <2>1, <2>2
  <2>3. CASE d # blocks
    <3>1. d \in 1 .. blocks - 1 /\ blocks \in 1 .. blocks
      BY <1>1, <2>3
    <3>2. Num(blocks, 0) >= Num(d, 0) + data[blocks] /\ data[blocks] \in Nat
      BY <1>4, <1>5, <3>1
    <3> QED
      BY <1>3, <2>1, <3>2
  <2> QED
    BY <2>2, <2>3
<1>9. ASSUME NEW d \in 1 .. blocks
      PROVE  /\ placed[Back(at, d)][0].info >= 0
             /\ \A e \in blocks + 1 .. MaxBlocks - 1, k \in PacketIndex :
                  \/ placed[Back(at, e)][k].info = ring[Back(at, e)][k].info
                  \/ placed[Back(at, e)][k].info < placed[Back(at, d)][0].info
  <2>1. Num(d, 0) \in Nat /\ Num(blocks, 0) \in Nat
    BY <1>3
  <2>2. placed[Back(at, d)][0].info >= 0
    BY <1>2, <1>8, <2>1
  <2>3. ASSUME NEW e \in blocks + 1 .. MaxBlocks - 1, NEW k \in PacketIndex
        PROVE  \/ placed[Back(at, e)][k].info = ring[Back(at, e)][k].info
               \/ placed[Back(at, e)][k].info < placed[Back(at, d)][0].info
    BY <1>2, <1>8, <2>1
  <2> QED
    BY <2>2, <2>3
<1> QED
  BY <1>1, <1>6, <1>7, <1>9 DEF placed

-----------------------------------------------------------------------------
(***************************************************************************)
(* The frames in the ring.                                                 *)
(***************************************************************************)
Distance   == 1 .. MaxBlocks - 1
FrameOf(d) == packets[Back(fill, d)][0].frame
SizeOf(d)  == packets[Back(fill, d)][0].data + packets[Back(fill, d)][0].ec

\* The packets of frame f that a ring has in the blk blocks before slot `at',
\* and in the first pkt packets of that slot.
Live(ring, at, blk, pkt, f) ==
  {q \in Slot \X PacketIndex :
     LET d == LagOf(at, q[1])
     IN  /\ ~ ring[q[1]][q[2]].empty /\ ring[q[1]][q[2]].frame = f
         /\ d <= blk /\ (d = 0 => q[2] < pkt)}

\* The data packets of frame f a ring has, those of emptied slots as well.
FrameData(ring, f) ==
  {q \in Slot \X PacketIndex : ring[q[1]][q[2]].frame = f /\ IsData(ring[q[1]][q[2]])}

AllWritten(ring) == \A s \in Slot : ring[s][0].data > 0

FramesPast == \A s \in Slot, k \in PacketIndex : packets[s][k].frame <= frame

\* A finished block is of one frame, and nothing is behind it in its slot;
\* what is left of a block from before a discard is of one frame, too.
BlocksFramed ==
  /\ \A d \in Distance, k \in PacketIndex :
       d <= nextBlk =>
         IF k < SizeOf(d) THEN packets[Back(fill, d)][k].frame = FrameOf(d)
         ELSE packets[Back(fill, d)][k].empty
  /\ \A s \in Slot, k \in PacketIndex :
       (s = fill => nextPkt = 0) /\ k < packets[s][0].data =>
         packets[s][k].frame = packets[s][0].frame

\* The blocks are in the order of their frames; and what is left from before
\* a discard is of none of the later ones.
FramesInOrder ==
  /\ \A d, e \in Distance : d <= e /\ e <= nextBlk => FrameOf(e) <= FrameOf(d)
  /\ \A d, e \in Distance, k \in PacketIndex :
       e <= nextBlk /\ nextBlk < d => packets[Back(fill, d)][k].frame <= FrameOf(e)

\* While a frame is added, its packets have no places yet, and as many were
\* counted as there are, or more once a full ring was discarded.
FrameFilling ==
  /\ nextPkt > 0 =>
       \A k \in PacketIndex : IF k < nextPkt THEN packets[fill][k].frame = frame ELSE packets[fill][k].empty
  /\ \A s \in Slot, k \in PacketIndex : packets[s][k].frame = frame => packets[s][k].info = 0
  /\ LET live == Cardinality(Live(packets, fill, nextBlk, nextPkt, frame))
     IN  live <= added /\ (live = added \/ AllWritten(packets))
  /\ Cardinality(FrameData(packets, frame)) <= frameSize - frameLeft

\* The places in a finished frame: those of the data packets of a block count
\* up, an EC packet has that of the last of them, a newer block of the frame
\* lies behind, and what is left of the frame from before a discard does not.
BlockLabelled(d) ==
  LET slot == packets[Back(fill, d)]
  IN  /\ slot[0].info >= 0
      /\ \A k \in 0 .. slot[0].data + slot[0].ec - 1 :
           slot[k].info = slot[0].info + IF k < slot[0].data THEN k ELSE slot[0].data - 1
      /\ \A e \in 1 .. d - 1 :
           FrameOf(e) = FrameOf(d) => packets[Back(fill, e)][0].info >= slot[0].info + slot[0].data
      /\ \A e \in Distance, k \in PacketIndex :
           nextBlk < e /\ FrameOf(e) = FrameOf(d) /\ k < packets[Back(fill, e)][0].data =>
             packets[Back(fill, e)][k].info < slot[0].info + slot[0].data

\* The frame of a block goes all around the ring: from the block on, the older
\* slots are of it, up to the one being filled, as long as that is empty.
Wrapped(d) ==
  /\ nextPkt = 0 => FrameOf(0) = FrameOf(d)
  /\ \A e \in d .. MaxBlocks - 1 : FrameOf(e) = FrameOf(d)

Labelled ==
  \A d \in Distance :
    d <= nextBlk /\ (pc = "frame" => FrameOf(d) # frame) => BlockLabelled(d) \/ Wrapped(d)

FInv ==
  /\ FramesPast /\ BlocksFramed /\ FramesInOrder /\ Labelled
  /\ pc = "frame" => FrameFilling

\* The rest of a frame is what the places say.
LEMMA RestRight == IInv /\ FInv => FrameRestAvailable
<1> SUFFICES ASSUME IInv, FInv, pc # "frame",
                    NEW d \in 1 .. MaxBlocks - 1, NEW k \in PacketIndex, d <= nextBlk,
                    k < packets[Back(fill, d)][0].data + packets[Back(fill, d)][0].ec,
                    packets[Back(fill, d)][k].frame # packets[fill][0].frame
             PROVE  LET p     == packets[Back(fill, d)][k]
                        start == IF IsData(p) THEN p.info - p.idx ELSE p.info - (p.data - 1)
                        later == {e \in 1 .. d - 1 : packets[Back(fill, e)][0].frame = p.frame}
                    IN  RestResent(p.frame, start + p.data) =
                          {q \in UNION {{packets[Back(fill, e)][j] : j \in PacketIndex} : e \in later} :
                             ~ q.empty /\ IsData(q)}
  BY Zenon DEF FrameRestAvailable
<1> DEFINE Pk(e, j) == packets[Back(fill, e)][j]
           p     == Pk(d, k)
           start == IF IsData(p) THEN p.info - p.idx ELSE p.info - (p.data - 1)
           later == {e \in 1 .. d - 1 : FrameOf(e) = p.frame}
           rest  == {q \in UNION {{Pk(e, j) : j \in PacketIndex} : e \in later} : ~ q.empty /\ IsData(q)}
           n     == Pk(d, 0).info + Pk(d, 0).data
           f     == FrameOf(d)
<1>1. /\ nextBlk \in Nat /\ fill \in Slot /\ MaxBlocks \in Nat /\ 0 \in PacketIndex /\ packets \in Ring
      /\ \A e \in 0 .. MaxBlocks - 1, j \in PacketIndex : Pk(e, j) \in PacketType
      /\ PacketIndex \subseteq Nat /\ d \in Distance
  <2>1. /\ nextBlk \in Nat /\ fill \in Slot /\ MaxBlocks \in Nat /\ 0 \in PacketIndex /\ packets \in Ring
        /\ PacketIndex \subseteq Nat
    BY TxBufferAssumption DEF IInv, TypeOK, Ring, PacketIndex
  <2>2. \A e \in 0 .. MaxBlocks - 1 : Back(fill, e) \in Slot
    BY <2>1, RingFacts
  <2> QED
    BY <2>1, <2>2 DEF Ring, Distance
<1>2. ASSUME NEW e \in Distance, e <= nextBlk
      PROVE  /\ Pk(e, 0).data \in 1 .. MaxDataPackets /\ Pk(e, 0).ec \in 0 .. Pk(e, 0).data
             /\ Pk(e, 0).data \in Nat /\ Pk(e, 0).ec \in Nat /\ SizeOf(e) = Pk(e, 0).data + Pk(e, 0).ec
             /\ Pk(e, 0).info \in Int /\ Pk(e, 0).data > 0
             /\ \A j \in PacketIndex : Pk(e, j).empty \/ j < SizeOf(e)
             /\ \A j \in 0 .. SizeOf(e) - 1 :
                  /\ j \in PacketIndex
                  /\ ~ Pk(e, j).empty /\ Pk(e, j).idx = j /\ Pk(e, j).frame = FrameOf(e)
                  /\ Pk(e, j).data = Pk(e, 0).data /\ (IsData(Pk(e, j)) <=> j < Pk(e, 0).data)
  <2>1. /\ Pk(e, 0).data \in 1 .. MaxDataPackets /\ Pk(e, 0).ec \in 0 .. Pk(e, 0).data
        /\ \A j \in 0 .. Pk(e, 0).data + Pk(e, 0).ec - 1 :
             /\ j \in PacketIndex
             /\ ~ Pk(e, j).empty /\ Pk(e, j).idx = j /\ Pk(e, j).data = Pk(e, 0).data
    BY <1>2, FinishedBlock DEF Distance
  <2>2. Pk(e, 0) \in PacketType
    BY <1>1 DEF Distance
  <2>3. \A j \in PacketIndex : IF j < SizeOf(e) THEN Pk(e, j).frame = FrameOf(e) ELSE Pk(e, j).empty
    BY <1>2 DEF FInv, BlocksFramed
  <2>4. SizeOf(e) = Pk(e, 0).data + Pk(e, 0).ec /\ Pk(e, 0).data \in Nat /\ Pk(e, 0).ec \in Nat
        /\ Pk(e, 0).info \in Int /\ Pk(e, 0).data > 0
    BY <2>1, <2>2 DEF SizeOf, PacketType
  <2> HIDE DEF Pk
  <2>5. ASSUME NEW j \in 0 .. SizeOf(e) - 1
        PROVE  /\ j \in PacketIndex
               /\ ~ Pk(e, j).empty /\ Pk(e, j).idx = j /\ Pk(e, j).frame = FrameOf(e)
               /\ Pk(e, j).data = Pk(e, 0).data /\ (IsData(Pk(e, j)) <=> j < Pk(e, 0).data)
    <3>1. j \in 0 .. Pk(e, 0).data + Pk(e, 0).ec - 1 /\ j < SizeOf(e)
      BY <2>4
    <3> QED
      BY <2>1, <2>3, <3>1 DEF IsData
  <2> QED
    BY <2>1, <2>3, <2>4, <2>5
<1>3. /\ k \in 0 .. SizeOf(d) - 1 /\ p.frame = f /\ f # packets[fill][0].frame
  <2>1. k \in 0 .. SizeOf(d) - 1
    BY <1>1, <1>2 DEF SizeOf
  <2> QED
    BY <1>1, <1>2, <2>1
<1>4. ASSUME NEW e \in Distance, e <= nextBlk, FrameOf(e) = f
      PROVE  /\ \A j \in 0 .. SizeOf(e) - 1 :
                  Pk(e, j).info = Pk(e, 0).info + IF j < Pk(e, 0).data THEN j ELSE Pk(e, 0).data - 1
             /\ \A b \in 1 .. e - 1 : FrameOf(b) = f => Pk(b, 0).info >= Pk(e, 0).info + Pk(e, 0).data
             /\ \A b \in Distance, j \in PacketIndex :
                  nextBlk < b /\ FrameOf(b) = f /\ j < Pk(b, 0).data =>
                    Pk(b, j).info < Pk(e, 0).info + Pk(e, 0).data
  <2>1. BlockLabelled(e)
    <3>1. BlockLabelled(e) \/ Wrapped(e)
      BY <1>4 DEF FInv, Labelled
    <3>2. nextPkt = 0 /\ FrameOf(0) = packets[fill][0].frame
      BY <1>1, RingFacts DEF IInv, FrameEndsBlock, FrameOf
    <3> QED
      BY <1>3, <1>4, <3>1, <3>2 DEF Wrapped
  <2>2. /\ \A j \in 0 .. Pk(e, 0).data + Pk(e, 0).ec - 1 :
             Pk(e, j).info = Pk(e, 0).info + IF j < Pk(e, 0).data THEN j ELSE Pk(e, 0).data - 1
        /\ \A b \in 1 .. e - 1 :
             FrameOf(b) = FrameOf(e) => Pk(b, 0).info >= Pk(e, 0).info + Pk(e, 0).data
        /\ \A b \in Distance, j \in PacketIndex :
             nextBlk < b /\ FrameOf(b) = FrameOf(e) /\ j < Pk(b, 0).data =>
               Pk(b, j).info < Pk(e, 0).info + Pk(e, 0).data
    BY <2>1 DEF BlockLabelled
  <2> HIDE DEF Pk
  <2> QED
    BY <1>2, <1>4, <2>2
<1>5. start + p.data = n
  <2>1. /\ p.info = Pk(d, 0).info + IF k < Pk(d, 0).data THEN k ELSE Pk(d, 0).data - 1
        /\ p.idx = k /\ p.data = Pk(d, 0).data /\ (IsData(p) <=> k < Pk(d, 0).data)
    BY <1>1, <1>2, <1>3, <1>4
  <2>2. Pk(d, 0).info \in Int /\ Pk(d, 0).data \in Nat /\ k \in Nat
    BY <1>1, <1>2
  <2> HIDE DEF Pk, p
  <2> QED
    BY <2>1, <2>2
<1>6. ASSUME NEW e \in 0 .. MaxBlocks - 1, FrameOf(e) = f
      PROVE  e \in Distance
  <2>1. e # 0
    BY <1>1, <1>3, <1>6, RingFacts DEF FrameOf
  <2> QED
    BY <1>1, <2>1 DEF Distance
<1> DEFINE IsOf(e)  == packets[Back(fill, e)][0].frame = f
           first    == {e \in 0 .. MaxBlocks - 1 : IsOf(e) /\ \A b \in 0 .. e - 1 : ~ IsOf(b)}
           Walks(e) == \A b \in 1 .. e : ~ packets[Back(fill, b)][0].empty
           blocks   == {e \in 0 .. MaxBlocks - 1 :
                          /\ Walks(e)
                          /\ \E b \in first : /\ b <= e
                                              /\ \A c \in b .. e : IsOf(c)
                                              /\ e = b \/ RestOfBlock(n, b) # {}}
           resent   == {q \in UNION {RestOfBlock(n, e) : e \in blocks} : ~ q.empty}
<1>7. RestResent(f, n) = resent
  BY DEF RestResent
<1>8. \A e : IsOf(e) <=> FrameOf(e) = f
  BY DEF FrameOf
<1>9. \A e, q : q \in RestOfBlock(n, e) <=>
        \E j \in PacketIndex : q = Pk(e, j) /\ j < Pk(e, 0).data /\ Pk(e, j).info >= n
  BY DEF RestOfBlock
<1>10. /\ Pk(d, 0).info \in Int /\ Pk(d, 0).data \in Nat /\ n \in Int
       /\ FrameOf(d) = f /\ d <= nextBlk
  BY <1>1, <1>2
<1> HIDE DEF n, f
<1>11. ASSUME NEW e \in Distance, e < d, FrameOf(e) = f
       PROVE  /\ e <= nextBlk /\ Pk(e, 0).info >= n
              /\ \A j \in 0 .. Pk(e, 0).data - 1 : Pk(e, j).info >= n
  <2>1. e <= nextBlk
    BY <1>1, <1>10, <1>11 DEF Distance
  <2>2. e \in 1 .. d - 1
    BY <1>1, <1>11 DEF Distance
  <2>3. Pk(e, 0).info >= n
    BY <1>1, <1>4, <1>10, <1>11, <2>2 DEF n
  <2>4. ASSUME NEW j \in 0 .. Pk(e, 0).data - 1 PROVE Pk(e, j).info >= n
    <3>1. /\ Pk(e, 0).info \in Int /\ Pk(e, 0).data \in Nat /\ Pk(e, 0).ec \in Nat
          /\ SizeOf(e) = Pk(e, 0).data + Pk(e, 0).ec
      BY <1>2, <2>1
    <3>2. j \in 0 .. SizeOf(e) - 1 /\ j < Pk(e, 0).data
      BY <3>1
    <3>3. Pk(e, j).info = Pk(e, 0).info + j
      BY <1>4, <1>11, <2>1, <3>2
    <3> HIDE DEF Pk
    <3> QED
      BY <1>10, <2>3, <3>1, <3>2, <3>3
  <2> QED
    BY <2>1, <2>3, <2>4
<1>12. ASSUME NEW e \in Distance, NEW j \in PacketIndex, FrameOf(e) = f,
              j < Pk(e, 0).data, Pk(e, j).info >= n
       PROVE  e < d /\ e <= nextBlk
  <2>1. e <= nextBlk
    <3> SUFFICES ASSUME nextBlk < e PROVE FALSE
      BY <1>1
    <3>1. Pk(e, j).info < n
      BY <1>1, <1>4, <1>10, <1>12 DEF n
    <3>2. Pk(e, j).info \in Int
      BY <1>1 DEF PacketType, Distance
    <3> HIDE DEF Pk
    <3> QED
      BY <1>10, <1>12, <3>1, <3>2
  <2>2. /\ Pk(e, 0).info \in Int /\ Pk(e, 0).data \in Nat /\ Pk(e, 0).ec \in Nat
        /\ SizeOf(e) = Pk(e, 0).data + Pk(e, 0).ec /\ j \in Nat /\ e \in Nat /\ d \in Nat
    BY <1>1, <1>2, <2>1 DEF Distance
  <2>3. j \in 0 .. SizeOf(e) - 1
    BY <1>12, <2>2
  <2>4. Pk(e, j).info = Pk(e, 0).info + j
    BY <1>4, <1>12, <2>1, <2>3
  <2>5. e # d
    BY <1>10, <1>12, <2>2, <2>4 DEF n
  <2>6. ~ (d < e)
    <3> SUFFICES ASSUME d < e PROVE FALSE
      OBVIOUS
    <3>1. d \in 1 .. e - 1
      BY <1>1, <2>2 DEF Distance
    <3>2. Pk(d, 0).info >= Pk(e, 0).info + Pk(e, 0).data
      BY <1>4, <1>10, <1>12, <2>1, <3>1
    <3> HIDE DEF Pk
    <3> QED
      BY <1>10, <1>12, <2>2, <2>4, <3>2 DEF n
  <2> QED
    BY <2>1, <2>2, <2>5, <2>6
<1>13. ASSUME NEW q \in resent PROVE q \in rest
  <2>1. PICK e \in blocks : q \in RestOfBlock(n, e) /\ ~ q.empty
    OBVIOUS
  <2>2. PICK j \in PacketIndex : q = Pk(e, j) /\ j < Pk(e, 0).data /\ Pk(e, j).info >= n
    BY <1>9, <2>1
  <2>3. e \in 0 .. MaxBlocks - 1 /\ FrameOf(e) = f
    <3>1. PICK b \in first : b <= e /\ \A c \in b .. e : IsOf(c)
      OBVIOUS
    <3>2. b \in Int /\ e \in Int /\ e \in 0 .. MaxBlocks - 1
      BY <1>1
    <3> HIDE DEF first, blocks, IsOf
    <3>3. IsOf(e)
      BY <3>1, <3>2
    <3> QED
      BY <1>8, <3>2, <3>3
  <2>4. e \in Distance
    BY <1>6, <2>3
  <2>5. e < d /\ e <= nextBlk
    BY <1>12, <2>2, <2>3, <2>4
  <2>6. e \in later
    BY <1>1, <1>3, <2>3, <2>4, <2>5 DEF Distance
  <2>7. IsData(q)
    <3>1. /\ Pk(e, 0).data \in Nat /\ Pk(e, 0).ec \in Nat /\ j \in Nat
          /\ SizeOf(e) = Pk(e, 0).data + Pk(e, 0).ec
      BY <1>1, <1>2, <2>4, <2>5
    <3>2. j \in 0 .. SizeOf(e) - 1
      BY <2>2, <3>1
    <3> QED
      BY <1>2, <2>2, <2>4, <2>5, <3>2
  <2> HIDE DEF later, Pk
  <2> QED
    BY <2>1, <2>2, <2>6, <2>7
<1>14. ASSUME NEW q \in rest PROVE q \in resent
  <2>1. PICK e \in later, j \in PacketIndex : q = Pk(e, j) /\ ~ q.empty /\ IsData(q)
    OBVIOUS
  <2>2. e \in Distance /\ e < d /\ FrameOf(e) = f
    BY <1>1, <1>3 DEF Distance
  <2>3. /\ e <= nextBlk /\ Pk(e, 0).info >= n
        /\ \A i \in 0 .. Pk(e, 0).data - 1 : Pk(e, i).info >= n
    BY <1>11, <2>2
  <2>4. j \in Nat /\ j < SizeOf(e) /\ j < Pk(e, 0).data
    <3>1. j \in Nat /\ j < SizeOf(e) /\ SizeOf(e) \in Nat
      BY <1>1, <1>2, <2>1, <2>2, <2>3
    <3>2. j \in 0 .. SizeOf(e) - 1
      BY <3>1
    <3> QED
      BY <1>2, <2>1, <2>2, <2>3, <3>1, <3>2
  <2>5. q \in RestOfBlock(n, e)
    <3>1. j \in 0 .. Pk(e, 0).data - 1
      BY <1>2, <2>2, <2>3, <2>4
    <3> QED
      BY <1>9, <2>1, <2>3, <2>4, <3>1
  <2>6. PICK b \in 0 .. MaxBlocks - 1 : FrameOf(b) = f /\ \A c \in 0 .. b - 1 : FrameOf(c) # f
    <3> DEFINE T == {c \in 0 .. MaxBlocks - 1 : FrameOf(c) = f}
    <3>1. T \in SUBSET Nat /\ T # {}
      BY <1>1, <2>2 DEF Distance
    <3>2. PICK b \in T : \A c \in T : b <= c
      BY <3>1, Least
    <3>3. \A c \in 0 .. b - 1 : FrameOf(c) # f
      <4> SUFFICES ASSUME NEW c \in 0 .. b - 1, FrameOf(c) = f PROVE FALSE
        OBVIOUS
      <4>1. c \in T
        BY <1>1
      <4> QED
        BY <3>1, <3>2, <4>1
    <3> QED
      BY <3>2, <3>3
  <2>7. b \in first
    BY <1>8, <2>6
  <2>8. b \in Distance /\ b <= nextBlk /\ e \in 0 .. MaxBlocks - 1 /\ b <= e
    <3>1. b \in Distance
      BY <1>6, <2>6
    <3>2. ~ (e < b)
      BY <1>1, <2>2, <2>6 DEF Distance
    <3> QED
      BY <1>1, <2>2, <2>3, <3>1, <3>2 DEF Distance
  <2>9. \A c \in b .. e : IsOf(c)
    <3> SUFFICES ASSUME NEW c \in b .. e PROVE FrameOf(c) = f
      BY <1>8
    <3>1. c \in Distance /\ c <= nextBlk /\ b <= c /\ c <= e
      BY <1>1, <2>2, <2>3, <2>8 DEF Distance
    <3>2. FrameOf(e) <= FrameOf(c) /\ FrameOf(c) <= FrameOf(b)
      BY <2>2, <2>3, <2>8, <3>1 DEF FInv, FramesInOrder
    <3>3. FrameOf(c) \in Nat /\ FrameOf(b) \in Nat
      BY <1>1, <2>8, <3>1 DEF FrameOf, Distance, PacketType
    <3> QED
      BY <2>2, <2>6, <3>2, <3>3
  <2>10. e = b \/ RestOfBlock(n, b) # {}
    <3> SUFFICES ASSUME e # b PROVE RestOfBlock(n, b) # {}
      OBVIOUS
    <3>1. b \in Distance /\ b < d
      BY <1>1, <2>2, <2>8 DEF Distance
    <3>2. Pk(b, 0).info >= n /\ 0 < Pk(b, 0).data
      BY <1>2, <1>11, <2>6, <2>8, <3>1
    <3>3. Pk(b, 0) \in RestOfBlock(n, b)
      BY <1>1, <1>9, <3>2
    <3> QED
      BY <3>3
  <2>11. Walks(e)
    <3> SUFFICES ASSUME NEW c \in 1 .. e PROVE ~ Pk(c, 0).empty
      OBVIOUS
    <3>1. c \in Distance /\ c <= nextBlk
      BY <1>1, <2>2, <2>3 DEF Distance
    <3>2. 0 \in 0 .. SizeOf(c) - 1
      BY <1>2, <3>1
    <3> QED
      BY <1>2, <3>1, <3>2
  <2> HIDE DEF first, IsOf, Walks
  <2>12. e \in blocks
    BY <2>7, <2>8, <2>9, <2>10, <2>11
  <2> HIDE DEF blocks
  <2> QED
    BY <2>1, <2>5, <2>12
<1>15. resent = rest
  <2> HIDE DEF resent, rest
  <2> QED
    BY <1>13, <1>14
<1>16. RestResent(p.frame, start + p.data) = rest
  BY <1>3, <1>5, <1>7, <1>15
<1> QED
  BY <1>16 DEF FrameOf

-----------------------------------------------------------------------------
(***************************************************************************)
(* The frames are kept in order.                                           *)
(***************************************************************************)
LEMMA Ranges ==
  ASSUME IInv
  PROVE  /\ fill \in Slot /\ send \in Slot /\ packets \in Ring
         /\ nextBlk \in Nat /\ nextPkt \in Nat /\ nextPkt \in PacketIndex
         /\ frame \in Nat /\ frameSize \in Nat /\ frameLeft \in Nat /\ added \in Nat
         /\ MaxBlocks \in Nat /\ 0 \in PacketIndex /\ PacketIndex \subseteq Nat
         /\ Distance \subseteq Nat /\ Distance \subseteq 0 .. MaxBlocks - 1
         /\ \A s \in Slot, k \in PacketIndex : packets[s][k] \in PacketType
         /\ \A d \in Distance : d > 0 /\ Back(fill, d) \in Slot /\ Back(fill, d) # fill
<1>1. /\ fill \in Slot /\ send \in Slot /\ packets \in Ring
      /\ nextBlk \in Nat /\ nextPkt \in Nat /\ nextPkt \in PacketIndex
      /\ frame \in Nat /\ frameSize \in Nat /\ frameLeft \in Nat /\ added \in Nat
      /\ MaxBlocks \in Nat /\ 0 \in PacketIndex /\ PacketIndex \subseteq Nat
  BY TxBufferAssumption DEF IInv, TypeOK, Ring, PacketIndex
<1>2. Distance \subseteq Nat /\ Distance \subseteq 0 .. MaxBlocks - 1
  BY <1>1 DEF Distance
<1>3. \A d \in Distance : d > 0
  BY <1>1 DEF Distance
<1>4. \A d \in Distance : Back(fill, d) \in Slot /\ Back(fill, d) # fill
  BY <1>1, <1>2, <1>3, RingFacts
<1> QED
  BY <1>1, <1>2, <1>3, <1>4 DEF Ring

\* Every other slot lies at some distance behind the one being filled; the
\* next one is the farthest.
LEMMA Distances ==
  ASSUME NEW f \in Slot, NEW s \in Slot, s # f
  PROVE  /\ \E d \in Distance : s = Back(f, d)
         /\ After(f) = Back(f, MaxBlocks - 1) /\ MaxBlocks - 1 \in Distance
         /\ s # After(f) => LagOf(f, s) < MaxBlocks - 1
<1>1. /\ LagOf(f, s) \in 0 .. MaxBlocks - 1 /\ Back(f, LagOf(f, s)) = s /\ LagOf(f, s) # 0
  BY LagFacts
<1>2. LagOf(f, s) \in Distance
  BY <1>1, TxBufferAssumption DEF Distance
<1>3. After(f) = Back(f, MaxBlocks - 1) /\ MaxBlocks - 1 \in Distance
  BY TxBufferAssumption DEF After, Back, Slot, Distance
<1>4. s # After(f) => LagOf(f, s) < MaxBlocks - 1
  BY <1>1, <1>3, TxBufferAssumption
<1> QED
  BY <1>1, <1>2, <1>3, <1>4

\* The packets AddPacket writes are of the current frame and without a place;
\* the others keep what they say of their frame, and those written before in
\* the block get its scheme.
LEMMA OpenedPackets ==
  ASSUME IInv, AddPacket, NEW last \in Nat, AddsUpTo(last), nextPkt < last,
         NEW s \in Slot, NEW k \in PacketIndex
  PROVE  LET p == Opened(last)[s][k]
             q == packets[s][k]
         IN  /\ IF s = fill /\ nextPkt <= k /\ k < last
                  THEN p.frame = frame /\ p.info = 0 /\ p.idx = k
                  ELSE p.frame = q.frame /\ p.info = q.info /\ p.idx = q.idx
             /\ p.data = IF s = fill /\ k < last THEN scheme'.data ELSE q.data
<1> DEFINE open   == IF Full(last) THEN 0 ELSE After(fill)
           filled == FilledSlot(last)
           slots  == Slots(last)
           Same(slot, old) ==
             \A j \in PacketIndex :
               /\ slot[j].frame = old[j].frame /\ slot[j].info = old[j].info
               /\ slot[j].idx = old[j].idx /\ slot[j].data = old[j].data
<1>1. /\ fill \in Slot /\ packets \in Ring /\ open \in Slot /\ filled \in [PacketIndex -> PacketType]
  BY Ranges, SizeFacts, RingFacts, OpenedFacts
<1>2. ASSUME NEW slot \in [PacketIndex -> PacketType] PROVE Same(Emptied(slot), slot)
  BY DEF Emptied, PacketType
<1>3. LET p == filled[k]
          q == packets[fill][k]
      IN  /\ IF nextPkt <= k /\ k < last
               THEN p.frame = frame /\ p.info = 0 /\ p.idx = k
               ELSE p.frame = q.frame /\ p.info = q.info /\ p.idx = q.idx
          /\ p.data = IF k < last THEN scheme'.data ELSE q.data
  <2> DEFINE slot == IF nextPkt = 0 THEN Emptied(packets[fill]) ELSE packets[fill]
  <2>1. slot \in [PacketIndex -> PacketType] /\ Same(slot, packets[fill])
    BY <1>1, <1>2, EmptiedFacts DEF Ring
  <2> HIDE DEF slot
  <2>2. filled = Filled(slot, scheme', last)
    BY DEF FilledSlot, slot
  <2>3. slot[k] \in PacketType
    BY <2>1
  <2>4. /\ slot[k].frame = packets[fill][k].frame /\ slot[k].info = packets[fill][k].info
        /\ slot[k].idx = packets[fill][k].idx /\ slot[k].data = packets[fill][k].data
    BY <2>1
  <2>5. filled[k] = IF nextPkt <= k /\ k < last THEN Header(k, scheme')
                    ELSE IF k < nextPkt /\ frameLeft = 1 /\ nextPkt < scheme.data - 1
                      THEN [slot[k] EXCEPT !.data = scheme'.data, !.ec = scheme'.ec]
                    ELSE slot[k]
    BY <2>2 DEF Filled
  <2>6. k < last => filled[k].data = scheme'.data
    BY OpenedFacts
  <2>7. k < nextPkt => k < last
    BY Ranges
  <2> QED
    BY <2>3, <2>4, <2>5, <2>6, <2>7 DEF Header, PacketType
<1>4. slots = [packets EXCEPT ![fill] = filled]
  BY DEF Slots
<1>5. Opened(last) = IF Done(last) THEN [slots EXCEPT ![open] = Emptied(@)] ELSE slots
  BY DEF Opened
<1> HIDE DEF open, filled, slots
<1>6. slots \in Ring /\ slots[fill] = filled /\ (s # fill => slots[s] = packets[s])
  BY <1>1, <1>4 DEF Ring
<1>7. Same(Opened(last)[s], slots[s])
  <2>1. Same(Emptied(slots[s]), slots[s])
    BY <1>2, <1>6 DEF Ring
  <2>2. Opened(last)[s] = slots[s] \/ Opened(last)[s] = Emptied(slots[s])
    BY <1>1, <1>5, <1>6 DEF Ring
  <2> QED
    BY <2>1, <2>2
<1>8. CASE s = fill
  BY <1>3, <1>6, <1>7, <1>8
<1>9. CASE s # fill
  BY <1>6, <1>7, <1>9
<1> QED
  BY <1>8, <1>9

\* How far the packets go that AddPacket writes.
Writes(last) ==
  /\ last \in Nat /\ AddsUpTo(last) /\ nextPkt < last
  /\ Done(last) => last = scheme'.data + scheme'.ec /\ nextPkt + 1 = scheme'.data
  /\ ~ Done(last) => last = nextPkt + 1 /\ last < scheme'.data /\ frameLeft > 1

LEMMA WritesFacts ==
  ASSUME IInv, AddPacket, NEW last, Writes(last)
  PROVE  /\ pc = "frame" /\ frame' = frame
         /\ scheme'.data \in 1 .. MaxDataPackets /\ scheme'.ec \in 0 .. scheme'.data
         /\ scheme'.data \in Nat /\ scheme'.ec \in Nat
         /\ \A k \in 0 .. last - 1 : k \in PacketIndex
<1>1. pc = "frame" /\ frame' = frame
  BY DEF AddPacket
<1>2. /\ scheme'.data \in Nat /\ scheme'.ec \in Nat /\ scheme'.ec <= scheme'.data
      /\ scheme'.data \in 1 .. MaxDataPackets
  BY AddPacketCases DEF Usable, SchemeType
<1>3. last \in Nat /\ last <= scheme'.data + scheme'.ec
  BY <1>2 DEF Writes
<1>4. ASSUME NEW k \in 0 .. last - 1 PROVE k \in PacketIndex
  <2>1. k \in Nat /\ k < 2 * scheme'.data /\ scheme'.data <= MaxDataPackets
    BY <1>2, <1>3, TxBufferAssumption
  <2> QED
    BY <1>2, <2>1, SizeFacts
<1> QED
  BY <1>1, <1>2, <1>4

\* The slot being filled has the packets of the frame, and nothing behind.
LEMMA FilledFrames ==
  ASSUME IInv, FInv, AddPacket, NEW last, Writes(last)
  PROVE  /\ \A k \in PacketIndex : k < last => Opened(last)[fill][k].frame = frame
         /\ ~ Full(last) => /\ Opened(last)[fill] = FilledSlot(last)
                            /\ \A k \in PacketIndex : ~ (k < last) => FilledSlot(last)[k].empty
<1>1. /\ last \in Nat /\ AddsUpTo(last) /\ nextPkt < last
  BY DEF Writes
<1>2. /\ fill \in Slot /\ packets \in Ring /\ nextPkt \in Nat /\ PacketIndex \subseteq Nat
  BY Ranges
<1>3. ~ Full(last) => Opened(last)[fill] = FilledSlot(last)
  BY <1>1, OpenedFacts
<1>4. pc = "frame"
  BY WritesFacts
<1>5. ASSUME NEW k \in PacketIndex, k < last PROVE Opened(last)[fill][k].frame = frame
  <2>1. Opened(last)[fill][k].frame = IF nextPkt <= k /\ k < last THEN frame ELSE packets[fill][k].frame
    BY <1>1, <1>2, OpenedPackets
  <2>2. k < nextPkt => packets[fill][k].frame = frame
    BY <1>2, <1>4 DEF FInv, FrameFilling
  <2> QED
    BY <1>2, <1>5, <2>1, <2>2
<1>6. ASSUME NEW k \in PacketIndex, ~ (k < last) PROVE FilledSlot(last)[k].empty
  <2> DEFINE slot == IF nextPkt = 0 THEN Emptied(packets[fill]) ELSE packets[fill]
  <2>1. slot[k].empty
    <3>1. nextPkt = 0 => slot[k].empty
      BY <1>2, EmptiedFacts DEF Ring
    <3>2. nextPkt # 0 => packets[fill][k].empty
      BY <1>1, <1>2, <1>4, <1>6 DEF FInv, FrameFilling
    <3> QED
      BY <3>1, <3>2
  <2>2. ~ (nextPkt <= k /\ k < last) /\ ~ (k < nextPkt)
    BY <1>1, <1>2, <1>6
  <2>3. FilledSlot(last) = Filled(slot, scheme', last)
    BY DEF FilledSlot
  <2> HIDE DEF slot
  <2>4. FilledSlot(last)[k] = slot[k]
    BY <2>2, <2>3 DEF Filled
  <2> QED
    BY <2>1, <2>4
<1> QED
  BY <1>3, <1>5, <1>6

\* After a step of AddPacket: the labels of a finished frame are written into
\* its packets, and nothing else is.
LEMMA AddedPackets ==
  ASSUME IInv, FInv, AddPacket, NEW last, Writes(last)
  PROVE  /\ Opened(last) \in Ring /\ packets' \in Ring /\ Count(last) \in Nat
         /\ \A s \in Slot, k \in PacketIndex :
              /\ Alike(packets'[s][k], Opened(last)[s][k])
              /\ Opened(last)[s][k].frame # frame => packets'[s][k] = Opened(last)[s][k]
         /\ FramesPast'
<1>1. /\ last \in Nat /\ AddsUpTo(last) /\ nextPkt < last
  BY DEF Writes
<1>2. /\ nextPkt \in Nat /\ added \in Nat /\ frameSize \in Nat /\ frame \in Nat /\ frame' = frame
      /\ \A s \in Slot, k \in PacketIndex : packets[s][k] \in PacketType
  BY Ranges, WritesFacts
<1>3. Opened(last) \in Ring /\ Count(last) \in Nat
  BY <1>1, <1>2, OpenedFacts DEF Count
<1>4. \/ packets' = Placed(Opened(last), [slot |-> fill', pkt |-> nextPkt'], Count(last))
      \/ packets' = Opened(last)
  BY <1>1 DEF AddsUpTo
<1>5. /\ packets' \in Ring
      /\ \A s \in Slot, k \in PacketIndex :
           /\ Alike(packets'[s][k], Opened(last)[s][k])
           /\ Opened(last)[s][k].frame # frame => packets'[s][k] = Opened(last)[s][k]
  BY <1>2, <1>3, <1>4, PlacedFacts DEF Alike
<1>6. \A s \in Slot, k \in PacketIndex : packets'[s][k].frame <= frame
  <2> SUFFICES ASSUME NEW s \in Slot, NEW k \in PacketIndex PROVE packets'[s][k].frame <= frame
    OBVIOUS
  <2>1. packets'[s][k].frame = Opened(last)[s][k].frame
    BY <1>5 DEF Alike
  <2>2. Opened(last)[s][k].frame = frame \/ Opened(last)[s][k].frame = packets[s][k].frame
    BY <1>1, OpenedPackets
  <2> QED
    BY <1>2, <2>1, <2>2 DEF FInv, FramesPast
<1> QED
  BY <1>2, <1>3, <1>5, <1>6 DEF FramesPast

\* What is left of a block stays of one frame.
LEMMA AddedFramed ==
  ASSUME IInv, FInv, AddPacket, NEW last, Writes(last),
         NEW s \in Slot, NEW k \in PacketIndex, s = fill => Done(last), k < packets'[s][0].data
  PROVE  packets'[s][k].frame = packets'[s][0].frame
<1>1. /\ last \in Nat /\ AddsUpTo(last) /\ nextPkt < last
      /\ Done(last) => last = scheme'.data + scheme'.ec /\ nextPkt + 1 = scheme'.data
  BY DEF Writes
<1>2. /\ fill \in Slot /\ nextPkt \in Nat /\ 0 \in PacketIndex /\ PacketIndex \subseteq Nat
  BY Ranges
<1>3. \A j \in PacketIndex : /\ packets'[s][j].frame = Opened(last)[s][j].frame
                             /\ packets'[s][j].data = Opened(last)[s][j].data
  BY AddedPackets DEF Alike
<1>4. CASE s = fill
  <2>1. packets'[s][0].data = scheme'.data
    BY <1>1, <1>2, <1>3, <1>4, OpenedPackets
  <2>2. 0 < last /\ k < last
    BY <1>1, <1>2, <1>4, <2>1, WritesFacts
  <2> QED
    BY <1>2, <1>3, <1>4, <2>2, FilledFrames
<1>5. CASE s # fill
  <2>1. \A j \in PacketIndex : /\ packets'[s][j].frame = packets[s][j].frame
                               /\ packets'[s][j].data = packets[s][j].data
    BY <1>1, <1>3, <1>5, OpenedPackets
  <2>2. k < packets[s][0].data
    BY <1>2, <2>1
  <2>3. packets[s][k].frame = packets[s][0].frame
    BY <1>5, <2>2 DEF FInv, BlocksFramed
  <2> QED
    BY <1>2, <2>1, <2>3
<1> QED
  BY <1>4, <1>5

LEMMA Finite ==
  ASSUME NEW S \in SUBSET (Slot \X PacketIndex)
  PROVE  IsFiniteSet(S) /\ Cardinality(S) \in Nat
<1>1. IsFiniteSet(Slot) /\ IsFiniteSet(PacketIndex)
  BY TxBufferAssumption, FS_Interval DEF Slot, PacketIndex
<1>2. IsFiniteSet(Slot \X PacketIndex)
  BY <1>1, FS_Product
<1>3. IsFiniteSet(S)
  BY <1>2, FS_Subset
<1> QED
  BY <1>3, FS_CardinalityType

\* A step adds one data packet to the frame, whatever EC packets follow it,
\* and gives none of its packets a place.
LEMMA OpenedOfFrame ==
  ASSUME IInv, FInv, AddPacket, NEW last, Writes(last)
  PROVE  /\ \A s \in Slot, k \in PacketIndex :
              Opened(last)[s][k].frame = frame => Opened(last)[s][k].info = 0
         /\ Cardinality(FrameData(Opened(last), frame)) \in Nat
         /\ Cardinality(FrameData(Opened(last), frame)) <= (frameSize - frameLeft) + 1
<1> DEFINE old == FrameData(packets, frame)
           new == FrameData(Opened(last), frame)
<1>1. /\ last \in Nat /\ AddsUpTo(last) /\ nextPkt < last
      /\ Done(last) => last = scheme'.data + scheme'.ec /\ nextPkt + 1 = scheme'.data
      /\ ~ Done(last) => last = nextPkt + 1
  BY DEF Writes
<1>2. /\ fill \in Slot /\ nextPkt \in Nat /\ nextBlk \in Nat /\ MaxBlocks \in Nat
      /\ PacketIndex \subseteq Nat /\ frameSize \in Nat /\ frameLeft \in Nat /\ pc = "frame"
      /\ scheme'.data \in Nat /\ 0 \in 0 .. MaxBlocks - 1 /\ Back(fill, 0) = fill
  <2>1. pc = "frame" /\ scheme'.data \in Nat
    BY WritesFacts
  <2>2. fill \in Slot /\ 0 \in 0 .. MaxBlocks - 1
    BY Ranges, TxBufferAssumption
  <2> QED
    BY <2>1, <2>2, Ranges, RingFacts
<1>3. ASSUME NEW s \in Slot, NEW k \in PacketIndex, Opened(last)[s][k].frame = frame
      PROVE  Opened(last)[s][k].info = 0
  <2>1. CASE s = fill /\ nextPkt <= k /\ k < last
    BY <1>1, <2>1, OpenedPackets
  <2>2. CASE ~ (s = fill /\ nextPkt <= k /\ k < last)
    <3>1. /\ Opened(last)[s][k].frame = packets[s][k].frame
          /\ Opened(last)[s][k].info = packets[s][k].info
      BY <1>1, <2>2, OpenedPackets
    <3> QED
      BY <1>2, <1>3, <3>1 DEF FInv, FrameFilling
  <2> QED
    BY <2>1, <2>2
<1>4. ASSUME NEW s \in Slot, NEW k \in PacketIndex, <<s, k>> \in new
      PROVE  <<s, k>> \in old \/ <<s, k>> = <<fill, nextPkt>>
  <2> DEFINE p == Opened(last)[s][k]
             q == packets[s][k]
  <2>1. p.frame = frame /\ p.idx < p.data
    BY <1>4 DEF FrameData, IsData
  <2>2. p.data = IF s = fill /\ k < last THEN scheme'.data ELSE q.data
    BY <1>1, OpenedPackets
  <2>3. CASE s = fill /\ nextPkt <= k /\ k < last
    <3>1. p.idx = k /\ p.data = scheme'.data
      BY <1>1, <2>2, <2>3, OpenedPackets
    <3>2. k \in Nat /\ k < scheme'.data
      BY <1>2, <2>1, <3>1
    <3>3. k = nextPkt
      BY <1>1, <1>2, <2>3, <3>2
    <3> QED
      BY <2>3, <3>3
  <2>4. CASE ~ (s = fill /\ nextPkt <= k /\ k < last)
    <3>1. q.frame = frame /\ q.idx = p.idx
      BY <1>1, <2>1, <2>4, OpenedPackets
    <3>2. q.idx < q.data
      <4>1. CASE s = fill /\ k < last
        <5>1. k < nextPkt /\ k \in 0 .. nextPkt - 1 /\ nextPkt > 0
          BY <1>1, <1>2, <2>4, <4>1
        <5>2. ~ q.empty /\ q.data = scheme.data /\ nextPkt < scheme.data /\ scheme.data \in Nat
          BY <4>1, <5>1, TxBufferAssumption DEF IInv, FillingRight
        <5>3. q.idx = k
          BY <1>2, <4>1, <5>1, <5>2 DEF IInv, SlotsNumbered
        <5> QED
          BY <1>2, <5>1, <5>2, <5>3
      <4>2. CASE ~ (s = fill /\ k < last)
        BY <2>1, <2>2, <3>1, <4>2
      <4> QED
        BY <4>1, <4>2
    <3> QED
      BY <3>1, <3>2 DEF FrameData, IsData
  <2> QED
    BY <2>3, <2>4
<1>5. new \in SUBSET (Slot \X PacketIndex) /\ old \in SUBSET (Slot \X PacketIndex)
  BY DEF FrameData
<1> HIDE DEF old, new
<1>6. new \in SUBSET (old \cup {<<fill, nextPkt>>})
  <2>1. \A x \in Slot \X PacketIndex : \E s \in Slot, k \in PacketIndex : x = <<s, k>>
    OBVIOUS
  <2> QED
    BY <1>4, <1>5, <2>1
<1>7. IsFiniteSet(old) /\ Cardinality(old) \in Nat /\ Cardinality(new) \in Nat
  BY <1>5, Finite
<1>8. /\ IsFiniteSet(old \cup {<<fill, nextPkt>>})
      /\ Cardinality(old \cup {<<fill, nextPkt>>}) \in {Cardinality(old), Cardinality(old) + 1}
  BY <1>7, FS_AddElement
<1>9. Cardinality(new) <= Cardinality(old \cup {<<fill, nextPkt>>})
  BY <1>6, <1>8, FS_Subset
<1>10. Cardinality(old) <= frameSize - frameLeft
  BY <1>2 DEF FInv, FrameFilling, old
<1>11. Cardinality(new) <= (frameSize - frameLeft) + 1
  BY <1>2, <1>7, <1>8, <1>9, <1>10
<1> QED
  BY <1>3, <1>7, <1>11 DEF new

\* Which packets of the frame the buffer holds after a step: the ones it held
\* and the ones written, but for those of a block whose slot is opened anew.
LEMMA LivePackets ==
  ASSUME IInv, FInv, AddPacket, NEW last, Writes(last), ~ Full(last),
         NEW s \in Slot, NEW k \in PacketIndex
  PROVE  LET x     == <<s, k>>
             isOld == x \in Live(packets, fill, nextBlk, nextPkt, frame)
             isNew == x \in {fill} \X (nextPkt .. last - 1)
             now   == x \in Live(Opened(last), fill', nextBlk', nextPkt', frame)
         IN  /\ now => isOld \/ isNew
             /\ (isOld \/ isNew) /\ ~ now => nextBlk >= MaxBlocks - 1
             /\ ~ (isOld /\ isNew)
<1> DEFINE x     == <<s, k>>
           isOld == x \in Live(packets, fill, nextBlk, nextPkt, frame)
           isNew == x \in {fill} \X (nextPkt .. last - 1)
           now   == x \in Live(Opened(last), fill', nextBlk', nextPkt', frame)
           p     == Opened(last)[s][k]
           q     == packets[s][k]
<1> SUFFICES /\ now => isOld \/ isNew
             /\ (isOld \/ isNew) /\ ~ now => nextBlk >= MaxBlocks - 1
             /\ ~ (isOld /\ isNew)
  OBVIOUS
<1>1. last \in Nat /\ AddsUpTo(last) /\ nextPkt < last
  BY DEF Writes
<1>2. /\ fill \in Slot /\ After(fill) \in Slot /\ After(fill) # fill
      /\ nextPkt \in Nat /\ nextBlk \in Nat /\ k \in Nat /\ MaxBlocks \in Nat
  BY Ranges, RingFacts
<1>3. pc = "frame"
  BY WritesFacts
<1>4. \/ ~ Done(last) /\ nextPkt' = last /\ nextBlk' = nextBlk /\ fill' = fill
      \/ Done(last) /\ nextPkt' = 0 /\ nextBlk' = nextBlk + 1 /\ fill' = After(fill)
  BY <1>1 DEF AddsUpTo, Full
<1>5. /\ isOld <=> /\ ~ q.empty /\ q.frame = frame
                   /\ LagOf(fill, s) <= nextBlk /\ (LagOf(fill, s) = 0 => k < nextPkt)
      /\ now <=> /\ ~ p.empty /\ p.frame = frame
                 /\ LagOf(fill', s) <= nextBlk' /\ (LagOf(fill', s) = 0 => k < nextPkt')
      /\ isNew <=> s = fill /\ nextPkt <= k /\ k < last
  BY <1>1, <1>2 DEF Live
<1> HIDE DEF isOld, isNew, now
<1>6. CASE s = fill
  <2>1. k < nextPkt => ~ q.empty /\ q.frame = frame
    <3>1. k < nextPkt => nextPkt > 0 /\ k \in 0 .. nextPkt - 1
      BY <1>2
    <3> QED
      BY <1>3, <1>6, <3>1 DEF IInv, FillingRight, FInv, FrameFilling
  <2>2. isOld <=> k < nextPkt
    <3>1. LagOf(fill, s) = 0
      BY <1>2, <1>6, LagFacts
    <3> HIDE DEF q
    <3> QED
      BY <1>2, <1>5, <2>1, <3>1
  <2>3. /\ k < last => ~ p.empty /\ p.frame = frame
        /\ ~ (k < last) => p.empty
    BY <1>1, <1>6, OpenedFacts, FilledFrames
  <2>4. now <=> k < last
    <3>1. CASE ~ Done(last)
      <4>1. nextPkt' = last /\ nextBlk' = nextBlk /\ fill' = fill
        BY <1>4, <3>1
      <4>2. LagOf(fill', s) = 0
        BY <1>2, <1>6, <4>1, LagFacts
      <4> HIDE DEF p
      <4> QED
        BY <1>2, <1>5, <2>3, <4>1, <4>2
    <3>2. CASE Done(last)
      <4>1. nextBlk' = nextBlk + 1 /\ fill' = After(fill)
        BY <1>4, <3>2
      <4>2. LagOf(fill', s) = 1
        BY <1>2, <1>6, <4>1, TxBufferAssumption DEF LagOf, After, Slot
      <4> HIDE DEF p
      <4> QED
        BY <1>2, <1>5, <2>3, <4>1, <4>2
    <3> QED
      BY <3>1, <3>2
  <2> QED
    BY <1>1, <1>2, <1>5, <1>6, <2>2, <2>4
<1>7. CASE s # fill /\ ~ (Done(last) /\ s = After(fill))
  <2>1. p = q
    BY <1>1, <1>7, OpenedFacts
  <2>2. LagOf(fill, s) \in Nat /\ LagOf(fill, s) # 0
    BY <1>2, <1>7, LagFacts
  <2>3. /\ ~ Done(last) => LagOf(fill', s) = LagOf(fill, s) /\ nextBlk' = nextBlk
        /\ Done(last) => LagOf(fill', s) = LagOf(fill, s) + 1 /\ nextBlk' = nextBlk + 1
    <3>1. s # After(fill) => LagOf(After(fill), s) = LagOf(fill, s) + 1
      BY <1>2, LagFacts
    <3> QED
      BY <1>4, <1>7, <3>1
  <2> HIDE DEF p, q
  <2>4. now <=> isOld
    BY <1>2, <1>5, <2>1, <2>2, <2>3
  <2> QED
    BY <1>5, <1>7, <2>4
<1>8. CASE Done(last) /\ s = After(fill)
  <2>1. fill' = After(fill) /\ nextPkt' = 0
    BY <1>4, <1>8
  <2>2. ~ now
    <3>1. LagOf(fill', s) = 0
      BY <1>2, <1>8, <2>1, LagFacts
    <3> QED
      BY <1>2, <1>5, <2>1, <3>1
  <2>3. LagOf(fill, s) = MaxBlocks - 1
    BY <1>2, <1>8, TxBufferAssumption DEF LagOf, After, Slot
  <2> QED
    BY <1>2, <1>5, <1>8, <2>2, <2>3
<1> QED
  BY <1>6, <1>7, <1>8

\* A ring with a packet in every slot stays one; and it is one once a block
\* is opened in a slot that held one.
LEMMA WrittenOpened ==
  ASSUME IInv, AddPacket, NEW last, Writes(last),
         AllWritten(packets) \/ nextBlk >= MaxBlocks - 1
  PROVE  AllWritten(Opened(last))
<1> SUFFICES ASSUME NEW s \in Slot PROVE Opened(last)[s][0].data > 0
  BY DEF AllWritten
<1>1. /\ last \in Nat /\ AddsUpTo(last) /\ nextPkt < last
      /\ fill \in Slot /\ nextPkt \in Nat /\ 0 \in PacketIndex /\ nextBlk \in Nat /\ MaxBlocks \in Nat
  BY Ranges DEF Writes
<1>2. Opened(last)[s][0].data = IF s = fill THEN scheme'.data ELSE packets[s][0].data
  BY <1>1, OpenedPackets
<1>3. scheme'.data > 0
  BY WritesFacts
<1>4. s # fill => packets[s][0].data > 0
  <2> SUFFICES ASSUME s # fill, nextBlk >= MaxBlocks - 1 PROVE packets[s][0].data > 0
    BY DEF AllWritten
  <2>1. PICK d \in Distance : s = Back(fill, d)
    BY <1>1, Distances
  <2>2. d \in 1 .. MaxBlocks - 1 /\ d <= nextBlk
    BY <1>1 DEF Distance
  <2> QED
    BY <2>1, <2>2 DEF IInv, BlocksWhole
<1> QED
  BY <1>2, <1>3, <1>4

\* The packets counted for the frame are those the buffer holds, or more once
\* each slot was filled.
LEMMA LiveCounted ==
  ASSUME IInv, FInv, AddPacket, NEW last, Writes(last)
  PROVE  LET live == Cardinality(Live(Opened(last), fill', nextBlk', nextPkt', frame))
         IN  live \in Nat /\ live <= Count(last) /\ (live = Count(last) \/ AllWritten(Opened(last)))
<1> DEFINE old == Live(packets, fill, nextBlk, nextPkt, frame)
           new == {fill} \X (nextPkt .. last - 1)
           now == Live(Opened(last), fill', nextBlk', nextPkt', frame)
<1>1. /\ last \in Nat /\ AddsUpTo(last) /\ nextPkt < last /\ pc = "frame"
      /\ fill \in Slot /\ nextPkt \in Nat /\ nextBlk \in Nat /\ added \in Nat /\ MaxBlocks \in Nat
  BY Ranges, WritesFacts DEF Writes
<1>2. now \in SUBSET (Slot \X PacketIndex) /\ old \in SUBSET (Slot \X PacketIndex)
  BY DEF Live
<1>3. CASE Full(last)
  <2>1. fill' = 0 /\ nextBlk' = 0 /\ nextPkt' = 0
    BY <1>1, <1>3 DEF AddsUpTo, Discard, Full
  <2>2. now = {}
    <3> SUFFICES ASSUME NEW x \in now PROVE FALSE
      OBVIOUS
    <3>1. x[1] \in Slot /\ x[2] \in Nat /\ LagOf(0, x[1]) <= 0 /\ (LagOf(0, x[1]) = 0 => x[2] < 0)
      BY <2>1 DEF Live, PacketIndex
    <3>2. LagOf(0, x[1]) \in Nat
      BY <3>1, SizeFacts, LagFacts
    <3> QED
      BY <3>1, <3>2
  <2> HIDE DEF now
  <2>3. Cardinality(now) = 0
    BY <2>2, FS_EmptySet, Zenon
  <2>4. nextBlk >= MaxBlocks - 1
    <3>1. LagOf(fill, After(fill)) = MaxBlocks - 1
      BY <1>1, TxBufferAssumption DEF LagOf, After, Slot
    <3>2. Lag = MaxBlocks - 1 /\ Lag <= nextBlk
      BY <1>3, <3>1 DEF Full, Lag, IInv, SendRight
    <3> QED
      BY <1>1, <3>2
  <2>5. AllWritten(Opened(last))
    BY <2>4, WrittenOpened
  <2> QED
    BY <1>1, <1>3, <2>3, <2>5 DEF Count, now
<1>4. CASE ~ Full(last)
  <2>1. \A s \in Slot, k \in PacketIndex :
          LET x == <<s, k>>
          IN  /\ x \in now => x \in old \/ x \in new
              /\ (x \in old \/ x \in new) /\ x \notin now => nextBlk >= MaxBlocks - 1
              /\ ~ (x \in old /\ x \in new)
    BY <1>4, LivePackets
  <2>2. new \subseteq Slot \X PacketIndex
    BY <1>1, WritesFacts
  <2>3. \A x \in Slot \X PacketIndex : \E s \in Slot, k \in PacketIndex : x = <<s, k>>
    OBVIOUS
  <2>4. IsFiniteSet(new) /\ Cardinality(new) = last - nextPkt
    <3>1. IsFiniteSet({fill}) /\ Cardinality({fill}) = 1
      BY FS_Singleton
    <3>2. IsFiniteSet(nextPkt .. last - 1) /\ Cardinality(nextPkt .. last - 1) = last - nextPkt
      BY <1>1, FS_Interval
    <3>3. /\ IsFiniteSet(new)
          /\ Cardinality(new) = Cardinality({fill}) * Cardinality(nextPkt .. last - 1)
      BY <3>1, <3>2, FS_Product
    <3> QED
      BY <1>1, <3>1, <3>2, <3>3
  <2>5. IsFiniteSet(old) /\ Cardinality(old) \in Nat /\ Cardinality(now) \in Nat
    BY <1>2, Finite
  <2>6. Cardinality(old) <= added /\ (Cardinality(old) = added \/ AllWritten(packets))
    BY <1>1 DEF FInv, FrameFilling
  <2> HIDE DEF old, new, now
  <2>7. now \in SUBSET (old \cup new)
    BY <1>2, <2>1, <2>3
  <2>8. old \cap new = {}
    BY <1>2, <2>1, <2>3
  <2>9. now = old \cup new \/ nextBlk >= MaxBlocks - 1
    BY <1>2, <2>1, <2>2, <2>3
  <2>10. /\ IsFiniteSet(old \cup new)
         /\ Cardinality(old \cup new) = Cardinality(old) + Cardinality(new) - Cardinality(old \cap new)
    BY <2>4, <2>5, FS_Union
  <2>11. Cardinality(old \cap new) = 0
    BY <2>8, FS_EmptySet, Zenon
  <2>12. Cardinality(old \cup new) = Cardinality(old) + (last - nextPkt)
    BY <1>1, <2>4, <2>5, <2>10, <2>11
  <2>13. Cardinality(now) <= Cardinality(old \cup new)
    BY <2>7, <2>10, FS_Subset
  <2>14. Count(last) = added + (last - nextPkt)
    BY <1>1, <1>4 DEF Count
  <2>15. Cardinality(now) <= Count(last)
    BY <1>1, <2>5, <2>6, <2>12, <2>13, <2>14
  <2>16. Cardinality(now) = Count(last) \/ AllWritten(Opened(last))
    <3>1. AllWritten(packets) \/ nextBlk >= MaxBlocks - 1 => AllWritten(Opened(last))
      BY WrittenOpened
    <3>2. now = old \cup new /\ Cardinality(old) = added => Cardinality(now) = Count(last)
      BY <2>12, <2>14
    <3> QED
      BY <2>6, <2>9, <3>1, <3>2
  <2> QED
    BY <2>5, <2>15, <2>16 DEF now
<1> QED
  BY <1>3, <1>4

\* While the frame goes on, so does what is known of its packets.
LEMMA AddedFilling ==
  ASSUME IInv, FInv, AddPacket, NEW last, Writes(last), pc' = "frame",
         nextPkt' > 0 =>
           \A k \in PacketIndex :
             IF k < nextPkt' THEN packets'[fill'][k].frame = frame ELSE packets'[fill'][k].empty
  PROVE  FrameFilling'
<1>1. /\ AddsUpTo(last) /\ frame' = frame /\ frameSize \in Nat /\ frameLeft \in Nat
  BY Ranges, WritesFacts DEF Writes
<1>2. /\ packets' = Opened(last) /\ added' = Count(last)
      /\ frameSize' = frameSize /\ frameLeft' = frameLeft - 1
  BY <1>1 DEF AddsUpTo
<1>3. \A s \in Slot, k \in PacketIndex : packets'[s][k].frame = frame => packets'[s][k].info = 0
  BY <1>2, OpenedOfFrame
<1>4. /\ Live(packets, fill, nextBlk, nextPkt, frame)' = Live(packets', fill', nextBlk', nextPkt', frame)
      /\ FrameData(packets, frame)' = FrameData(packets', frame)
      /\ AllWritten(packets)' <=> AllWritten(packets')
  BY <1>1 DEF Live, FrameData, AllWritten
<1>5. LET live == Cardinality(Live(packets', fill', nextBlk', nextPkt', frame))
      IN  live <= added' /\ (live = added' \/ AllWritten(packets'))
  BY <1>2, LiveCounted
<1>6. Cardinality(FrameData(packets', frame)) <= frameSize' - frameLeft'
  BY <1>1, <1>2, OpenedOfFrame
<1> QED
  BY <1>1, <1>3, <1>4, <1>5, <1>6 DEF FrameFilling

\* Once a full ring is discarded there is no finished block.
LEMMA FullFrames ==
  ASSUME IInv, FInv, AddPacket, NEW last, Writes(last), Full(last)
  PROVE  FInv'
<1>1. nextBlk' = 0 /\ nextPkt' = 0 /\ frame' = frame
  BY WritesFacts DEF Writes, AddsUpTo, Discard, Full
<1>2. \A d \in Distance : ~ (d <= 0)
  BY TxBufferAssumption DEF Distance
<1>3. \A s \in Slot, k \in PacketIndex :
        k < packets'[s][0].data => packets'[s][k].frame = packets'[s][0].frame
  BY AddedFramed DEF Full
<1>4. BlocksFramed' /\ FramesInOrder' /\ Labelled'
  BY <1>1, <1>2, <1>3 DEF BlocksFramed, FramesInOrder, Labelled
<1>5. pc' = "frame" => FrameFilling'
  BY <1>1, AddedFilling
<1> QED
  BY <1>4, <1>5, AddedPackets DEF FInv

\* A block that is not full yet takes in a packet of the frame.
LEMMA GoesOnFrames ==
  ASSUME IInv, FInv, AddPacket, NEW last, Writes(last), ~ Done(last)
  PROVE  FInv'
<1>1. /\ last \in Nat /\ AddsUpTo(last) /\ nextPkt < last /\ ~ Full(last) /\ frameLeft # 1
      /\ packets' = Opened(last) /\ pc' = "frame" /\ pc = "frame"
      /\ nextPkt' = last /\ UNCHANGED <<nextBlk, fill, frame>>
  <2>1. last \in Nat /\ AddsUpTo(last) /\ nextPkt < last /\ ~ Full(last) /\ frameLeft > 1
    BY DEF Writes, Full
  <2>2. frameLeft # 1
    BY <2>1 DEF IInv, TypeOK
  <2> QED
    BY <2>1, <2>2, WritesFacts DEF AddsUpTo
<1>2. /\ fill \in Slot /\ Distance \subseteq Nat /\ nextPkt \in Nat
      /\ \A d \in Distance : Back(fill, d) \in Slot /\ Back(fill, d) # fill
  BY Ranges
<1>3. \A d \in Distance : packets'[Back(fill, d)] = packets[Back(fill, d)]
  BY <1>1, <1>2, OpenedFacts
<1>4. \A d \in Distance : /\ packets'[Back(fill', d)] = packets[Back(fill, d)]
                          /\ FrameOf(d)' = FrameOf(d) /\ SizeOf(d)' = SizeOf(d)
  BY <1>1, <1>3 DEF FrameOf, SizeOf
<1>5. BlocksFramed'
  <2>1. \A s \in Slot, k \in PacketIndex :
          (s = fill' => nextPkt' = 0) /\ k < packets'[s][0].data => packets'[s][k].frame = packets'[s][0].frame
    <3>1. nextPkt' # 0 /\ fill' = fill
      BY <1>1, <1>2
    <3> QED
      BY <3>1, AddedFramed
  <2>2. \A d \in Distance, k \in PacketIndex :
          d <= nextBlk' =>
            IF k < SizeOf(d)' THEN packets'[Back(fill', d)][k].frame = FrameOf(d)'
            ELSE packets'[Back(fill', d)][k].empty
    BY <1>1, <1>4 DEF BlocksFramed, FInv
  <2> QED
    BY <2>1, <2>2 DEF BlocksFramed
<1>6. FramesInOrder'
  BY <1>1, <1>4 DEF FramesInOrder, FInv
<1>7. Labelled'
  <2> SUFFICES ASSUME NEW d \in Distance, d <= nextBlk, FrameOf(d) # frame
               PROVE  BlockLabelled(d)' \/ Wrapped(d)'
    BY <1>1, <1>4 DEF Labelled
  <2>1. BlockLabelled(d) \/ Wrapped(d)
    BY DEF FInv, Labelled
  <2>2. (\A e \in 1 .. d - 1 : e \in Distance) /\ \A e \in d .. MaxBlocks - 1 : e \in Distance
    BY TxBufferAssumption DEF Distance
  <2>3. BlockLabelled(d) => BlockLabelled(d)'
    BY <1>1, <1>4, <2>2 DEF BlockLabelled
  <2>4. Wrapped(d) => Wrapped(d)'
    <3>1. nextPkt' # 0
      BY <1>1, <1>2
    <3> QED
      BY <1>4, <2>2, <3>1 DEF Wrapped
  <2> QED
    BY <2>1, <2>3, <2>4
<1>8. FrameFilling'
  BY <1>1, FilledFrames, AddedFilling
<1> QED
  BY <1>5, <1>6, <1>7, <1>8, AddedPackets DEF FInv

\* The ring once a block is finished and the next slot is opened.
LEMMA EndsFacts ==
  ASSUME IInv, FInv, AddPacket, NEW last, Writes(last), Done(last), ~ Full(last)
  PROVE  LET ring == Opened(last)
             at   == After(fill)
         IN  /\ at \in Slot /\ fill' = at
             /\ nextBlk' = nextBlk + 1 /\ nextPkt' = 0 /\ frame' = frame
             /\ 1 \in Distance /\ Back(at, 1) = fill
             /\ \A d \in Distance :
                  /\ Back(at, d) \in Slot
                  /\ d # 1 => /\ d - 1 \in Distance /\ Back(at, d) = Back(fill, d - 1)
                              /\ ring[Back(at, d)] = packets[Back(fill, d - 1)]
             /\ \A k \in PacketIndex : /\ ring[at][k].empty
                                       /\ ring[at][k].frame = packets[Back(fill, MaxBlocks - 1)][k].frame
<1> DEFINE ring == Opened(last)
           at   == After(fill)
<1>1. /\ last \in Nat /\ AddsUpTo(last) /\ nextPkt < last
      /\ fill' = at /\ frame' = frame /\ nextBlk' = nextBlk + 1 /\ nextPkt' = 0
  BY WritesFacts DEF Writes, AddsUpTo, Full
<1>2. /\ fill \in Slot /\ MaxBlocks \in Nat /\ nextBlk \in Nat /\ nextPkt \in Nat
      /\ Distance \subseteq Nat
  BY Ranges
<1>3. /\ at \in Slot /\ at # fill /\ 1 \in Distance
      /\ \A d \in Distance : /\ Back(at, d) = Back(fill, d - 1) /\ Back(at, d) # at /\ Back(at, d) \in Slot
                             /\ Back(at, d) = fill <=> d = 1
                             /\ d # 1 => d - 1 \in Distance
  BY <1>2, NextRingFacts, TxBufferAssumption DEF Distance
<1>4. \A t \in Slot : t # fill /\ t # at => ring[t] = packets[t]
  BY <1>1, OpenedFacts
<1>5. \A k \in PacketIndex : ring[at][k].empty
  BY <1>1, OpenedFacts
<1>6. \A k \in PacketIndex : ring[at][k].frame = packets[Back(fill, MaxBlocks - 1)][k].frame
  <2>1. \A k \in PacketIndex : ring[at][k].frame = packets[at][k].frame
    BY <1>1, <1>3, OpenedPackets
  <2>2. at = Back(fill, MaxBlocks - 1)
    BY <1>2, <1>3, Distances
  <2> QED
    BY <2>1, <2>2
<1>7. Back(at, 1) = fill
  BY <1>3
<1> HIDE DEF ring, at
<1>8. ASSUME NEW d \in Distance, d # 1
      PROVE  d - 1 \in Distance /\ Back(at, d) = Back(fill, d - 1) /\ ring[Back(at, d)] = packets[Back(fill, d - 1)]
  BY <1>3, <1>4, <1>8
<1> QED
  BY <1>1, <1>3, <1>5, <1>6, <1>7, <1>8 DEF ring, at

\* Its finished blocks are whole, and of one frame each.
LEMMA EndsBlocks ==
  ASSUME IInv, FInv, AddPacket, NEW last, Writes(last), Done(last), ~ Full(last),
         NEW d \in Distance, d <= nextBlk + 1
  PROVE  LET slot == Opened(last)[Back(After(fill), d)]
         IN  /\ slot[0].data \in 1 .. MaxDataPackets /\ slot[0].ec \in 0 .. slot[0].data
             /\ \A k \in PacketIndex :
                  IF k < slot[0].data + slot[0].ec
                    THEN /\ ~ slot[k].empty /\ slot[k].frame = slot[0].frame
                         /\ slot[k].idx = k /\ slot[k].data = slot[0].data
                    ELSE slot[k].empty
             /\ slot[0].frame = IF d = 1 THEN frame ELSE FrameOf(d - 1)
<1> DEFINE slot == Opened(last)[Back(After(fill), d)]
<1>1. last \in Nat /\ AddsUpTo(last) /\ nextPkt < last /\ last = scheme'.data + scheme'.ec
  BY DEF Writes
<1>2. /\ Distance \subseteq Nat /\ nextBlk \in Nat /\ nextPkt \in Nat /\ 0 \in PacketIndex /\ PacketIndex \subseteq Nat
  BY Ranges
<1>3. CASE d = 1
  <2>1. slot = FilledSlot(last)
    BY <1>3, EndsFacts, FilledFrames
  <2> HIDE DEF slot
  <2>2. /\ scheme'.data \in 1 .. MaxDataPackets /\ scheme'.ec \in 0 .. scheme'.data
        /\ scheme'.data \in Nat /\ scheme'.ec \in Nat
    BY WritesFacts
  <2>3. \A k \in PacketIndex :
          /\ k < last => ~ slot[k].empty /\ slot[k].data = scheme'.data /\ slot[k].ec = scheme'.ec
          /\ IF k < last THEN slot[k].frame = frame ELSE slot[k].empty
          /\ Right(slot[k], k)
    BY <1>1, <2>1, OpenedFacts, FilledFrames
  <2>4. 0 < last
    BY <1>1, <1>2
  <2>5. slot[0].data = scheme'.data /\ slot[0].ec = scheme'.ec /\ slot[0].frame = frame
    BY <1>2, <2>3, <2>4
  <2>6. slot[0].data + slot[0].ec = last
    BY <1>1, <2>5
  <2>7. \A k \in PacketIndex :
          IF k < last THEN /\ ~ slot[k].empty /\ slot[k].frame = slot[0].frame
                           /\ slot[k].idx = k /\ slot[k].data = slot[0].data
          ELSE slot[k].empty
    BY <2>3, <2>5 DEF Right
  <2> QED
    BY <1>3, <2>2, <2>5, <2>6, <2>7 DEF slot
<1>4. CASE d # 1
  <2> DEFINE e == d - 1
  <2>1. e \in Distance /\ slot = packets[Back(fill, e)]
    BY <1>4, EndsFacts
  <2>2. e \in 1 .. MaxBlocks - 1 /\ e <= nextBlk
    BY <1>2, <2>1 DEF Distance
  <2> HIDE DEF slot, e
  <2>3. /\ slot[0].data \in 1 .. MaxDataPackets /\ slot[0].ec \in 0 .. slot[0].data
        /\ \A k \in 0 .. slot[0].data + slot[0].ec - 1 :
             ~ slot[k].empty /\ slot[k].idx = k /\ slot[k].data = slot[0].data
    BY <2>1, <2>2, FinishedBlock
  <2>4. SizeOf(e) = slot[0].data + slot[0].ec /\ FrameOf(e) = slot[0].frame
    BY <2>1 DEF SizeOf, FrameOf
  <2>5. \A k \in PacketIndex : IF k < slot[0].data + slot[0].ec THEN slot[k].frame = slot[0].frame ELSE slot[k].empty
    BY <2>1, <2>2, <2>4 DEF FInv, BlocksFramed
  <2>6. slot[0].data \in Nat /\ slot[0].ec \in Nat
    BY <2>3, TxBufferAssumption
  <2>7. \A k \in PacketIndex : k < slot[0].data + slot[0].ec => k \in 0 .. slot[0].data + slot[0].ec - 1
    BY <1>2, <2>6
  <2> QED
    BY <1>4, <2>3, <2>4, <2>5, <2>7 DEF slot, e
<1> QED
  BY <1>3, <1>4

\* The same of the packets after the step, whose labels may be new.
LEMMA EndsAfter ==
  ASSUME IInv, FInv, AddPacket, NEW last, Writes(last), Done(last), ~ Full(last), NEW d \in Distance
  PROVE  LET slot == Opened(last)[Back(After(fill), d)]
         IN  /\ FrameOf(d)' = slot[0].frame /\ SizeOf(d)' = slot[0].data + slot[0].ec
             /\ \A k \in PacketIndex :
                  /\ packets'[Back(fill', d)][k].frame = slot[k].frame
                  /\ packets'[Back(fill', d)][k].empty = slot[k].empty
                  /\ packets'[Back(fill', d)][k].data = slot[k].data
                  /\ packets'[Back(fill', d)][k].ec = slot[k].ec
                  /\ slot[k].frame # frame => packets'[Back(fill', d)][k] = slot[k]
<1>1. fill' = After(fill) /\ Back(After(fill), d) \in Slot /\ 0 \in PacketIndex
  BY EndsFacts, Ranges
<1>2. \A k \in PacketIndex :
        /\ Alike(packets'[Back(fill', d)][k], Opened(last)[Back(After(fill), d)][k])
        /\ Opened(last)[Back(After(fill), d)][k].frame # frame =>
             packets'[Back(fill', d)][k] = Opened(last)[Back(After(fill), d)][k]
  BY <1>1, AddedPackets
<1> QED
  BY <1>1, <1>2 DEF Alike, FrameOf, SizeOf

\* The blocks are still in order.
LEMMA EndsInOrder ==
  ASSUME IInv, FInv, AddPacket, NEW last, Writes(last), Done(last), ~ Full(last)
  PROVE  BlocksFramed' /\ FramesInOrder'
<1>1. /\ fill' = After(fill) /\ nextBlk' = nextBlk + 1
      /\ \A d \in Distance : d # 1 => d - 1 \in Distance
      /\ \A d \in Distance : d # 1 => Opened(last)[Back(After(fill), d)] = packets[Back(fill, d - 1)]
      /\ nextBlk \in Nat /\ Distance \subseteq Nat /\ frame \in Nat
      /\ \A d \in Distance : d > 0 /\ Back(fill, d) \in Slot
      /\ 0 \in PacketIndex /\ PacketIndex \subseteq Nat
  BY EndsFacts, Ranges
<1>2. \A d \in Distance, k \in PacketIndex :
        packets[Back(fill, d)][k].frame \in Nat /\ packets[Back(fill, d)][k].frame <= frame
  BY <1>1, Ranges DEF PacketType, FInv, FramesPast
<1>3. \A d \in Distance : FrameOf(d)' = IF d = 1 THEN (FrameOf(d))' ELSE FrameOf(d - 1)
  BY <1>1, EndsAfter DEF FrameOf
<1>4. ASSUME NEW d \in Distance, d <= nextBlk + 1
      PROVE  FrameOf(d)' = IF d = 1 THEN frame ELSE FrameOf(d - 1)
  BY <1>4, EndsAfter, EndsBlocks
<1>5. \A d \in Distance : FrameOf(d) \in Nat /\ FrameOf(d) <= frame
  BY <1>1, <1>2 DEF FrameOf
<1> HIDE DEF FrameOf
<1>6. BlocksFramed'
  <2>0. \A s \in Slot, k \in PacketIndex :
          k < packets'[s][0].data => packets'[s][k].frame = packets'[s][0].frame
    BY AddedFramed
  <2> SUFFICES ASSUME NEW d \in Distance, d <= nextBlk + 1, NEW k \in PacketIndex
               PROVE  IF k < SizeOf(d)' THEN packets'[Back(fill', d)][k].frame = FrameOf(d)'
                      ELSE packets'[Back(fill', d)][k].empty
    BY <1>1, <2>0 DEF BlocksFramed
  <2> DEFINE slot == Opened(last)[Back(After(fill), d)]
  <2>1. IF k < slot[0].data + slot[0].ec THEN slot[k].frame = slot[0].frame ELSE slot[k].empty
    BY EndsBlocks
  <2>2. /\ FrameOf(d)' = slot[0].frame /\ SizeOf(d)' = slot[0].data + slot[0].ec
        /\ packets'[Back(fill', d)][k].frame = slot[k].frame
        /\ packets'[Back(fill', d)][k].empty = slot[k].empty
    BY EndsAfter
  <2> QED
    BY <2>1, <2>2
<1>7. ASSUME NEW d \in Distance, NEW e \in Distance, d <= e, e <= nextBlk + 1
      PROVE  FrameOf(e)' <= FrameOf(d)'
  <2>1. CASE d = 1 /\ e = 1
    BY <1>1, <1>4, <2>1
  <2>2. CASE d = 1 /\ e # 1
    BY <1>1, <1>4, <1>5, <1>7, <2>2
  <2>3. CASE d # 1
    <3>1. e # 1 /\ d - 1 <= e - 1 /\ e - 1 <= nextBlk /\ d <= nextBlk + 1
      BY <1>1, <1>7, <2>3
    <3>2. FrameOf(e - 1) <= FrameOf(d - 1)
      BY <1>1, <2>3, <3>1 DEF FInv, FramesInOrder
    <3> QED
      BY <1>4, <1>7, <2>3, <3>1, <3>2
  <2> QED
    BY <2>1, <2>2, <2>3
<1>8. ASSUME NEW d \in Distance, NEW e \in Distance, NEW k \in PacketIndex, e <= nextBlk + 1, nextBlk + 1 < d
      PROVE  packets'[Back(fill', d)][k].frame <= FrameOf(e)'
  <2>1. d # 1 /\ nextBlk < d - 1 /\ d - 1 \in Distance
    BY <1>1, <1>8
  <2>2. packets'[Back(fill', d)][k].frame = packets[Back(fill, d - 1)][k].frame
    BY <1>1, <2>1, EndsAfter
  <2>3. CASE e = 1
    BY <1>2, <1>4, <1>8, <2>1, <2>2, <2>3
  <2>4. CASE e # 1
    <3>1. FrameOf(e)' = FrameOf(e - 1) /\ e - 1 \in Distance /\ e - 1 <= nextBlk
      BY <1>1, <1>4, <1>8, <2>4
    <3>2. packets[Back(fill, d - 1)][k].frame <= FrameOf(e - 1)
      BY <2>1, <3>1 DEF FInv, FramesInOrder
    <3> QED
      BY <2>2, <3>1, <3>2
  <2> QED
    BY <2>3, <2>4
<1>9. FramesInOrder'
  BY <1>1, <1>7, <1>8 DEF FramesInOrder
<1> QED
  BY <1>6, <1>9

\* An earlier frame keeps its labels.
LEMMA EndsOlder ==
  ASSUME IInv, FInv, AddPacket, NEW last, Writes(last), Done(last), ~ Full(last),
         NEW d \in Distance, d <= nextBlk', FrameOf(d)' # frame
  PROVE  BlockLabelled(d)' \/ Wrapped(d)'
<1> DEFINE c == d - 1
           new(e) == packets'[Back(fill', e)]
           old(e) == packets[Back(fill, e)]
<1>1. /\ fill' = After(fill) /\ nextBlk' = nextBlk + 1 /\ nextPkt' = 0 /\ fill \in Slot
      /\ \A e \in Distance : e # 1 => e - 1 \in Distance
      /\ \A e \in Distance : e # 1 => Opened(last)[Back(After(fill), e)] = old(e - 1)
      /\ nextBlk \in Nat /\ Distance \subseteq Nat /\ pc = "frame" /\ 0 \in PacketIndex /\ MaxBlocks \in Nat
      /\ \A e \in Distance : e > 0 /\ Back(fill, e) \in Slot /\ Back(fill, e) # fill
      /\ \A s \in Slot, k \in PacketIndex : packets[s][k] \in PacketType
  BY EndsFacts, Ranges, WritesFacts
<1>2. \A e \in Distance : e <= nextBlk + 1 =>
        FrameOf(e)' = IF e = 1 THEN frame ELSE FrameOf(e - 1)
  BY EndsAfter, EndsBlocks
<1>3. d # 1 /\ FrameOf(c) = FrameOf(d)' /\ c \in Distance /\ c <= nextBlk
  BY <1>1, <1>2
<1>4. \A e \in Distance, k \in PacketIndex :
        e # 1 => /\ new(e)[k].data = old(e - 1)[k].data /\ new(e)[k].ec = old(e - 1)[k].ec
                 /\ new(e)[k].frame = old(e - 1)[k].frame
                 /\ old(e - 1)[k].frame # frame => new(e)[k] = old(e - 1)[k]
  BY <1>1, EndsAfter
<1>5. CASE Wrapped(c)
  <2>1. \A e \in c .. MaxBlocks - 1 : FrameOf(e) = FrameOf(c)
    BY <1>5 DEF Wrapped
  <2>2. FrameOf(0)' = FrameOf(d)'
    <3>1. FrameOf(0)' = packets'[After(fill)][0].frame /\ After(fill) \in Slot
      BY <1>1, RingFacts DEF FrameOf
    <3>2. packets'[After(fill)][0].frame = Opened(last)[After(fill)][0].frame
      BY <1>1, <3>1, AddedPackets DEF Alike
    <3>3. Opened(last)[After(fill)][0].frame = FrameOf(MaxBlocks - 1)
      BY <1>1, EndsFacts DEF FrameOf
    <3>4. MaxBlocks - 1 \in c .. MaxBlocks - 1
      BY <1>1, <1>3 DEF Distance
    <3> QED
      BY <1>3, <2>1, <3>1, <3>2, <3>3, <3>4
  <2>3. ASSUME NEW e \in d .. MaxBlocks - 1 PROVE FrameOf(e)' = FrameOf(d)'
    <3>1. e \in Distance /\ e # 1 /\ e - 1 \in c .. MaxBlocks - 1
      BY <1>1, <1>3 DEF Distance
    <3>2. FrameOf(e)' = FrameOf(e - 1)
      BY <1>1, <3>1, EndsAfter DEF FrameOf
    <3> QED
      BY <1>3, <2>1, <3>1, <3>2
  <2> QED
    BY <2>2, <2>3 DEF Wrapped
<1>6. SUFFICES ASSUME BlockLabelled(c) PROVE BlockLabelled(d)'
  BY <1>1, <1>3, <1>5 DEF FInv, Labelled
<1>7. \A k \in PacketIndex : k < SizeOf(c) => old(c)[k].frame # frame
  BY <1>3 DEF FInv, BlocksFramed
<1>8. /\ old(c)[0].data \in 1 .. MaxDataPackets /\ old(c)[0].ec \in 0 .. old(c)[0].data
      /\ \A k \in 0 .. old(c)[0].data + old(c)[0].ec - 1 : k \in PacketIndex
  <2>1. c \in 1 .. MaxBlocks - 1
    BY <1>3 DEF Distance
  <2> HIDE DEF c
  <2> QED
    BY <1>3, <2>1, FinishedBlock
<1>9. /\ old(c)[0].data \in Nat /\ old(c)[0].ec \in Nat /\ old(c)[0].data > 0
      /\ SizeOf(c) = old(c)[0].data + old(c)[0].ec
  BY <1>8, TxBufferAssumption DEF SizeOf
<1> HIDE DEF c, new, old
<1>10. \A k \in 0 .. old(c)[0].data + old(c)[0].ec - 1 : new(d)[k] = old(c)[k]
  <2> SUFFICES ASSUME NEW k \in 0 .. old(c)[0].data + old(c)[0].ec - 1 PROVE new(d)[k] = old(c)[k]
    OBVIOUS
  <2>1. k \in PacketIndex /\ k < SizeOf(c)
    BY <1>8, <1>9
  <2> QED
    BY <1>3, <1>4, <1>7, <2>1 DEF c
<1>11. new(d)[0] = old(c)[0]
  BY <1>9, <1>10
<1>12. /\ \A k \in 0 .. old(c)[0].data + old(c)[0].ec - 1 :
            old(c)[k].info = old(c)[0].info + IF k < old(c)[0].data THEN k ELSE old(c)[0].data - 1
       /\ \A e \in 1 .. c - 1 :
            FrameOf(e) = FrameOf(c) => old(e)[0].info >= old(c)[0].info + old(c)[0].data
       /\ \A e \in Distance, k \in PacketIndex :
            nextBlk < e /\ FrameOf(e) = FrameOf(c) /\ k < old(e)[0].data =>
              old(e)[k].info < old(c)[0].info + old(c)[0].data
       /\ old(c)[0].info >= 0
  BY <1>6 DEF BlockLabelled, old
<1>13. ASSUME NEW e \in 1 .. d - 1, FrameOf(e)' = FrameOf(d)'
       PROVE  new(e)[0].info >= new(d)[0].info + new(d)[0].data
  <2>1. e \in Distance /\ e <= nextBlk + 1 /\ e \in Nat /\ d \in Nat
    BY <1>1, <1>13 DEF Distance
  <2>2. e # 1
    BY <1>2, <1>13, <2>1
  <2>3. FrameOf(e - 1) = FrameOf(c) /\ e - 1 \in 1 .. c - 1
    BY <1>2, <1>3, <1>13, <2>1, <2>2 DEF c
  <2>4. new(e)[0] = old(e - 1)[0]
    <3>1. old(e - 1)[0].frame # frame
      BY <1>3, <2>3 DEF FrameOf, old
    <3> QED
      BY <1>1, <1>4, <2>1, <2>2, <3>1
  <2> QED
    BY <1>11, <1>12, <2>3, <2>4
<1>14. ASSUME NEW e \in Distance, NEW k \in PacketIndex, nextBlk' < e, FrameOf(e)' = FrameOf(d)',
              k < new(e)[0].data
       PROVE  new(e)[k].info < new(d)[0].info + new(d)[0].data
  <2>1. e # 1 /\ e - 1 \in Distance /\ nextBlk < e - 1
    BY <1>1, <1>14
  <2>2. /\ FrameOf(e - 1) = FrameOf(c) /\ FrameOf(e - 1) = old(e - 1)[0].frame
        /\ k < old(e - 1)[0].data
    BY <1>1, <1>3, <1>4, <1>14, <2>1 DEF FrameOf, new, old
  <2>3. old(e - 1)[k].frame = old(e - 1)[0].frame
    BY <1>1, <2>1, <2>2 DEF FInv, BlocksFramed, old
  <2>4. new(e)[k] = old(e - 1)[k]
    BY <1>3, <1>4, <2>1, <2>2, <2>3
  <2> QED
    BY <1>11, <1>12, <2>1, <2>2, <2>4
<1> QED
  BY <1>10, <1>11, <1>12, <1>13, <1>14 DEF BlockLabelled, new

LEMMA LagBack ==
  ASSUME NEW at \in Slot, NEW d \in Distance
  PROVE  LagOf(at, Back(at, d)) = d
BY TxBufferAssumption DEF LagOf, Back, Slot, Distance

\* A row that goes back as far as the frame does in the blk blocks before it.
WholeRow(ring, at, blocks, blk) ==
  /\ FrameRow(ring, at, blocks) /\ blocks <= blk
  /\ \A d \in Distance, k \in PacketIndex :
       d <= blk /\ ~ ring[Back(at, d)][k].empty /\ ring[Back(at, d)][k].frame = frame => d <= blocks

\* The packets of a frame are as many as there are places in its row, and its
\* data packets as many at least as there are data places.
LEMMA RowCounted ==
  ASSUME NEW ring, NEW at, NEW blocks, NEW blk \in Nat, WholeRow(ring, at, blocks, blk)
  PROVE  /\ Cardinality(Live(ring, at, blk, 0, frame)) = Cardinality(Places(blocks, RowSize(ring, at, blocks)))
         /\ Cardinality(DataFrom(blocks, RowSize(ring, at, blocks), RowData(ring, at, blocks), blocks, 0))
              <= Cardinality(FrameData(ring, frame))
<1> DEFINE size == RowSize(ring, at, blocks)
           data == RowData(ring, at, blocks)
           row  == Places(blocks, size)
           f    == [x \in row |-> <<Back(at, x[1]), x[2]>>]
           all  == Live(ring, at, blk, 0, frame)
<1>1. FrameRow(ring, at, blocks)
  BY DEF WholeRow
<1>2. /\ blocks \in Nat /\ size \in Sizes(blocks) /\ data \in DataSizes(blocks, size)
      /\ \A d \in 1 .. blocks :
           /\ Back(at, d) \in Slot
           /\ size[d] = ring[Back(at, d)][0].data + ring[Back(at, d)][0].ec
           /\ \A e \in 1 .. blocks : Back(at, e) = Back(at, d) => e = d
           /\ \A k \in 0 .. size[d] - 1 :
                /\ k \in PacketIndex /\ ring[Back(at, d)][k].frame = frame /\ ~ ring[Back(at, d)][k].empty
                /\ IsData(ring[Back(at, d)][k]) <=> k < data[d]
  BY <1>1, RowFacts
<1>3. /\ at \in Slot /\ blocks \in Distance /\ blocks <= blk /\ MaxBlocks \in Nat /\ PacketIndex \subseteq Nat
      /\ \A d \in 1 .. blocks : d \in Distance /\ d <= blk /\ d > 0
  BY <1>1, TxBufferAssumption DEF WholeRow, FrameRow, Distance, PacketIndex
<1>4. /\ \A d \in 1 .. blocks, k \in PacketIndex : ~ (k < size[d]) => ring[Back(at, d)][k].empty
      /\ \A d \in Distance, k \in PacketIndex :
           d <= blk /\ ~ ring[Back(at, d)][k].empty /\ ring[Back(at, d)][k].frame = frame => d <= blocks
  BY <1>1, <1>2 DEF WholeRow, FrameRow
<1> HIDE DEF size, data
<1>5. \A x \in row : /\ x = <<x[1], x[2]>> /\ x[1] \in 1 .. blocks /\ x[2] \in 0 .. size[x[1]] - 1
  BY <1>2, Pairs
<1>6. \A d \in 1 .. blocks : \A k \in 0 .. size[d] - 1 : <<d, k>> \in row
  BY <1>2, PlaceFacts
<1>7. IsFiniteSet(row)
  BY <1>2, PlaceFacts
<1> HIDE DEF row
<1>8. \A x \in row : f[x] = <<Back(at, x[1]), x[2]>>
  OBVIOUS
<1>9. \A x \in row : f[x] \in all
  <2> SUFFICES ASSUME NEW x \in row PROVE f[x] \in all
    OBVIOUS
  <2>1. x[1] \in Distance /\ x[1] <= blk /\ x[1] # 0 /\ LagOf(at, Back(at, x[1])) = x[1]
    BY <1>3, <1>5, LagBack
  <2>2. /\ Back(at, x[1]) \in Slot /\ x[2] \in PacketIndex
        /\ ring[Back(at, x[1])][x[2]].frame = frame /\ ~ ring[Back(at, x[1])][x[2]].empty
    BY <1>2, <1>5
  <2> QED
    BY <1>8, <2>1, <2>2 DEF Live
<1>10. \A x, y \in row : f[x] = f[y] => x = y
  <2> SUFFICES ASSUME NEW x \in row, NEW y \in row, f[x] = f[y] PROVE x = y
    OBVIOUS
  <2>1. Back(at, x[1]) = Back(at, y[1]) /\ x[2] = y[2]
    BY <1>8
  <2> QED
    BY <1>2, <1>5, <2>1
<1>11. \A y \in all : \E x \in row : f[x] = y
  <2> SUFFICES ASSUME NEW y \in all PROVE \E x \in row : f[x] = y
    OBVIOUS
  <2>1. PICK s \in Slot, k \in PacketIndex : y = <<s, k>>
    BY DEF Live
  <2>2. /\ ~ ring[s][k].empty /\ ring[s][k].frame = frame
        /\ LagOf(at, s) <= blk /\ (LagOf(at, s) = 0 => k < 0)
    BY <2>1 DEF Live
  <2>3. s # at
    BY <1>3, <2>2, LagFacts
  <2>4. PICK d \in Distance : s = Back(at, d)
    BY <1>3, <2>3, Distances
  <2>5. d <= blocks
    BY <1>3, <1>4, <2>2, <2>4, LagBack
  <2>6. d \in 1 .. blocks
    BY <1>3, <2>5 DEF Distance
  <2>7. k < size[d] /\ k \in Nat /\ size[d] \in Nat
    BY <1>2, <1>3, <1>4, <2>2, <2>4, <2>6, PlaceFacts
  <2>8. <<d, k>> \in row
    BY <1>6, <2>6, <2>7
  <2> QED
    BY <1>8, <2>1, <2>4, <2>8
<1>12. f \in [row -> all]
  BY <1>9
<1>13. Cardinality(all) = Cardinality(row)
  <2> HIDE DEF f, all
  <2>1. ExistsBijection(row, all)
    BY <1>10, <1>11, <1>12 DEF ExistsBijection, Bijection, Injection, Surjection, IsInjective
  <2> QED
    BY <1>7, <2>1, FS_Bijection
<1> DEFINE dataRow == DataFrom(blocks, size, data, blocks, 0)
           dataAll == FrameData(ring, frame)
           g       == [x \in dataRow |-> f[x]]
<1>14. dataRow \subseteq row /\ \A x \in dataRow : x[2] < data[x[1]]
  BY <1>2, DataFromFacts DEF row, DataFrom, DataOf
<1>15. \A x \in dataRow : f[x] \in dataAll
  <2> SUFFICES ASSUME NEW x \in dataRow PROVE f[x] \in dataAll
    OBVIOUS
  <2>1. x \in row /\ x[2] < data[x[1]]
    BY <1>14
  <2>2. /\ Back(at, x[1]) \in Slot /\ x[2] \in PacketIndex
        /\ ring[Back(at, x[1])][x[2]].frame = frame /\ IsData(ring[Back(at, x[1])][x[2]])
    BY <1>2, <1>5, <2>1
  <2> QED
    BY <1>8, <2>1, <2>2 DEF FrameData
<1>16. IsFiniteSet(dataAll)
  BY Finite DEF FrameData
<1>17. Cardinality(dataRow) <= Cardinality(dataAll)
  <2> HIDE DEF f, dataRow, dataAll
  <2>1. g \in Injection(dataRow, dataAll)
    BY <1>10, <1>14, <1>15 DEF Injection, IsInjective
  <2> HIDE DEF g
  <2> QED
    BY <1>16, <2>1, FS_Injection
<1> QED
  BY <1>13, <1>17 DEF row, size, data

\* The blocks of a frame that is all there are a row before the slot opened.
LEMMA EndsRow ==
  ASSUME IInv, FInv, AddPacket, NEW last, Writes(last), Done(last), ~ Full(last)
  PROVE  \E blocks \in Distance :
           /\ WholeRow(Opened(last), After(fill), blocks, nextBlk + 1)
           /\ \A d \in Distance : d <= nextBlk + 1 /\ FrameOf(d)' = frame => d <= blocks
<1> DEFINE ring == Opened(last)
           at   == After(fill)
           T    == {d \in Distance : d <= nextBlk + 1 /\ FrameOf(d)' = frame}
<1>1. /\ at \in Slot /\ fill' = at /\ nextBlk' = nextBlk + 1 /\ 1 \in Distance /\ ring \in Ring
      /\ nextBlk \in Nat /\ Distance \subseteq Nat /\ Distance \subseteq 0 .. MaxBlocks - 1 /\ MaxBlocks - 1 \in Nat
      /\ frame \in Nat /\ frame' = frame /\ 0 \in PacketIndex /\ PacketIndex \subseteq Nat
      /\ \A d \in Distance : d > 0 /\ Back(at, d) \in Slot
      /\ \A k \in PacketIndex : ring[at][k].empty
  BY EndsFacts, Ranges, AddedPackets, TxBufferAssumption
<1>2. ASSUME NEW d \in Distance, d <= nextBlk + 1
      PROVE  LET slot == ring[Back(at, d)]
             IN  /\ slot[0].data \in 1 .. MaxDataPackets /\ slot[0].ec \in 0 .. slot[0].data
                 /\ \A k \in PacketIndex :
                      IF k < slot[0].data + slot[0].ec
                        THEN /\ ~ slot[k].empty /\ slot[k].frame = slot[0].frame
                             /\ slot[k].idx = k /\ slot[k].data = slot[0].data
                        ELSE slot[k].empty
                 /\ d = 1 => slot[0].frame = frame
                 /\ FrameOf(d)' = slot[0].frame
  BY <1>2, EndsBlocks, EndsAfter
<1> HIDE DEF ring, at
<1>3. 1 \in T
  BY <1>1, <1>2
<1>4. T \subseteq 0 .. MaxBlocks - 1 /\ T # {}
  BY <1>1, <1>3
<1>5. PICK blocks \in T : \A d \in T : d <= blocks
  <2> HIDE DEF T
  <2> QED
    BY <1>1, <1>4, Greatest
<1>6. blocks \in Distance /\ blocks <= nextBlk + 1 /\ FrameOf(blocks)' = frame
  OBVIOUS
<1>7. ASSUME NEW d \in 1 .. blocks
      PROVE  d \in Distance /\ d <= nextBlk + 1 /\ ring[Back(at, d)][0].frame = frame
  <2>1. d \in Distance /\ d <= nextBlk + 1 /\ d <= blocks
    BY <1>1, <1>6 DEF Distance
  <2>2. FrameOf(blocks)' <= FrameOf(d)'
    BY <1>1, <1>6, <2>1, EndsInOrder DEF FramesInOrder
  <2>3. FrameOf(d)' = ring[Back(at, d)][0].frame
    BY <1>2, <2>1
  <2>4. packets'[Back(fill', d)][0].frame <= frame'
    BY <1>1, <2>1, AddedPackets DEF FramesPast
  <2>5. FrameOf(d)' \in Nat /\ FrameOf(d)' <= frame
    BY <1>1, <2>1, <2>4, AddedPackets DEF FrameOf, Ring, PacketType
  <2> QED
    BY <1>1, <1>6, <2>1, <2>2, <2>3, <2>5
<1>8. ASSUME NEW d \in Distance, NEW k \in PacketIndex, d <= nextBlk + 1,
             ~ ring[Back(at, d)][k].empty, ring[Back(at, d)][k].frame = frame
      PROVE  d <= blocks
  <2>1. ring[Back(at, d)][0].frame = frame
    BY <1>2, <1>8
  <2>2. d \in T
    BY <1>2, <1>8, <2>1
  <2> QED
    BY <1>5, <2>2
<1>9. FrameRow(ring, at, blocks)
  <2>1. blocks \in 1 .. MaxBlocks - 1
    BY <1>6 DEF Distance
  <2>2. \A d \in 1 .. blocks :
          LET slot == ring[Back(at, d)]
          IN  /\ slot[0].data \in 1 .. MaxDataPackets /\ slot[0].ec \in 0 .. slot[0].data
              /\ \A k \in PacketIndex :
                   IF k < slot[0].data + slot[0].ec
                     THEN /\ ~ slot[k].empty /\ slot[k].frame = frame
                          /\ slot[k].idx = k /\ slot[k].data = slot[0].data
                     ELSE slot[k].empty
    BY <1>2, <1>7
  <2> QED
    BY <1>1, <2>1, <2>2 DEF FrameRow
<1> QED
  BY <1>5, <1>6, <1>8, <1>9 DEF ring, at, WholeRow

\* The frame that ends has its places, unless it goes all around the ring.
LEMMA EndsNewest ==
  ASSUME IInv, FInv, AddPacket, NEW last, Writes(last), Done(last), ~ Full(last),
         frameLeft = 1, NEW d \in Distance, d <= nextBlk', FrameOf(d)' = frame
  PROVE  BlockLabelled(d)' \/ Wrapped(d)'
<1> DEFINE ring    == Opened(last)
           at      == After(fill)
           slot(e) == packets'[Back(fill', e)]
           data(e) == ring[Back(at, e)][0].data
           ec(e)   == ring[Back(at, e)][0].ec
<1>1. /\ fill' = at /\ nextPkt' = 0 /\ nextBlk' = nextBlk + 1 /\ frameSize \in Nat /\ at \in Slot
      /\ Distance \subseteq Nat /\ 0 \in PacketIndex /\ nextBlk \in Nat /\ MaxBlocks \in Nat
      /\ Count(last) \in Nat /\ packets' \in Ring /\ Back(at, 0) = at
      /\ \A e \in Distance : e > 0 /\ Back(at, e) \in Slot
      /\ \A e : e \in Distance <=> e \in 1 .. MaxBlocks - 1
  <2>1. at \in Slot /\ fill' = at /\ nextPkt' = 0 /\ nextBlk' = nextBlk + 1
    BY EndsFacts
  <2>2. Count(last) \in Nat /\ packets' \in Ring
    BY AddedPackets
  <2>3. \A e \in Distance : e > 0 /\ Back(at, e) \in Slot
    BY EndsFacts, Ranges
  <2> QED
    BY <2>1, <2>2, <2>3, Ranges, RingFacts DEF Distance
<1>2. packets' = Placed(ring, [slot |-> at, pkt |-> 0], Count(last))
  BY <1>1 DEF Writes, AddsUpTo
<1>3. PICK blocks \in Distance :
        /\ WholeRow(ring, at, blocks, nextBlk + 1)
        /\ \A e \in Distance : e <= nextBlk + 1 /\ FrameOf(e)' = frame => e <= blocks
  BY EndsRow
<1>4. FrameRow(ring, at, blocks) /\ blocks <= nextBlk + 1
  BY <1>3 DEF WholeRow
<1>5. /\ d \in 1 .. blocks /\ blocks \in 1 .. MaxBlocks - 1
      /\ \A e \in 1 .. d - 1 : e \in Distance
  BY <1>1, <1>3 DEF Distance
<1>6. \A e \in Distance : /\ slot(e)[0].data = data(e) /\ slot(e)[0].ec = ec(e)
                          /\ FrameOf(e)' = ring[Back(at, e)][0].frame
  BY <1>1, EndsAfter
<1>7. CASE RestOfRing(ring, at, blocks)
  <2>1. ASSUME NEW e \in d .. MaxBlocks - 1 PROVE FrameOf(e)' = frame
    <3>1. e \in Distance
      BY <1>1, <1>5
    <3>2. CASE e <= blocks
      <4>1. e \in 1 .. blocks /\ 0 \in 0 .. RowSize(ring, at, blocks)[e] - 1
        BY <1>1, <1>4, <1>5, <3>1, <3>2, RowFacts, PlaceFacts
      <4>2. ring[Back(at, e)][0].frame = frame
        BY <1>4, <4>1, RowFacts
      <4> QED
        BY <1>6, <3>1, <4>2
    <3>3. CASE ~ (e <= blocks)
      <4>1. e \in blocks + 1 .. MaxBlocks
        BY <1>1, <1>5, <3>1, <3>3
      <4> QED
        BY <1>6, <1>7, <3>1, <4>1 DEF RestOfRing
    <3> QED
      BY <3>2, <3>3
  <2>2. FrameOf(0)' = frame
    <3>1. Back(at, MaxBlocks) = at
      BY <1>1, TxBufferAssumption DEF Back, Slot
    <3>2. MaxBlocks \in blocks + 1 .. MaxBlocks
      BY <1>1, <1>5
    <3>3. ring[at][0].frame = frame
      BY <1>7, <3>1, <3>2 DEF RestOfRing
    <3>4. packets'[at][0].frame = ring[at][0].frame
      BY <1>1, AddedPackets DEF Alike
    <3> QED
      BY <1>1, <3>3, <3>4 DEF FrameOf
  <2> QED
    BY <2>1, <2>2 DEF Wrapped
<1>8. CASE ~ RestOfRing(ring, at, blocks)
  <2>1. LET live == Cardinality(Live(ring, at, nextBlk + 1, 0, frame))
        IN  live \in Nat /\ live <= Count(last) /\ (live = Count(last) \/ AllWritten(ring))
    BY <1>1, LiveCounted
  <2>2. nextBlk + 1 \in Nat
    BY <1>1
  <2>3. /\ Cardinality(Live(ring, at, nextBlk + 1, 0, frame)) =
             Cardinality(Places(blocks, RowSize(ring, at, blocks)))
        /\ Cardinality(DataFrom(blocks, RowSize(ring, at, blocks), RowData(ring, at, blocks), blocks, 0))
             <= Cardinality(FrameData(ring, frame))
    BY <1>3, <2>2, RowCounted
  <2>4. /\ Cardinality(FrameData(ring, frame)) \in Nat
        /\ Cardinality(FrameData(ring, frame)) <= frameSize
        /\ \A s \in Slot, k \in PacketIndex : ring[s][k].frame = frame => ring[s][k].info = 0
    BY <1>1, OpenedOfFrame
  <2>5. /\ blocks \in Nat /\ RowSize(ring, at, blocks) \in Sizes(blocks)
        /\ RowData(ring, at, blocks) \in DataSizes(blocks, RowSize(ring, at, blocks))
        /\ data(d) \in Nat /\ ec(d) \in Nat /\ data(d) \in 1 .. MaxDataPackets
    BY <1>4, <1>5, RowFacts DEF FrameRow
  <2>6. Cardinality(DataFrom(blocks, RowSize(ring, at, blocks), RowData(ring, at, blocks), blocks, 0)) \in Nat
    BY <2>5, DataFromFacts
  <2>7. Cardinality(DataFrom(blocks, RowSize(ring, at, blocks), RowData(ring, at, blocks), blocks, 0))
          <= frameSize
    BY <1>1, <2>3, <2>4, <2>6
  <2>8. Cardinality(Places(blocks, RowSize(ring, at, blocks))) <= Count(last)
    BY <2>1, <2>3
  <2>9. Cardinality(Places(blocks, RowSize(ring, at, blocks))) < Count(last) =>
          \A s \in Slot : ring[s][0].data > 0
    BY <1>1, <2>1, <2>3 DEF AllWritten
  <2>10. /\ \A k \in 0 .. data(d) + ec(d) - 1 :
              packets'[Back(at, d)][k].info =
                packets'[Back(at, d)][0].info + IF k < data(d) THEN k ELSE data(d) - 1
         /\ \A e \in 1 .. d - 1 :
              packets'[Back(at, e)][0].info >= packets'[Back(at, d)][0].info + data(d)
         /\ packets'[Back(at, d)][0].info >= 0
         /\ \A e \in blocks + 1 .. MaxBlocks - 1, k \in PacketIndex :
              \/ packets'[Back(at, e)][k].info = ring[Back(at, e)][k].info
              \/ packets'[Back(at, e)][k].info < packets'[Back(at, d)][0].info
    <3> DEFINE placed == Placed(ring, [slot |-> at, pkt |-> 0], Count(last))
    <3>1. frameSize \in Nat /\ Count(last) \in Nat
      BY <1>1
    <3>2. \A c \in 1 .. blocks :
            /\ \A k \in 0 .. data(c) + ec(c) - 1 :
                 placed[Back(at, c)][k].info =
                   placed[Back(at, c)][0].info + IF k < data(c) THEN k ELSE data(c) - 1
            /\ \A e \in 1 .. c - 1 :
                 placed[Back(at, e)][0].info >= placed[Back(at, c)][0].info + data(c)
            /\ placed[Back(at, c)][0].info >= 0
            /\ \A e \in blocks + 1 .. MaxBlocks - 1, k \in PacketIndex :
                 \/ placed[Back(at, e)][k].info = ring[Back(at, e)][k].info
                 \/ placed[Back(at, e)][k].info < placed[Back(at, c)][0].info
      <4> HIDE DEF ring, at
      <4> QED
        BY <1>4, <1>8, <2>7, <2>8, <2>9, <3>1, PlacedLabels
    <3>3. placed = packets'
      BY <1>2
    <3> HIDE DEF placed, ring, at
    <3> QED
      BY <1>5, <3>2, <3>3
  <2>11. ASSUME NEW e \in Distance, NEW k \in PacketIndex, nextBlk' < e, FrameOf(e)' = FrameOf(d)',
                k < slot(e)[0].data
         PROVE  slot(e)[k].info < slot(d)[0].info + slot(d)[0].data
    <3>1. e \in blocks + 1 .. MaxBlocks - 1 /\ Back(at, e) \in Slot
      BY <1>1, <1>4, <1>5, <2>11
    <3>2. slot(e)[k].frame = frame
      <4>1. slot(e)[k].frame = slot(e)[0].frame
        BY <1>1, <2>11, <3>1, AddedFramed
      <4> QED
        BY <2>11, <4>1 DEF FrameOf
    <3>3. ring[Back(at, e)][k].frame = frame
      BY <1>1, <3>1, <3>2, AddedPackets DEF Alike
    <3>4. ring[Back(at, e)][k].info = 0
      BY <2>4, <3>1, <3>3
    <3>5. packets'[Back(at, e)][k].info \in Int /\ packets'[Back(at, d)][0].info \in Int
      BY <1>1, <3>1 DEF Ring, PacketType
    <3>6. packets'[Back(at, e)][k].info < packets'[Back(at, d)][0].info + data(d)
      <4> HIDE DEF data
      <4> QED
        BY <2>5, <2>10, <3>1, <3>4, <3>5
    <3> QED
      BY <1>1, <1>6, <3>6
  <2>12. /\ slot(d)[0].info >= 0
         /\ \A k \in 0 .. slot(d)[0].data + slot(d)[0].ec - 1 :
              slot(d)[k].info = slot(d)[0].info + IF k < slot(d)[0].data THEN k ELSE slot(d)[0].data - 1
         /\ \A e \in 1 .. d - 1 : slot(e)[0].info >= slot(d)[0].info + slot(d)[0].data
    BY <1>1, <1>5, <1>6, <2>10
  <2> QED
    BY <2>11, <2>12 DEF BlockLabelled
<1> QED
  BY <1>7, <1>8

\* A block that is full.
LEMMA EndsFrames ==
  ASSUME IInv, FInv, AddPacket, NEW last, Writes(last), Done(last), ~ Full(last)
  PROVE  FInv'
<1>1. AddsUpTo(last) /\ frame' = frame /\ nextPkt' = 0
  BY EndsFacts DEF Writes
<1>2. BlocksFramed' /\ FramesInOrder' /\ FramesPast'
  BY EndsInOrder, AddedPackets
<1>3. Labelled'
  <2> SUFFICES ASSUME NEW d \in Distance, d <= nextBlk', pc' = "frame" => FrameOf(d)' # frame'
               PROVE  BlockLabelled(d)' \/ Wrapped(d)'
    BY DEF Labelled
  <2>1. CASE FrameOf(d)' # frame
    BY <2>1, EndsOlder
  <2>2. CASE FrameOf(d)' = frame
    <3>1. frameLeft = 1
      BY <1>1, <2>2 DEF AddsUpTo
    <3> QED
      BY <2>2, <3>1, EndsNewest
  <2> QED
    BY <2>1, <2>2
<1>4. pc' = "frame" => FrameFilling'
  BY <1>1, AddedFilling
<1> QED
  BY <1>2, <1>3, <1>4 DEF FInv

\* A frame that starts has no packets yet.
LEMMA StartFrameFrames == ASSUME IInv, FInv, NEW n \in FrameSizes, StartFrame(n) PROVE FInv'
<1>1. /\ pc = "idle" /\ pc' = "frame" /\ frame' = frame + 1 /\ added' = 0 /\ nextPkt = 0
      /\ frameSize' = n /\ frameLeft' = n /\ n \in Nat
      /\ UNCHANGED <<packets, nextBlk, nextPkt, fill>>
  BY TxBufferAssumption DEF StartFrame, IInv, FrameEndsBlock
<1>2. /\ frame \in Nat /\ Distance \subseteq Nat /\ fill \in Slot
      /\ \A d \in Distance : Back(fill, d) \in Slot
      /\ \A s \in Slot, k \in PacketIndex : packets[s][k].frame \in Nat /\ packets[s][k].frame <= frame
      /\ 0 \in PacketIndex
  BY Ranges DEF FInv, FramesPast, PacketType
<1>3. \A s \in Slot, k \in PacketIndex : packets[s][k].frame # frame' /\ packets[s][k].frame <= frame'
  BY <1>1, <1>2
<1>4. FramesPast' /\ BlocksFramed' /\ FramesInOrder'
  BY <1>1, <1>2, <1>3 DEF FInv, FramesPast, BlocksFramed, FramesInOrder, FrameOf, SizeOf
<1>5. \A d \in Distance : (BlockLabelled(d)' <=> BlockLabelled(d)) /\ (Wrapped(d)' <=> Wrapped(d))
  BY <1>1 DEF BlockLabelled, Wrapped, FrameOf
<1>6. Labelled'
  BY <1>1, <1>5 DEF FInv, Labelled, FrameOf
<1>7. Live(packets, fill, nextBlk, nextPkt, frame)' = {} /\ FrameData(packets, frame)' = {}
  BY <1>1, <1>3 DEF Live, FrameData
<1>8. /\ Cardinality(Live(packets, fill, nextBlk, nextPkt, frame)') = 0
      /\ Cardinality(FrameData(packets, frame)') = 0
  BY <1>7, FS_EmptySet, Zenon
<1>9. FrameFilling'
  BY <1>1, <1>2, <1>3, <1>8 DEF FrameFilling
<1> QED
  BY <1>4, <1>6, <1>9 DEF FInv

\* Steps that leave the packets alone.
LEMMA FramesKept ==
  ASSUME IInv, FInv, pc # "frame", pc' # "frame",
         UNCHANGED <<packets, fill, nextBlk, nextPkt, frame>>
  PROVE  FInv'
<1>1. FramesPast' /\ BlocksFramed' /\ FramesInOrder'
  BY DEF FInv, FramesPast, BlocksFramed, FramesInOrder, FrameOf, SizeOf
<1>2. \A d \in Distance : (BlockLabelled(d)' <=> BlockLabelled(d)) /\ (Wrapped(d)' <=> Wrapped(d))
  BY DEF BlockLabelled, Wrapped, FrameOf
<1>3. Labelled'
  BY <1>2 DEF FInv, Labelled, FrameOf
<1> QED
  BY <1>1, <1>3 DEF FInv

LEMMA InitFrames == Init => FInv
<1> SUFFICES ASSUME Init PROVE FInv
  OBVIOUS
<1>1. /\ nextBlk = 0 /\ frame = 0 /\ pc = "idle"
      /\ \A s \in Slot, k \in PacketIndex : packets[s][k].frame = 0
      /\ \A d \in Distance : ~ (d <= 0)
  BY TxBufferAssumption DEF Init, NoPacket, Distance
<1>2. FramesPast
  BY <1>1 DEF FramesPast
<1>3. \A s \in Slot, k \in PacketIndex : packets[s][k].frame = packets[s][0].frame
  <2>1. \A k \in PacketIndex : 0 \in PacketIndex
    BY TxBufferAssumption DEF PacketIndex
  <2> QED
    BY <1>1, <2>1
<1>4. BlocksFramed /\ FramesInOrder /\ Labelled
  BY <1>1, <1>3 DEF BlocksFramed, FramesInOrder, Labelled
<1> QED
  BY <1>1, <1>2, <1>4 DEF FInv

LEMMA NextFrames == IInv /\ FInv /\ [Next]_vars => FInv'
<1> SUFFICES ASSUME IInv, FInv, [Next]_vars PROVE FInv'
  OBVIOUS
<1>1. CASE \E n \in FrameSizes : StartFrame(n)
  BY <1>1, StartFrameFrames
<1>2. CASE AddPacket
  <2>1. PICK last : Writes(last)
    BY <1>2, AddPacketCases DEF Writes
  <2> QED
    BY <1>2, <2>1, FullFrames, GoesOnFrames, EndsFrames
<1>3. CASE DiscardBuffer
  <2>1. /\ nextBlk' = 0 /\ nextPkt' = 0 /\ pc = "idle" /\ UNCHANGED <<pc, packets, frame>>
        /\ \A d \in Distance : ~ (d <= 0)
    BY <1>3, TxBufferAssumption DEF DiscardBuffer, Discard, frameVars, Distance
  <2>2. nextPkt = 0
    BY <2>1 DEF IInv, FrameEndsBlock
  <2>3. \A s \in Slot, k \in PacketIndex :
          k < packets'[s][0].data => packets'[s][k].frame = packets'[s][0].frame
    BY <2>1, <2>2 DEF FInv, BlocksFramed
  <2>4. BlocksFramed' /\ FramesInOrder' /\ Labelled'
    BY <2>1, <2>3 DEF BlocksFramed, FramesInOrder, Labelled
  <2> QED
    BY <2>1, <2>4 DEF FInv, FramesPast
<1>4. CASE \/ StartSend \/ SendPacket \/ SendDone
           \/ \E id \in RetrIds, blk \in 0 .. MaxBlockNumber + MaxBlocks,
                 idx \in PacketIndex \cup {WholeBlock} : RetransmissionRequest(id, blk, idx)
           \/ \E id \in RetrIds, f \in 1 .. MaxFrames, n \in UNION {1 .. size - 1 : size \in FrameSizes} :
                RestRequest(id, f, n)
           \/ \E s \in Schemes : ChangeScheme(s)
  <2>1. pc # "frame" /\ pc' # "frame" /\ UNCHANGED <<packets, fill, nextBlk, nextPkt, frame>>
    BY <1>4 DEF StartSend, SendPacket, SendDone, RetransmissionRequest, RestRequest, ChangeScheme, frameVars
  <2> QED
    BY <2>1, FramesKept
<1>5. CASE UNCHANGED vars
  <2>1. UNCHANGED <<pc, packets, fill, nextPkt, nextBlk, frame, frameSize, frameLeft, added>>
    BY <1>5 DEF vars, frameVars
  <2>2. \A d \in Distance : (BlockLabelled(d)' <=> BlockLabelled(d)) /\ (Wrapped(d)' <=> Wrapped(d))
    BY <2>1 DEF BlockLabelled, Wrapped, FrameOf
  <2>3. FramesPast' /\ BlocksFramed' /\ FramesInOrder' /\ Labelled'
    BY <2>1, <2>2 DEF FInv, FramesPast, BlocksFramed, FramesInOrder, Labelled, FrameOf, SizeOf
  <2>4. FrameFilling' <=> FrameFilling
    BY <2>1 DEF FrameFilling, Live, FrameData, AllWritten
  <2> QED
    BY <2>1, <2>3, <2>4 DEF FInv
<1> QED
  BY <1>1, <1>2, <1>3, <1>4, <1>5 DEF Next

THEOREM FrameInvariant == Spec => []FInv
BY InitFrames, NextFrames, Invariant, PTL DEF Spec

-----------------------------------------------------------------------------
(***************************************************************************)
(* The theorems.                                                           *)
(***************************************************************************)
\* Positions stay in the ring and in its slots, whatever the frames, schemes
\* and requests.
THEOREM TypeCorrect == Spec => []TypeOK
BY Invariant, PTL DEF IInv

\* A packet is found where its block number says, at any time.
THEOREM NumberingCorrect == Spec => []SlotsNumbered
BY Invariant, PTL DEF IInv

\* Every finished block of the ring has all its packets, of one scheme.
THEOREM WholeCorrect == Spec => []BlocksWhole
BY Invariant, PTL DEF IInv

\* No packet of a frame waits for the next frame to fill its block.
THEOREM FrameEndCorrect == Spec => []FrameEndsBlock
BY Invariant, PTL DEF IInv

\* All packets of the last finished blocks can be had again, one by one or as
\* a whole block.
THEOREM AvailableCorrect == Spec => []RecentBlocksAvailable
<1>1. ASSUME IInv PROVE RecentBlocksAvailable
  <2> SUFFICES ASSUME NEW d \in 1 .. MaxBlocks - 1, d <= nextBlk,
                      NEW k \in 0 .. packets[Back(fill, d)][0].data - 1
               PROVE  /\ \E p \in Resent(nextBlk - d, k) : p.idx = k
                      /\ \E p \in Resent(nextBlk - d, WholeBlock) : p.idx = k
    BY DEF RecentBlocksAvailable
  <2> DEFINE slot == packets[Back(fill, d)]
  <2>1. /\ slot[0].data \in 1 .. MaxDataPackets /\ slot[0].ec \in 0 .. slot[0].data
        /\ \A j \in 0 .. slot[0].data + slot[0].ec - 1 :
             /\ j \in PacketIndex
             /\ ~ slot[j].empty /\ slot[j].blk = nextBlk - d /\ slot[j].idx = j
    BY <1>1, FinishedBlock
  <2>2. nextBlk \in Nat /\ nextPkt \in Nat
    BY <1>1 DEF IInv, TypeOK, PacketIndex
  <2>3. /\ InBuffer(nextBlk - d) /\ nextBlk - (nextBlk - d) = d
        /\ nextBlk - d # nextBlk
    BY <2>2, TxBufferAssumption DEF InBuffer
  <2> HIDE DEF slot
  <2>4. /\ k \in Nat /\ k < slot[0].data
        /\ \A j \in 0 .. k : j \in 0 .. slot[0].data + slot[0].ec - 1
    BY <2>1, TxBufferAssumption DEF slot
  <2>5. k \in PacketIndex /\ slot[k].idx = k /\ slot[k].blk = nextBlk - d /\ ~ slot[k].empty
    <3>1. k \in 0 .. k
      BY <2>4
    <3> QED
      BY <2>1, <2>4, <3>1
  <2>6. \A j \in 0 .. k : ~ slot[j].empty
    BY <2>1, <2>4
  <2>7. slot[k] \in Resent(nextBlk - d, WholeBlock)
    BY <2>3, <2>4, <2>5, <2>6 DEF Resent, slot
  <2>8. k # WholeBlock => slot[k] \in Resent(nextBlk - d, k)
    BY <2>3, <2>5 DEF Resent, slot
  <2> QED
    BY <2>5, <2>7, <2>8
<1> QED
  BY <1>1, Invariant, PTL

\* The send loop sends every packet of every block once and in order, and
\* finds none empty.
THEOREM OrderCorrect == Spec => OriginalsInOrder
<1>1. ASSUME IInv, SendPacket
      PROVE  /\ sent' # {}
             /\ \A p \in sent' :
                  IF ~ lastSent.known THEN p.blk = 0 /\ p.idx = 0
                  ELSE IF lastSent.last THEN p.blk = lastSent.blk + 1 /\ p.idx = 0
                  ELSE p.blk = lastSent.blk /\ p.idx = lastSent.idx + 1
  <2>1. /\ pc = "send" /\ HasPending
        /\ sent' = IF packets[send][sendPkt].empty THEN {} ELSE {packets[send][sendPkt]}
    BY <1>1 DEF SendPacket
  <2>2. /\ ~ packets[send][sendPkt].empty
        /\ packets[send][sendPkt].blk = nextBlk - Lag /\ packets[send][sendPkt].idx = sendPkt
    BY <1>1, <2>1, SendFacts
  <2>3. sent' = {packets[send][sendPkt]}
    BY <2>1, <2>2
  <2> QED
    BY <1>1, <2>2, <2>3 DEF IInv, SendRight
<1> QED
  BY <1>1, Invariant, PTL DEF OriginalsInOrder

\* A retransmission never brings a packet that was not asked for, although
\* the headers of a whole block are not looked at.
THEOREM ResendCorrect == Spec => ResendsWhatIsAsked
<1>1. ASSUME IInv, NEW id \in RetrIds, NEW blk \in 0 .. MaxBlockNumber + MaxBlocks,
             NEW idx \in PacketIndex \cup {WholeBlock}, RetransmissionRequest(id, blk, idx),
             NEW p \in sent'
      PROVE  p.blk = blk /\ (idx = WholeBlock \/ p.idx = idx)
  <2>1. p \in Resent(blk, idx) /\ (idx = WholeBlock => blk > 0)
    BY <1>1 DEF RetransmissionRequest
  <2>2. nextBlk \in Nat /\ nextPkt \in Nat /\ blk \in Nat
    BY <1>1, TxBufferAssumption DEF IInv, TypeOK, PacketIndex
  <2>3. InBuffer(blk)
    BY <2>1 DEF Resent
  <2>4. CASE idx # WholeBlock
    BY <2>1, <2>3, <2>4 DEF Resent
  <2>5. CASE idx = WholeBlock
    <3>1. PICK k \in PacketIndex : /\ p = packets[Back(fill, nextBlk - blk)][k]
                                   /\ \A j \in 0 .. k : ~ packets[Back(fill, nextBlk - blk)][j].empty
      BY <2>1, <2>3, <2>5 DEF Resent
    <3>2. k \in 0 .. k
      BY DEF PacketIndex
    <3>3. nextBlk - blk \in 0 .. MaxBlocks - 1 /\ nextBlk - blk <= nextBlk /\ nextBlk + nextPkt > 0
      BY <2>1, <2>2, <2>3, <2>5, TxBufferAssumption DEF InBuffer
    <3>4. p.blk = nextBlk - (nextBlk - blk)
      BY <1>1, <3>1, <3>2, <3>3 DEF IInv, SlotsNumbered
    <3> QED
      BY <2>2, <2>5, <3>4
  <2> QED
    BY <2>4, <2>5
<1>2. ASSUME IInv
      PROVE  \A id \in RetrIds, blk \in 0 .. MaxBlockNumber + MaxBlocks,
                idx \in PacketIndex \cup {WholeBlock} :
               RetransmissionRequest(id, blk, idx) =>
                 \A p \in sent' : p.blk = blk /\ (idx = WholeBlock \/ p.idx = idx)
  BY <1>1, <1>2
<1> QED
  BY <1>2, Invariant, PTL DEF ResendsWhatIsAsked

\* Asked for the rest of a frame, the vehicle sends the data packets of the
\* blocks of the frame behind the one the place lies in, all of them and no
\* others, as long as the slot of the frame's first block is not opened anew;
\* that a full ring was discarded in the middle of the frame changes nothing.
THEOREM FrameRestCorrect == Spec => []FrameRestAvailable
BY Invariant, FrameInvariant, RestRight, PTL
=============================================================================
