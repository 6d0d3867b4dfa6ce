---------------------- MODULE ProcessorRxVideoCounters ----------------------
(***************************************************************************)
(* Proofs about the counters of the receive buffer's blocks, for streams   *)
(* every block of which has one scheme, its own: they agree with the       *)
(* packets held, so that a block counted complete has every packet to      *)
(* output.                                                                 *)
(***************************************************************************)
EXTENDS ProcessorRxVideoProofs

\* All packets of a block tell the same scheme and packet size, as long as the
\* vehicle does not start the block numbers again: it cuts or stretches the
\* last block of a frame before it sends any of it.  Blocks may differ.
OneSchemePerBlock == \A blk \in Blocks : \A s, t \in SchemesOf[blk] : s = t

Schemes == UNION {SchemesOf[blk] : blk \in Blocks}

Held(block, S) == {k \in S : HasPacket(block, k)}
Received(block) == {k \in PacketIndex : block.pkts[k] = "received"}

DataRange(s) == 0 .. s.data - 1
ECRange(s)   == s.data .. s.data + s.ec - 1

\* The counters of a block of scheme s count its packets, and it was rebuilt
\* from enough of them, once, so that none is missing.
CountsPackets(block, s) ==
  /\ block.recvData = Cardinality(Held(block, DataRange(s)))
  /\ block.recvEC = Cardinality(Held(block, ECRange(s)))
  /\ \A k \in PacketIndex : HasPacket(block, k) => k < s.data + s.ec
  /\ (\E k \in PacketIndex : block.pkts[k] = "rebuilt") =>
       /\ Held(block, DataRange(s)) = DataRange(s)
       /\ Cardinality(Received(block)) >= s.data

\* A slot no packet was put in since it was opened.
Fresh(block) ==
  /\ block.data = 0 /\ block.ec = 0 /\ block.recvData = 0 /\ block.recvEC = 0
  /\ \A k \in PacketIndex : block.pkts[k] = "empty"

Filled(block, s) ==
  /\ block.data = s.data /\ block.ec = s.ec /\ block.maxIdx >= 0
  /\ CountsPackets(block, s)

Counted(block) ==
  /\ block \in BlockType
  /\ Fresh(block) \/ \E s \in Schemes : Filled(block, s)

CountedBlocks(b) == \A s \in Slot : Counted(b.blocks[s])

\* The packets of a slot are those of the block it is numbered for.
Own(block) ==
  \/ Fresh(block)
  \/ block.index \in Blocks /\ \E s \in SchemesOf[block.index] : Filled(block, s)

\* Only the slot just past the top, which the bottom steps on when all was
\* output, may keep packets of an older block.
OwnBlocks(b) ==
  \A s \in Slot : Own(b.blocks[s]) \/ (s = b.bottom /\ BottomBlk(b) > TopBlk(b))

(***************************************************************************)
(* One block.                                                              *)
(***************************************************************************)
LEMMA SchemeFacts ==
  ASSUME NEW s \in Schemes
  PROVE  /\ s.data \in Nat /\ s.data > 0 /\ s.ec \in Nat
         /\ s.data + s.ec <= MaxPacketsInBlock /\ MaxPacketsInBlock \in Nat
         /\ DataRange(s) \subseteq PacketIndex /\ ECRange(s) \subseteq PacketIndex
         /\ DataRange(s) \cap ECRange(s) = {}
         /\ IsFiniteSet(DataRange(s)) /\ Cardinality(DataRange(s)) = s.data
         /\ IsFiniteSet(ECRange(s)) /\ IsFiniteSet(PacketIndex)
<1>1. s \in [data : Nat \ {0}, ec : Nat, size : Nat] /\ s.data + s.ec <= MaxPacketsInBlock
  BY ProcessorAssumption DEF Schemes
<1>2. /\ s.data \in Nat /\ s.data > 0 /\ s.ec \in Nat
      /\ s.data + s.ec <= MaxPacketsInBlock /\ MaxPacketsInBlock \in Nat
  BY <1>1, BufferAssumption
<1>3. /\ DataRange(s) \subseteq PacketIndex /\ ECRange(s) \subseteq PacketIndex
      /\ DataRange(s) \cap ECRange(s) = {}
  BY <1>2 DEF DataRange, ECRange, PacketIndex
<1>4. IsFiniteSet(DataRange(s)) /\ Cardinality(DataRange(s)) = s.data
  <2>1. 0 \in Int /\ s.data - 1 \in Int /\ ~ (0 > s.data - 1) /\ s.data - 1 - 0 + 1 = s.data
    BY <1>2
  <2> QED
    BY <2>1, FS_Interval DEF DataRange
<1>5. IsFiniteSet(ECRange(s))
  <2>1. s.data \in Int /\ s.data + s.ec - 1 \in Int
    BY <1>2
  <2> QED
    BY <2>1, FS_Interval DEF ECRange
<1>6. IsFiniteSet(PacketIndex)
  <2>1. 0 \in Int /\ MaxPacketsInBlock - 1 \in Int
    BY <1>2
  <2> QED
    BY <2>1, FS_Interval DEF PacketIndex
<1> QED
  BY <1>2, <1>3, <1>4, <1>5, <1>6

LEMMA HeldFinite ==
  ASSUME NEW S, IsFiniteSet(S), NEW block
  PROVE  /\ IsFiniteSet(Held(block, S)) /\ Cardinality(Held(block, S)) \in Nat
         /\ Cardinality(Held(block, S)) <= Cardinality(S)
         /\ Cardinality(Held(block, S)) = Cardinality(S) => Held(block, S) = S
<1>1. Held(block, S) \in SUBSET S
  BY DEF Held
<1> QED
  BY <1>1, FS_Subset, FS_CardinalityType

\* A fresh slot counts its no packets, whatever the scheme.
LEMMA FreshCounts ==
  ASSUME NEW block, Fresh(block), NEW s \in Schemes
  PROVE  CountsPackets(block, s)
<1>1. Held(block, DataRange(s)) = {} /\ Held(block, ECRange(s)) = {}
  BY SchemeFacts DEF Fresh, Held, HasPacket
<1>2. ~ \E k \in PacketIndex : block.pkts[k] = "rebuilt"
  BY DEF Fresh
<1>3. \A k \in PacketIndex : ~ HasPacket(block, k)
  BY DEF Fresh, HasPacket
<1> QED
  BY <1>1, <1>2, <1>3, FS_EmptySet DEF CountsPackets, Fresh

\* Marking the missing data packets as rebuilt.
LEMMA RebuildCounts ==
  ASSUME NEW s \in Schemes, NEW block \in BlockType, Filled(block, s)
  PROVE  CheckDoEC(block) \in BlockType /\ Filled(CheckDoEC(block), s)
<1>0. CheckDoEC(block) \in BlockType
  BY CheckDoECType
<1>1. CASE ~ (block.recvData < block.data /\ block.ec # 0
                /\ block.recvData + block.recvEC >= block.data)
  BY <1>0, <1>1 DEF CheckDoEC
<1>2. CASE block.recvData < block.data /\ block.ec # 0
             /\ block.recvData + block.recvEC >= block.data
  <2> DEFINE pkts == [k \in PacketIndex |->
                        IF k \in Missing(block) THEN "rebuilt" ELSE block.pkts[k]]
             recv == block.recvData + Cardinality(Missing(block))
             most == IF block.maxIdx < block.data - 1 THEN block.data - 1 ELSE block.maxIdx
             D == DataRange(s)
             E == ECRange(s)
             c == CheckDoEC(block)
  <2>0. /\ block.data = s.data /\ block.ec = s.ec /\ CountsPackets(block, s)
        /\ block.recvData \in Nat /\ block.recvEC \in Nat
        /\ block.maxIdx \in Nat
    BY DEF Filled, BlockType
  <2>1. c = [block EXCEPT !.pkts = pkts, !.recvData = recv, !.maxIdx = most]
    BY <1>2 DEF CheckDoEC
  <2>2. Missing(block) = D \ Held(block, D) /\ Held(block, D) \in SUBSET D
    BY <2>0 DEF Missing, Held, DataRange
  <2>3. recv = s.data
    <3>1. /\ IsFiniteSet(D) /\ Cardinality(D) = s.data /\ s.data \in Nat
          /\ IsFiniteSet(Held(block, D)) /\ Cardinality(Held(block, D)) \in Nat
      BY SchemeFacts, HeldFinite
    <3>2. D \cap Held(block, D) = Held(block, D)
      BY <2>2
    <3>3. Cardinality(D \ Held(block, D)) = Cardinality(D) - Cardinality(Held(block, D))
      BY <3>1, <3>2, FS_Difference
    <3> QED
      BY <2>0, <2>2, <3>1, <3>3 DEF CountsPackets
  <2>10. most >= 0
    BY <2>0, SchemeFacts
  <2> HIDE DEF pkts, recv, most
  <2>4. /\ c.maxIdx = most /\ c.pkts = pkts /\ c.recvData = recv /\ c.recvEC = block.recvEC
        /\ c.data = block.data /\ c.ec = block.ec
    BY <2>1 DEF BlockType
  <2> HIDE DEF c
  <2>5. /\ \A k \in D : pkts[k] # "empty"
        /\ \A k \in PacketIndex \ D : pkts[k] = block.pkts[k]
        /\ \A k \in PacketIndex : pkts[k] = "received" <=> block.pkts[k] = "received"
    BY <2>2, SchemeFacts DEF pkts, Held, HasPacket
  <2>6. Held(c, D) = D /\ Held(c, E) = Held(block, E) /\ Received(c) = Received(block)
    <3>1. Held(c, D) = D
      BY <2>4, <2>5 DEF Held, HasPacket
    <3>2. \A k \in E : k \in PacketIndex \ D
      BY SchemeFacts
    <3>3. Held(c, E) = Held(block, E)
      BY <2>4, <2>5, <3>2 DEF Held, HasPacket
    <3>4. Received(c) = Received(block)
      BY <2>4, <2>5 DEF Received
    <3> QED
      BY <3>1, <3>3, <3>4
  \* Nothing was rebuilt before, so all that is held was received.
  <2>7. Cardinality(Received(block)) >= s.data
    <3>1. ~ \E k \in PacketIndex : block.pkts[k] = "rebuilt"
      BY <1>2, <2>0, SchemeFacts DEF CountsPackets
    <3>2. Received(block) = Held(block, D) \cup Held(block, E)
      <4>1. \A k \in PacketIndex : block.pkts[k] = "received" <=> HasPacket(block, k)
        BY <3>1 DEF HasPacket, BlockType
      <4>2. \A k \in PacketIndex : k \in D \/ k \in E \/ ~ (k < s.data + s.ec)
        BY SchemeFacts DEF DataRange, ECRange, PacketIndex
      <4> QED
        BY <2>0, <4>1, <4>2, SchemeFacts DEF Received, Held, CountsPackets
    <3>3. Held(block, D) \cap Held(block, E) = {}
      BY SchemeFacts DEF Held
    <3>4. /\ IsFiniteSet(Held(block, D)) /\ IsFiniteSet(Held(block, E))
          /\ Cardinality(Held(block, D)) \in Nat /\ Cardinality(Held(block, E)) \in Nat
      BY SchemeFacts, HeldFinite
    <3>5. Cardinality(Received(block)) =
            Cardinality(Held(block, D)) + Cardinality(Held(block, E)) - Cardinality({})
      BY <3>2, <3>3, <3>4, FS_Union
    <3> QED
      BY <1>2, <2>0, <3>4, <3>5, FS_EmptySet DEF CountsPackets
  <2>8. \A k \in PacketIndex : HasPacket(c, k) => k < s.data + s.ec
    <3>1. \A k \in D : k < s.data + s.ec
      BY SchemeFacts DEF DataRange
    <3>2. \A k \in PacketIndex \ D : HasPacket(c, k) => HasPacket(block, k)
      BY <2>4, <2>5 DEF HasPacket
    <3> QED
      BY <2>0, <3>1, <3>2 DEF CountsPackets
  <2>9. CountsPackets(c, s)
    BY <2>0, <2>3, <2>4, <2>6, <2>7, <2>8, SchemeFacts DEF CountsPackets
  <2> QED
    BY <1>0, <2>0, <2>4, <2>9, <2>10 DEF Filled, c
<1> QED
  BY <1>1, <1>2

\* A packet put in a block is counted once, as what it is.
LEMMA AddCounts ==
  ASSUME NEW s \in Schemes, NEW block \in BlockType, Fresh(block) \/ Filled(block, s),
         NEW p \in PacketType, p.data = s.data, p.ec = s.ec, p.idx < s.data + s.ec,
         ~ HasPacket(block, p.idx)
  PROVE  AddToBlock(block, p) \in BlockType /\ Filled(AddToBlock(block, p), s)
<1> DEFINE isData == p.idx < p.data
           scheme == SchemeFor(block, p)
           pkts   == [block.pkts EXCEPT ![p.idx] = "received"]
           got    == [index |-> p.blk, seen |-> TRUE, data |-> scheme.data,
                      ec |-> scheme.ec, size |-> p.size,
                      recvData |-> block.recvData + (IF isData THEN 1 ELSE 0),
                      recvEC   |-> block.recvEC + (IF isData THEN 0 ELSE 1),
                      maxIdx   |-> IF p.idx > block.maxIdx THEN p.idx ELSE block.maxIdx,
                      pkts     |-> pkts]
           D == DataRange(s)
           E == ECRange(s)
<1>1. AddToBlock(block, p) = CheckDoEC(got)
  BY DEF AddToBlock
<1>2. scheme.data = s.data /\ scheme.ec = s.ec
  BY DEF SchemeFor, Fresh, Filled
<1>3. /\ p.idx \in PacketIndex /\ p.idx \in Nat /\ s.data \in Nat /\ s.ec \in Nat
      /\ block.pkts \in [PacketIndex -> {"empty", "received", "rebuilt"}]
      /\ block.recvData \in Nat /\ block.recvEC \in Nat /\ block.maxIdx \in Nat \cup {-1}
      /\ p.blk \in Nat /\ p.size \in Nat
  BY SchemeFacts, BufferAssumption DEF PacketType, PacketIndex, BlockType
<1>4. CountsPackets(block, s)
  BY FreshCounts DEF Filled
<1>5. pkts \in [PacketIndex -> {"empty", "received", "rebuilt"}]
      /\ pkts[p.idx] = "received"
      /\ \A k \in PacketIndex : k # p.idx => pkts[k] = block.pkts[k]
  BY <1>3
<1> HIDE DEF scheme, pkts
<1>6. /\ got.data = s.data /\ got.ec = s.ec /\ got.pkts = pkts
      /\ got.recvData = block.recvData + (IF isData THEN 1 ELSE 0)
      /\ got.recvEC = block.recvEC + (IF isData THEN 0 ELSE 1)
      /\ got.maxIdx >= 0
  BY <1>2, <1>3
<1>7. got \in BlockType
  <2>1. /\ block.recvData + (IF isData THEN 1 ELSE 0) \in Nat
        /\ block.recvEC + (IF isData THEN 0 ELSE 1) \in Nat
        /\ (IF p.idx > block.maxIdx THEN p.idx ELSE block.maxIdx) \in Nat \cup {-1}
    BY <1>3
  <2> HIDE DEF isData
  <2> QED
    BY <1>2, <1>3, <1>5, <2>1 DEF BlockType
<1> HIDE DEF got
<1>8. ASSUME NEW S \in {D, E}
      PROVE  /\ Held(got, S) = IF p.idx \in S THEN Held(block, S) \cup {p.idx}
                                              ELSE Held(block, S)
             /\ p.idx \notin Held(block, S)
             /\ IsFiniteSet(Held(block, S)) /\ Cardinality(Held(block, S)) \in Nat
  <2>1. S \subseteq PacketIndex /\ IsFiniteSet(S)
    BY SchemeFacts
  <2>2. \A k \in S : HasPacket(got, k) <=> k = p.idx \/ HasPacket(block, k)
    BY <1>5, <1>6, <2>1 DEF HasPacket
  <2> QED
    BY <2>1, <2>2, HeldFinite DEF Held
<1>9. /\ isData => p.idx \in D /\ p.idx \notin E
      /\ ~ isData => p.idx \notin D /\ p.idx \in E
  BY <1>3 DEF DataRange, ECRange
<1>10. got.recvData = Cardinality(Held(got, D)) /\ got.recvEC = Cardinality(Held(got, E))
  <2> HIDE DEF isData, D, E
  <2>1. /\ block.recvData = Cardinality(Held(block, D))
        /\ block.recvEC = Cardinality(Held(block, E))
    BY <1>4 DEF CountsPackets, D, E
  <2>2. CASE isData
    <3>1. Cardinality(Held(block, D) \cup {p.idx}) = Cardinality(Held(block, D)) + 1
      BY <1>8, FS_AddElement
    <3>2. Held(got, D) = Held(block, D) \cup {p.idx} /\ Held(got, E) = Held(block, E)
      BY <1>8, <1>9, <2>2
    <3>3. got.recvData = block.recvData + 1 /\ got.recvEC = block.recvEC
      BY <1>3, <1>6, <2>2
    <3> QED
      BY <2>1, <3>1, <3>2, <3>3
  <2>3. CASE ~ isData
    <3>1. Cardinality(Held(block, E) \cup {p.idx}) = Cardinality(Held(block, E)) + 1
      BY <1>8, FS_AddElement
    <3>2. Held(got, E) = Held(block, E) \cup {p.idx} /\ Held(got, D) = Held(block, D)
      BY <1>8, <1>9, <2>3
    <3>3. got.recvData = block.recvData /\ got.recvEC = block.recvEC + 1
      BY <1>3, <1>6, <2>3
    <3> QED
      BY <2>1, <3>1, <3>2, <3>3
  <2> QED
    BY <2>2, <2>3
<1>11. \A k \in PacketIndex : HasPacket(got, k) => k < s.data + s.ec
  BY <1>4, <1>5, <1>6 DEF CountsPackets, HasPacket
<1>12. ASSUME NEW k \in PacketIndex, got.pkts[k] = "rebuilt"
       PROVE  Held(got, D) = D /\ Cardinality(Received(got)) >= s.data
  <2>1. block.pkts[k] = "rebuilt"
    BY <1>5, <1>6, <1>12
  <2>2. Held(block, D) = D /\ Cardinality(Received(block)) >= s.data
    BY <1>4, <2>1 DEF CountsPackets
  <2>3. Held(got, D) = D
    BY <1>8, <2>2
  <2>4. Received(got) = Received(block) \cup {p.idx}
    BY <1>3, <1>5, <1>6 DEF Received
  <2>5. IsFiniteSet(Received(block)) /\ Cardinality(Received(block)) \in Nat
    <3>1. Received(block) \in SUBSET PacketIndex
      BY DEF Received
    <3> QED
      BY <3>1, SchemeFacts, FS_Subset, FS_CardinalityType
  <2>6. Cardinality(Received(block) \cup {p.idx}) =
          IF p.idx \in Received(block) THEN Cardinality(Received(block))
                                       ELSE Cardinality(Received(block)) + 1
    BY <2>5, FS_AddElement
  <2>7. /\ Cardinality(Received(got)) >= Cardinality(Received(block))
        /\ Cardinality(Received(got)) \in Nat
    BY <2>4, <2>5, <2>6
  <2> QED
    BY <1>3, <2>2, <2>3, <2>5, <2>7
<1>13. Filled(got, s)
  BY <1>6, <1>10, <1>11, <1>12 DEF Filled, CountsPackets
<1> QED
  BY <1>1, <1>7, <1>13, RebuildCounts
(***************************************************************************)
(* The buffer.                                                             *)
(***************************************************************************)
\* The packet carries scheme s and is one of its packets.
OfScheme(p, s) == p.data = s.data /\ p.ec = s.ec /\ p.idx < s.data + s.ec

LEMMA EmptyCounted ==
  Counted(EmptyBlock) /\ CountedBlocks(EmptyBuffer) /\ OwnBlocks(EmptyBuffer)
<1>1. Fresh(EmptyBlock)
  BY DEF Fresh, EmptyBlock
<1>2. Counted(EmptyBlock) /\ Own(EmptyBlock)
  BY <1>1, EmptyTypes DEF Counted, Own
<1> QED
  BY <1>2 DEF CountedBlocks, OwnBlocks, EmptyBuffer

\* Nothing that is counted depends on a block's number.
LEMMA RenumberedCounted ==
  ASSUME NEW block, Counted(block), NEW n \in Nat, NEW seen \in BOOLEAN
  PROVE  /\ Counted([block EXCEPT !.index = n])
         /\ Counted([block EXCEPT !.index = n, !.seen = seen])
<1> DEFINE one == [block EXCEPT !.index = n]
           two == [block EXCEPT !.index = n, !.seen = seen]
<1>1. block \in BlockType
  BY DEF Counted
<1>2. ASSUME NEW c \in {one, two}
      PROVE  /\ c \in BlockType
             /\ c.data = block.data /\ c.ec = block.ec /\ c.pkts = block.pkts
             /\ c.recvData = block.recvData /\ c.recvEC = block.recvEC
             /\ c.maxIdx = block.maxIdx
  BY <1>1 DEF BlockType
<1> HIDE DEF one, two
<1>3. ASSUME NEW c \in {one, two}
      PROVE  Counted(c)
  <2>1. Fresh(block) => Fresh(c)
    BY <1>2 DEF Fresh
  <2>2. \A s \in Schemes : Filled(block, s) => Filled(c, s)
    BY <1>2 DEF Filled, CountsPackets, Held, Received, HasPacket
  <2> QED
    BY <1>2, <2>1, <2>2 DEF Counted
<1> QED
  BY <1>3 DEF one, two

\* A packet put in a slot of its block, or in one without packets, while no
\* other slot of the ring is disturbed.
LEMMA AddToSlotCounted ==
  ASSUME NEW b \in BufferType, CountedBlocks(b), OwnBlocks(b), NEW p \in PacketType,
         p.blk \in Blocks, NEW s \in SchemesOf[p.blk], OfScheme(p, s), NEW slot \in Slot,
         Fresh(b.blocks[slot]) \/ Filled(b.blocks[slot], s),
         b.blocks[slot].index = p.blk \/ BottomBlk(b) <= TopBlk(b)
  PROVE  CountedBlocks(AddToSlot(b, slot, p)) /\ OwnBlocks(AddToSlot(b, slot, p))
<1>1. CASE ~ Accepts(b.blocks[slot], p)
  BY <1>1, EmptyCounted DEF AddToSlot, EmptyBuffers
<1>2. CASE Accepts(b.blocks[slot], p)
  <2> DEFINE block == AddToBlock(b.blocks[slot], p)
             blocks == [b.blocks EXCEPT ![slot] = block]
             c == AddToSlot(b, slot, p)
  <2>0. s \in Schemes /\ b.blocks \in [Slot -> BlockType]
    BY DEF Schemes, BufferType
  <2>1. c.blocks = blocks /\ c.bottom = b.bottom /\ c.top = b.top
    BY <1>2 DEF AddToSlot, BufferType
  <2>2. block \in BlockType /\ Filled(block, s)
    BY <1>2, <2>0, AddCounts DEF OfScheme, Accepts
  <2>3. block.index = p.blk
    BY <2>0, AddToBlockType
  <2> HIDE DEF block, c
  <2>4. blocks[slot] = block /\ \A r \in Slot : r # slot => blocks[r] = b.blocks[r]
    BY <2>0
  <2> HIDE DEF blocks
  <2>5. CountedBlocks(c)
    BY <2>0, <2>1, <2>2, <2>4 DEF CountedBlocks, Counted
  <2>6. Own(block)
    BY <2>2, <2>3 DEF Own
  <2>7. ASSUME NEW r \in Slot, r # slot, ~ Own(b.blocks[r])
        PROVE  r = c.bottom /\ BottomBlk(c) > TopBlk(c)
    <3>1. /\ r = b.bottom /\ BottomBlk(b) > TopBlk(b)
          /\ BottomBlk(b) \in Nat /\ TopBlk(b) \in Nat
      BY <2>7, BlockNumbers DEF OwnBlocks
    <3>2. b.blocks[slot].index = p.blk /\ b.top \in Slot
      BY <3>1 DEF BufferType
    <3>3. BottomBlk(c) = BottomBlk(b)
      BY <2>1, <2>4, <2>7, <3>1 DEF BottomBlk, Bottom
    <3>4. TopBlk(c) = TopBlk(b)
      BY <2>1, <2>3, <2>4, <3>2 DEF TopBlk, Top
    <3> QED
      BY <2>1, <3>1, <3>3, <3>4
  <2>8. OwnBlocks(c)
    <3> SUFFICES ASSUME NEW r \in Slot
                 PROVE  Own(c.blocks[r]) \/ (r = c.bottom /\ BottomBlk(c) > TopBlk(c))
      BY DEF OwnBlocks
    <3> QED
      BY <2>1, <2>4, <2>6, <2>7
  <2> QED
    BY <2>5, <2>8 DEF c
<1> QED
  BY <1>1, <1>2

\* The slot of a packet in the ring is that of its block, whose packets are all
\* of the block's one scheme.
LEMMA SlotIsOwn ==
  ASSUME OneSchemePerBlock, NEW b \in BufferType, RingOK(b), OwnBlocks(b),
         NEW p \in PacketType, p.blk \in Blocks, NEW s \in SchemesOf[p.blk],
         p.blk <= TopBlk(b), NEW slot \in Slot, b.blocks[slot].index = p.blk
  PROVE  Fresh(b.blocks[slot]) \/ Filled(b.blocks[slot], s)
<1>1. ~ (slot = b.bottom /\ BottomBlk(b) > TopBlk(b))
  <2>1. p.blk \in Nat /\ TopBlk(b) \in Nat
    BY BlockNumbers DEF PacketType
  <2> QED
    BY <2>1 DEF BottomBlk, Bottom
<1>2. Own(b.blocks[slot])
  BY <1>1 DEF OwnBlocks
<1> QED
  BY <1>2 DEF Own, OneSchemePerBlock

\* A slot opened for a block holds no packet, whatever its number.
LEMMA OpenedFresh ==
  ASSUME NEW n, NEW seen
  PROVE  /\ Fresh([EmptyBlock EXCEPT !.index = n])
         /\ Fresh([EmptyBlock EXCEPT !.index = n, !.seen = seen])
BY DEF Fresh, EmptyBlock

LEMMA ExtendedCounted ==
  ASSUME NEW b \in BufferType, CountedBlocks(b), OwnBlocks(b), ~ b.empty, RingOK(b),
         NEW blk \in Nat, blk > TopBlk(b), blk - TopBlk(b) < MaxBlocks - Count(b) - 1
  PROVE  CountedBlocks(Extended(b, blk)) /\ OwnBlocks(Extended(b, blk))
<1> DEFINE gap == blk - TopBlk(b)
           Distance(s) == IF s > b.top THEN s - b.top ELSE s - b.top + MaxBlocks
           opened(s)   == [EmptyBlock EXCEPT !.index = TopBlk(b) + Distance(s), !.seen = TRUE]
           blocks == [s \in Slot |-> IF Distance(s) <= gap THEN opened(s) ELSE b.blocks[s]]
<1>0. /\ TopBlk(b) \in Nat /\ BottomBlk(b) \in Nat
      /\ b.top \in Slot /\ b.bottom \in Slot
  BY BlockNumbers DEF BufferType
<1>1. ASSUME NEW s \in Slot
      PROVE  Counted(opened(s)) /\ Own(opened(s))
  <2>1. Distance(s) \in Nat
    BY <1>0, BufferAssumption DEF Slot
  <2>2. TopBlk(b) + Distance(s) \in Nat
    BY <1>0, <2>1
  <2> HIDE DEF Distance
  <2>3. Counted(opened(s))
    BY <2>2, EmptyCounted, RenumberedCounted, Zenon
  <2>4. Fresh(opened(s))
    BY OpenedFresh, Zenon
  <2> QED
    BY <2>3, <2>4, Zenon DEF Own
\* The slot the bottom stands on when all was output is the first one opened.
<1>2. BottomBlk(b) > TopBlk(b) => Distance(b.bottom) <= gap
  <2>1. CASE BottomBlk(b) > TopBlk(b)
    <3>1. TopBlk(b) - BottomBlk(b) = -1
      BY <1>0, <2>1, BufferAssumption DEF RingOK
    <3>2. b.top = Back(b.bottom, 1)
      BY <3>1 DEF RingOK
    <3>3. Distance(b.bottom) = 1
      BY <1>0, <3>2, BufferAssumption DEF Back, Slot
    <3> HIDE DEF Distance
    <3> QED
      BY <1>0, <3>3
  <2> QED
    BY <2>1
<1> HIDE DEF opened, Distance, gap
<1>3. ASSUME NEW s \in Slot
      PROVE  Counted(blocks[s]) /\ Own(blocks[s])
  <2>1. CASE Distance(s) <= gap
    BY <1>1, <2>1
  <2>2. CASE ~ (Distance(s) <= gap)
    BY <1>2, <2>2 DEF CountedBlocks, OwnBlocks
  <2> QED
    BY <2>1, <2>2
<1>4. Extended(b, blk) = [b EXCEPT !.top = Ahead(b.top, gap), !.blocks = blocks]
  BY DEF Extended, gap, Distance, opened
<1>5. Extended(b, blk).blocks = blocks
  <2> HIDE DEF blocks
  <2> QED
    BY <1>4 DEF BufferType
<1> HIDE DEF blocks
<1> QED
  BY <1>3, <1>5 DEF CountedBlocks, OwnBlocks

LEMMA CheckAddCounted ==
  ASSUME OneSchemePerBlock, NEW b \in BufferType, Consistent(b), CountedBlocks(b),
         OwnBlocks(b), NEW p \in PacketType, p.blk \in Blocks,
         NEW s \in SchemesOf[p.blk], OfScheme(p, s)
  PROVE  CountedBlocks(CheckAdd(b, p)) /\ OwnBlocks(CheckAdd(b, p))
<1> DEFINE ready == Prepared(b, p)
           slot == SlotOf(ready, p)
           c == CheckAdd(b, p)
<1>0. /\ c = IF slot = NoSlot THEN ready ELSE AddToSlot(ready, slot, p)
      /\ p.blk \in Nat /\ BottomBlk(b) \in Nat /\ TopBlk(b) \in Nat
  BY BlockNumbers DEF CheckAdd, PacketType
<1>a. EmptyBuffer.empty /\ EmptyBuffer.top = 0
  BY DEF EmptyBuffer
\* Into an empty buffer, or into a ring that reaches the packet's block.
<1>1. CASE ready = EmptyBuffer
  <2>1. slot = NoSlot \/ slot = 0
    BY <1>1, <1>a DEF SlotOf
  <2>2. 0 \in Slot /\ Fresh(EmptyBuffer.blocks[0])
    BY BufferAssumption DEF Slot, EmptyBuffer, EmptyBlock, Fresh
  <2>3. BottomBlk(EmptyBuffer) <= TopBlk(EmptyBuffer)
    BY <2>2 DEF BottomBlk, TopBlk, Bottom, Top, EmptyBuffer, EmptyBlock
  <2> HIDE DEF ready, slot
  <2> QED
    BY <1>0, <1>1, <2>1, <2>2, <2>3, EmptyTypes, EmptyCounted, AddToSlotCounted
<1>2. ASSUME ready \in BufferType, RingOK(ready), CountedBlocks(ready), OwnBlocks(ready),
             p.blk <= TopBlk(ready), p.blk = TopBlk(ready) \/ p.blk >= BottomBlk(ready),
             slot = Back(ready.top, TopBlk(ready) - p.blk)
      PROVE  CountedBlocks(c) /\ OwnBlocks(c)
  <2> HIDE DEF ready
  <2>1. slot \in Slot /\ ready.blocks[slot].index = p.blk
    BY <1>0, <1>2, SlotOfBlock
  <2>2. slot # NoSlot
    BY <2>1 DEF Slot, NoSlot
  <2> HIDE DEF slot
  <2>3. Fresh(ready.blocks[slot]) \/ Filled(ready.blocks[slot], s)
    BY <1>2, <2>1, SlotIsOwn
  <2> QED
    BY <1>0, <1>2, <2>1, <2>2, <2>3, AddToSlotCounted
<1>3. CASE b.empty
  <2>1. ready = EmptyBuffer
    BY <1>3, <1>a DEF Prepared, Overflows, IsFuture, Consistent
  <2> QED
    BY <1>1, <2>1
<1>4. CASE ~ b.empty
  <2>0. RingOK(b)
    BY <1>4 DEF Consistent
  <2>1. CASE Overflows(b, p)
    BY <1>1, <1>4, <2>1 DEF Prepared, EmptyBuffers
  <2>2. CASE IsFuture(b, p) /\ ~ IsTooFar(b, p)
    <3>1. ready = Extended(b, p.blk)
      BY <2>2 DEF Prepared, Overflows
    <3>2. p.blk > TopBlk(b) /\ p.blk - TopBlk(b) < MaxBlocks - Count(b) - 1
      BY <1>0, <2>0, <2>2, SlotsOfRing, BufferAssumption DEF IsFuture, IsTooFar
    <3>3. /\ ready \in BufferType /\ ~ ready.empty /\ RingOK(ready)
          /\ TopBlk(ready) = p.blk
      BY <1>0, <1>4, <2>0, <3>1, <3>2, ExtendRing
    <3>4. CountedBlocks(ready) /\ OwnBlocks(ready)
      BY <1>0, <1>4, <2>0, <3>1, <3>2, ExtendedCounted
    <3>5. slot = Back(ready.top, TopBlk(ready) - p.blk)
      BY <3>3 DEF SlotOf
    <3> QED
      BY <1>0, <1>2, <3>3, <3>4, <3>5
  <2>3. CASE ~ IsFuture(b, p)
    <3>1. ready = b
      BY <2>3 DEF Prepared, Overflows
    <3>2. CASE p.blk # TopBlk(b) /\ IsTooOld(b, p)
      BY <1>0, <1>4, <3>1, <3>2 DEF SlotOf
    <3>3. CASE ~ (p.blk # TopBlk(b) /\ IsTooOld(b, p))
      <4>1. p.blk <= TopBlk(b) /\ (p.blk = TopBlk(b) \/ p.blk >= BottomBlk(b))
        BY <1>0, <1>4, <2>3, <3>3 DEF IsFuture, IsTooOld
      <4>2. slot = Back(b.top, TopBlk(b) - p.blk)
        BY <1>4, <3>1, <3>3 DEF SlotOf
      <4> QED
        BY <1>2, <2>0, <3>1, <4>1, <4>2
    <3> QED
      BY <3>2, <3>3
  <2> QED
    BY <2>1, <2>2, <2>3 DEF Overflows
<1> QED
  BY <1>3, <1>4

LEMMA DropCounted ==
  ASSUME NEW b \in BufferType, CountedBlocks(b)
  PROVE  CountedBlocks(DropBottom(b)) /\ DropBottom(b).bottomPkt = 0
<1> DEFINE next == After(b.bottom)
           gone == [EmptyBlock EXCEPT !.index = IF b.bottom = b.top THEN BottomBlk(b) ELSE 0]
           mid  == [b.blocks EXCEPT ![b.bottom] = gone]
           first == [mid[next] EXCEPT !.index = BottomBlk(b) + 1]
           blocks == [mid EXCEPT ![next] = first]
<1>1. /\ BottomBlk(b) \in Nat /\ b.bottom \in Slot /\ next \in Slot
      /\ b.blocks \in [Slot -> BlockType]
  BY BlockNumbers, SlotArithmetic, BufferAssumption DEF BufferType
<1>2. DropBottom(b) = [b EXCEPT !.bottom = next, !.bottomPkt = 0, !.blocks = blocks]
  BY DEF DropBottom
<1>3. Counted(gone)
  BY <1>1, EmptyCounted, RenumberedCounted
<1> HIDE DEF gone, next
<1>4. \A s \in Slot : Counted(mid[s])
  BY <1>1, <1>3 DEF CountedBlocks
<1>5. Counted(first)
  <2>1. BottomBlk(b) + 1 \in Nat /\ Counted(mid[next])
    BY <1>1, <1>4
  <2> HIDE DEF mid
  <2> QED
    BY <2>1, RenumberedCounted, Zenon
<1>6. ASSUME NEW s \in Slot
      PROVE  Counted(blocks[s])
  <2>1. mid = [s_1 \in Slot |-> mid[s_1]]
    BY <1>1
  <2> HIDE DEF mid, first
  <2> QED
    BY <1>4, <1>5, <2>1
<1>7. DropBottom(b).blocks = blocks /\ DropBottom(b).bottomPkt = 0
  <2> HIDE DEF blocks
  <2> QED
    BY <1>2 DEF BufferType
<1> HIDE DEF blocks
<1> QED
  BY <1>6, <1>7 DEF CountedBlocks

\* The slot the bottom moves on to is numbered already, unless the ring is
\* then past its top.
LEMMA DropOwn ==
  ASSUME NEW b \in BufferType, RingOK(b), BottomBlk(b) <= TopBlk(b), OwnBlocks(b)
  PROVE  OwnBlocks(DropBottom(b))
<1> DEFINE d    == TopBlk(b) - BottomBlk(b)
           next == After(b.bottom)
           gone == [EmptyBlock EXCEPT !.index = IF b.bottom = b.top THEN BottomBlk(b) ELSE 0]
           mid  == [b.blocks EXCEPT ![b.bottom] = gone]
           first == [mid[next] EXCEPT !.index = BottomBlk(b) + 1]
           blocks == [mid EXCEPT ![next] = first]
           c == DropBottom(b)
<1>1. /\ BottomBlk(b) \in Nat /\ TopBlk(b) \in Nat
      /\ b.bottom \in Slot /\ b.top \in Slot /\ b.blocks \in [Slot -> BlockType]
  BY BlockNumbers DEF BufferType
<1>2. next \in Slot /\ next # b.bottom
  BY <1>1, BufferAssumption DEF After, Slot
<1>3. c = [b EXCEPT !.bottom = next, !.bottomPkt = 0, !.blocks = blocks]
  BY DEF DropBottom
<1>4. Own(gone) /\ (b.bottom = b.top => gone.index = BottomBlk(b))
  <2>1. Fresh(gone)
    BY OpenedFresh
  <2> QED
    BY <2>1 DEF Own, EmptyBlock
<1> HIDE DEF gone
<1>5. mid[next] = b.blocks[next] /\ mid = [s \in Slot |-> mid[s]]
  BY <1>1, <1>2
<1>6. first.index = BottomBlk(b) + 1
  BY <1>1, <1>2, <1>5 DEF BlockType
<1>7. /\ blocks[next] = first /\ blocks[b.bottom] = gone
      /\ \A s \in Slot : s # next /\ s # b.bottom => blocks[s] = b.blocks[s]
  <2> HIDE DEF first
  <2> QED
    BY <1>1, <1>2
<1>8. c.bottom = next /\ c.top = b.top /\ c.blocks = blocks
  <2> HIDE DEF blocks, next
  <2> QED
    BY <1>3 DEF BufferType
<1>9. \A s \in Slot : Own(b.blocks[s])
  BY <1>1 DEF OwnBlocks
<1>10. CASE d = 0
  <2>1. b.top = b.bottom
    BY <1>1, <1>10, BufferAssumption DEF RingOK, Ahead, Slot
  <2> HIDE DEF c, blocks, first
  <2>2. BottomBlk(c) = BottomBlk(b) + 1 /\ TopBlk(c) = BottomBlk(b)
    BY <1>4, <1>6, <1>7, <1>8, <2>1 DEF BottomBlk, TopBlk, Bottom, Top
  <2>3. \A s \in Slot : s # next => Own(c.blocks[s])
    BY <1>4, <1>7, <1>8, <1>9
  <2>4. OwnBlocks(c)
    BY <1>1, <1>8, <2>2, <2>3 DEF OwnBlocks
  <2> QED
    BY <2>4 DEF c
<1>11. CASE d # 0
  <2>1. d \in 1 .. MaxBlocks - 3
    BY <1>1, <1>11 DEF RingOK
  <2>2. FromBottom(b, 1).index = BottomBlk(b) + 1
    BY <1>1, <2>1 DEF RingOK
  <2>3. Ahead(b.bottom, 1) = next
    BY <1>1, BufferAssumption DEF Ahead, After, Slot
  <2>4. b.blocks[next].index = BottomBlk(b) + 1 /\ b.blocks[next] \in BlockType
    BY <1>1, <1>2, <2>2, <2>3 DEF FromBottom
  <2>5. first = b.blocks[next]
    BY <1>5, <2>4 DEF BlockType
  <2> HIDE DEF c, blocks, first
  <2>6. \A s \in Slot : Own(c.blocks[s])
    BY <1>2, <1>4, <1>7, <1>8, <1>9, <2>5
  <2>7. OwnBlocks(c)
    BY <2>6 DEF OwnBlocks
  <2> QED
    BY <2>7 DEF c
<1> QED
  BY <1>10, <1>11

(***************************************************************************)
(* The processor.                                                          *)
(***************************************************************************)
\* The next packet to output is one of the bottom block's data packets.
BottomInBlock(b) == b.bottomPkt > 0 => b.bottomPkt < Bottom(b).data

CountInv ==
  RequestInv /\ CountedBlocks(buf) /\ OwnBlocks(buf) /\ BottomInBlock(buf)

\* The bottom block of which packets were output has its own scheme.
LEMMA BottomFilled ==
  ASSUME NEW b \in BufferType, OwnBlocks(b), OutputHeld(b), b.bottomPkt > 0, 0 \in PacketIndex
  PROVE  /\ BottomBlk(b) \in Blocks
         /\ \E s \in SchemesOf[BottomBlk(b)] : Bottom(b).data = s.data
<1>1. /\ b.bottom \in Slot /\ b.bottomPkt \in Nat
      /\ BottomBlk(b) \in Nat /\ TopBlk(b) \in Nat
  BY BlockNumbers DEF BufferType
<1>2. ~ (BottomBlk(b) > TopBlk(b))
  BY <1>1 DEF OutputHeld
<1>3. Own(Bottom(b))
  BY <1>1, <1>2 DEF OwnBlocks, Bottom
<1>4. HasPacket(Bottom(b), 0)
  BY <1>1 DEF OutputHeld
<1>5. ~ Fresh(Bottom(b))
  BY <1>4 DEF Fresh, HasPacket
<1> QED
  BY <1>3, <1>5 DEF Own, Filled, BottomBlk

LEMMA AddAndOutputCounted ==
  ASSUME OneSchemePerBlock, NEW b \in BufferType, Consistent(b), CountedBlocks(b),
         OwnBlocks(b), BottomInBlock(b), OutputHeld(b), buf' \in BufferType,
         OutputHeld(buf'), NEW p \in PacketType, p.blk \in Blocks,
         NEW s \in SchemesOf[p.blk], OfScheme(p, s), AddAndOutput(b, p)
  PROVE  CountedBlocks(buf') /\ OwnBlocks(buf') /\ BottomInBlock(buf')
<1>1. buf' = CheckAdd(b, p)
  BY DEF AddAndOutput
<1>2. CountedBlocks(buf') /\ OwnBlocks(buf')
  BY <1>1, CheckAddCounted
<1>3. GoesOn(b, buf') \/ StartsAt(buf', p.blk) \/ buf' = EmptyBuffer
  BY <1>1, CheckAddKeepsRing
<1>4. \/ buf'.bottomPkt = b.bottomPkt /\ BottomBlk(buf') = BottomBlk(b)
      \/ buf'.bottomPkt = 0
  BY <1>3 DEF GoesOn, StartsAt, EmptyBuffer
<1>5. CASE buf'.bottomPkt > 0
  <2>1. b.bottomPkt > 0 /\ buf'.bottomPkt = b.bottomPkt /\ BottomBlk(buf') = BottomBlk(b)
    BY <1>4, <1>5
  <2>2. 0 \in PacketIndex
    BY SchemeFacts DEF PacketIndex, Schemes
  <2>3. Bottom(buf').data = Bottom(b).data
    BY <1>2, <1>5, <2>1, <2>2, BottomFilled DEF OneSchemePerBlock
  <2> QED
    BY <1>2, <2>1, <2>3 DEF BottomInBlock
<1> QED
  BY <1>2, <1>5 DEF BottomInBlock

LEMMA NextKeepsCountInv ==
  ASSUME OneSchemePerBlock, CountInv, [Next]_vars
  PROVE  CountInv'
<1>1. RequestInv'
  BY NextKeepsRequestInv DEF CountInv
<1>2. /\ Inv /\ CountedBlocks(buf) /\ OwnBlocks(buf)
      /\ BottomInBlock(buf) /\ OutputHeld(buf)
      /\ buf \in BufferType /\ Consistent(buf)
  BY ConsistentBuffer DEF CountInv, RequestInv, Inv, TypeOK
<1>0. buf' \in BufferType /\ OutputHeld(buf')
  BY <1>1 DEF RequestInv, Inv, TypeOK
<1> SUFFICES CountedBlocks(buf') /\ OwnBlocks(buf') /\ BottomInBlock(buf')
  BY <1>1 DEF CountInv
<1>a. EmptyBuffer.bottomPkt = 0 /\ EmptyBuffer.empty /\ ~ (0 > 0)
  BY DEF EmptyBuffer
<1>3. CASE buf' = buf
  BY <1>2, <1>3
<1>4. CASE buf' = DropBottom(buf) /\ ~ buf.empty /\ BottomBlk(buf) <= TopBlk(buf)
  <2>1. RingOK(buf)
    BY <1>2, <1>4 DEF Consistent
  <2> QED
    BY <1>2, <1>4, <1>a, <2>1, DropCounted, DropOwn DEF BottomInBlock
<1>5. CASE buf' = EmptyBuffers(buf)
  BY <1>2, <1>5, <1>a, EmptiedBuffer, EmptyCounted DEF BottomInBlock
<1>6. ASSUME NEW blk \in Blocks, NEW idx \in PacketIndex, NEW s \in SchemesOf[blk],
             idx < s.data + s.ec,
             \/ AddAndOutput(buf, PacketOf(blk, idx, s))
             \/ AddAndOutput(EmptyBuffers(buf), PacketOf(blk, idx, s))
      PROVE  CountedBlocks(buf') /\ OwnBlocks(buf') /\ BottomInBlock(buf')
  <2>1. PacketOf(blk, idx, s) \in PacketType /\ PacketOf(blk, idx, s).blk = blk
    BY PacketOfType
  <2>2. OfScheme(PacketOf(blk, idx, s), s)
    BY <1>6 DEF PacketOf, OfScheme
  <2>3. EmptyBuffers(buf) = EmptyBuffer /\ Consistent(EmptyBuffer)
    BY <1>2, <1>a, EmptiedBuffer DEF Consistent
  <2>4. BottomInBlock(EmptyBuffer)
    BY <1>a DEF BottomInBlock
  <2> QED
    BY <1>0, <1>2, <1>6, <2>1, <2>2, <2>3, <2>4, EmptyTypes, EmptySound, EmptyCounted,
       AddAndOutputCounted
<1>7. CASE OutputPacket
  <2>1. CASE buf.bottomPkt + 1 < Bottom(buf).data
    <3>1. buf' = [buf EXCEPT !.bottomPkt = @ + 1]
      BY <1>7, <2>1 DEF OutputPacket, AdvanceBottomPacket
    <3>2. /\ buf'.bottomPkt = buf.bottomPkt + 1 /\ buf'.blocks = buf.blocks
          /\ Bottom(buf') = Bottom(buf)
      BY <1>2, <3>1 DEF BufferType, Bottom
    <3>3. BottomBlk(buf') = BottomBlk(buf) /\ TopBlk(buf') = TopBlk(buf)
          /\ buf'.bottom = buf.bottom
      BY <1>2, <3>1 DEF BufferType, BottomBlk, TopBlk, Bottom, Top
    <3> QED
      BY <1>2, <2>1, <3>2, <3>3 DEF CountedBlocks, OwnBlocks, BottomInBlock
  <2> QED
    BY <1>2, <1>4, <1>7, <2>1, CountedBuffer DEF OutputPacket, AdvanceBottomPacket
<1>8. CASE DiscardIncomplete
  BY <1>2, <1>4, <1>8, CountedBuffer DEF DiscardIncomplete
<1>9. CASE DiscardOldBlock
  <2>1. ~ buf.empty
    BY <1>2, <1>9, BufferAssumption
    DEF DiscardOldBlock, Inv, BufferConsistent, EmptyBuffer, EmptyBlock, Bottom, Slot
  <2> QED
    BY <1>4, <1>9, <2>1 DEF DiscardOldBlock
<1> QED
  BY <1>3, <1>5, <1>6, <1>7, <1>8, <1>9
  DEF Next, vars, OutputLoop, ReceivePacket, ReceiveRestart, ReceiveRetransmission,
      OutputDone, CheckMissing, CheckDone,
      NoVideoTimeout, RequestMissing, FullReset, LengthyOperation, PauseProcessing,
      ResumeProcessing

LEMMA InitCountInv == Init => CountInv
<1>1. EmptyBuffer.bottomPkt = 0 /\ ~ (0 > 0)
  BY DEF EmptyBuffer
<1> QED
  BY <1>1, InitInv, EmptySound, EmptyCounted
  DEF CountInv, RequestInv, Init, BottomInBlock

(***************************************************************************)
(* The theorems.                                                           *)
(***************************************************************************)
\* When every block has one scheme, the counters of every block agree with the
\* packets it holds, and packets are rebuilt only from enough received ones.
THEOREM CountersCorrect ==
  ASSUME OneSchemePerBlock
  PROVE  Spec => []CountersAgree
<1>1. CountInv /\ [Next]_vars => CountInv'
  BY NextKeepsCountInv
<1>2. ASSUME CountedBlocks(buf)
      PROVE  CountersAgree
  <2> SUFFICES ASSUME NEW slot \in Slot
               PROVE  LET block == buf.blocks[slot]
                          In(S) == Cardinality({k \in S : HasPacket(block, k)})
                      IN  /\ block.recvData = In(0 .. block.data - 1)
                          /\ block.recvEC = In(block.data .. block.data + block.ec - 1)
                          /\ (\E k \in PacketIndex : block.pkts[k] = "rebuilt") =>
                                Cardinality({k \in PacketIndex : block.pkts[k] = "received"})
                                  >= block.data
    BY DEF CountersAgree
  <2> DEFINE block == buf.blocks[slot]
  <2>1. Counted(block)
    BY <1>2 DEF CountedBlocks
  <2> HIDE DEF block
  <2>2. CASE Fresh(block)
    <3>1. /\ {k \in 0 .. block.data - 1 : HasPacket(block, k)} = {}
          /\ {k \in block.data .. block.data + block.ec - 1 : HasPacket(block, k)} = {}
      BY <2>2 DEF Fresh
    <3>2. ~ \E k \in PacketIndex : block.pkts[k] = "rebuilt"
      BY <2>2 DEF Fresh
    <3> QED
      BY <2>2, <3>1, <3>2, FS_EmptySet DEF Fresh, block
  <2>3. ASSUME NEW s \in Schemes, Filled(block, s)
        PROVE  /\ block.recvData = Cardinality({k \in 0 .. block.data - 1 : HasPacket(block, k)})
               /\ block.recvEC = Cardinality({k \in block.data .. block.data + block.ec - 1 :
                                                HasPacket(block, k)})
               /\ (\E k \in PacketIndex : block.pkts[k] = "rebuilt") =>
                     Cardinality({k \in PacketIndex : block.pkts[k] = "received"}) >= block.data
    BY <2>3 DEF Filled, CountsPackets, Held, Received, DataRange, ECRange
  <2> QED
    BY <2>1, <2>2, <2>3 DEF Counted, block
<1> QED
  BY InitCountInv, <1>1, <1>2, PTL DEF Spec, CountInv

\* A complete block has its next packet to output: the output loop does not
\* stop at it.
LEMMA CompleteIsReady ==
  ASSUME CountInv, Count(buf) > 1, IsComplete(Bottom(buf))
  PROVE  NextPacketReady
<1>1. /\ buf \in BufferType /\ ~ buf.empty /\ RingOK(buf)
      /\ BottomBlk(buf) <= TopBlk(buf) /\ BottomBlk(buf) \in Nat /\ TopBlk(buf) \in Nat
      /\ buf.bottom \in Slot /\ buf.bottomPkt \in Nat
  BY CountedBuffer, BlockNumbers DEF CountInv, RequestInv, Inv, TypeOK, BufferType
<1>2. Ahead(buf.bottom, 0) = buf.bottom /\ 0 \in 0 .. TopBlk(buf) - BottomBlk(buf)
  BY <1>1, BufferAssumption DEF Ahead, Slot
<1>3. Bottom(buf).seen
  BY <1>1, <1>2 DEF RingOK, FromBottom, Bottom
<1>4. Counted(Bottom(buf)) /\ ~ Fresh(Bottom(buf))
  BY <1>1 DEF CountInv, CountedBlocks, Bottom, IsComplete, Fresh
<1>5. PICK s \in Schemes : Filled(Bottom(buf), s)
  BY <1>4 DEF Counted
<1>6. Held(Bottom(buf), DataRange(s)) = DataRange(s)
  <2>1. /\ Cardinality(Held(Bottom(buf), DataRange(s))) \in Nat
        /\ Cardinality(Held(Bottom(buf), DataRange(s))) <= s.data
        /\ Cardinality(Held(Bottom(buf), DataRange(s))) = s.data =>
             Held(Bottom(buf), DataRange(s)) = DataRange(s)
    BY SchemeFacts, HeldFinite
  <2>2. Cardinality(Held(Bottom(buf), DataRange(s))) >= s.data
    BY <1>5 DEF IsComplete, Filled, CountsPackets
  <2> QED
    BY <2>1, <2>2, SchemeFacts
<1>7. buf.bottomPkt \in DataRange(s)
  BY <1>1, <1>5, SchemeFacts DEF CountInv, BottomInBlock, Filled, DataRange
<1> QED
  BY <1>3, <1>6, <1>7 DEF NextPacketReady, Held

\* With retransmissions off the output loop leaves at most one block behind.
THEOREM SkippingCorrect ==
  ASSUME OneSchemePerBlock
  PROVE  Spec => SkippingHoldsNothingBack
<1>1. CountInv /\ [Next]_vars => CountInv'
  BY NextKeepsCountInv
<1>2. ASSUME CountInv, [Next]_vars, pc = "skip", pc' = "idle"
      PROVE  Count(buf) <= 1
  <2>1. OutputDone
    BY <1>2 DEF Next, vars, OutputLoop, ReceivePacket, ReceiveRestart, ReceiveRetransmission,
                OutputPacket, DiscardIncomplete, CheckMissing, DiscardOldBlock, CheckDone,
                NoVideoTimeout, RequestMissing, FullReset, LengthyOperation,
                PauseProcessing, ResumeProcessing
  <2>2. Count(buf) \in Nat
    BY <1>2, BlockNumbers DEF CountInv, RequestInv, Inv, TypeOK, Count
  <2>3. SUFFICES ASSUME Count(buf) > 1
                 PROVE  FALSE
    BY <2>2
  <2>4. ~ BottomIsDiscardable(buf) /\ ~ NextPacketReady
    BY <1>2, <2>1, <2>3 DEF OutputDone
  <2>5. /\ ~ buf.empty /\ BottomBlk(buf) \in Nat /\ TopBlk(buf) \in Nat
        /\ Count(buf) = TopBlk(buf) - BottomBlk(buf) + 1
    BY <1>2, <2>3, CountedBuffer, BlockNumbers DEF CountInv, RequestInv, Inv, TypeOK
  <2>6. IsComplete(Bottom(buf))
    BY <2>3, <2>4, <2>5 DEF BottomIsDiscardable
  <2> QED
    BY <1>2, <2>3, <2>4, <2>6, CompleteIsReady
<1>3. CountInv /\ [Next]_vars => [pc = "skip" /\ pc' = "idle" => Count(buf) <= 1]_vars
  BY <1>2
<1> QED
  BY InitCountInv, <1>1, <1>3, PTL DEF Spec, SkippingHoldsNothingBack
(***************************************************************************)
(* How many packets are asked for.                                         *)
(***************************************************************************)
\* A non-empty set of numbers has a least one.
LEMMA LeastNumber ==
  ASSUME NEW T, T \subseteq Nat, T # {}
  PROVE  \E x \in T : \A y \in Nat : y < x => y \notin T
<1> DEFINE Initials == {0 .. x : x \in T}
           Below == StrictSubsetOrdering(Nat)
<1>1. Initials \subseteq FiniteSubsetsOf(Nat) /\ Initials # {}
  <2> SUFFICES ASSUME NEW x \in T PROVE 0 .. x \in FiniteSubsetsOf(Nat)
    OBVIOUS
  <2>1. IsFiniteSet(0 .. x)
    BY FS_Interval, x \in Nat
  <2> QED
    BY <2>1, x \in Nat DEF FiniteSubsetsOf
<1>2. PICK X \in Initials : \A Y \in Initials : ~ (<<Y, X>> \in Below)
  <2> HIDE DEF Initials, Below
  <2>1. IsWellFoundedOn(Below, FiniteSubsetsOf(Nat))
    BY FS_StrictSubsetOrderingWellFounded DEF Below
  <2> QED
    BY <1>1, <2>1, WFMin
<1>3. PICK x \in T : X = 0 .. x
  OBVIOUS
<1>4. ASSUME NEW y \in Nat, y < x, y \in T
      PROVE  FALSE
  <2>1. 0 .. y \subseteq 0 .. x /\ 0 .. y # 0 .. x /\ 0 .. y \subseteq Nat /\ 0 .. x \subseteq Nat
    BY <1>4, x \in Nat
  <2>2. <<0 .. y, 0 .. x>> \in Below
    BY <2>1 DEF StrictSubsetOrdering
  <2> QED
    BY <1>2, <1>3, <1>4, <2>2
<1> QED
  BY <1>4

\* The elements with less than n below them are at least n.
LEMMA FirstOfSet ==
  ASSUME NEW S \in SUBSET Nat, IsFiniteSet(S), NEW n \in Nat, n <= Cardinality(S),
         NEW F \in SUBSET S,
         \A k \in S : k \in F <=> Cardinality({j \in S : j < k}) < n
  PROVE  Cardinality(F) >= n
<1>1. F \in SUBSET S /\ IsFiniteSet(F) /\ Cardinality(F) \in Nat /\ Cardinality(S) \in Nat
  BY FS_Subset, FS_CardinalityType
<1> SUFFICES ASSUME Cardinality(F) < n
             PROVE  FALSE
  BY <1>1
<1>2. S \ F # {}
  <2>1. F # S
    BY <1>1
  <2> QED
    BY <2>1
<1>3. PICK m \in S \ F : \A y \in Nat : y < m => y \notin S \ F
  BY <1>2, LeastNumber
<1>4. {j \in S : j < m} \in SUBSET F
  BY <1>3
<1>5. /\ Cardinality({j \in S : j < m}) <= Cardinality(F)
      /\ Cardinality({j \in S : j < m}) \in Nat
  BY <1>1, <1>4, FS_Subset, FS_CardinalityType
<1>6. Cardinality({j \in S : j < m}) < n
  BY <1>1, <1>5
<1> QED
  BY <1>3, <1>6

\* The union of finitely many finite sets, given as a function.
LEMMA UnionFinite ==
  ASSUME NEW T, IsFiniteSet(T), NEW f, \A d \in T : IsFiniteSet(f[d])
  PROVE  IsFiniteSet(UNION {f[d] : d \in T})
<1> DEFINE Sets == {f[d] : d \in T}
           g    == [d \in T |-> f[d]]
<1>1. g \in Surjection(T, Sets)
  BY DEF Surjection
<1>2. IsFiniteSet(Sets)
  <2> HIDE DEF g, Sets
  <2> QED
    BY <1>1, FS_Surjection
<1>3. \A S \in Sets : IsFiniteSet(S)
  OBVIOUS
<1> QED
  BY <1>2, <1>3, FS_UNION

LEMMA MissingFacts ==
  ASSUME NEW block \in BlockType
  PROVE  /\ Missing(block) \in SUBSET Nat /\ IsFiniteSet(Missing(block))
         /\ Cardinality(Missing(block)) \in Nat
<1>1. block.data \in Nat
  BY DEF BlockType
<1>2. IsFiniteSet(0 .. block.data - 1)
  BY <1>1, FS_Interval
<1>3. Missing(block) \in SUBSET (0 .. block.data - 1) /\ Missing(block) \in SUBSET Nat
  BY <1>1 DEF Missing
<1> QED
  BY <1>2, <1>3, FS_Subset, FS_CardinalityType

\* One entry for each of the first n missing packets.
LEMMA FirstMissingCount ==
  ASSUME NEW block \in BlockType, NEW n
  PROVE  /\ IsFiniteSet(FirstMissing(block, n))
         /\ n \in Nat /\ n <= Cardinality(Missing(block)) =>
              Cardinality(FirstMissing(block, n)) >= n
<1> DEFINE F == {k \in Missing(block) : Cardinality({j \in Missing(block) : j < k}) < n}
           entry == [k \in F |-> [blk |-> block.index, idx |-> k]]
<1>1. IsFiniteSet(F)
  <2>1. F \in SUBSET Missing(block)
    OBVIOUS
  <2> HIDE DEF F
  <2> QED
    BY <2>1, MissingFacts, FS_Subset
<1>2. FirstMissing(block, n) = {[blk |-> block.index, idx |-> k] : k \in F}
  BY DEF FirstMissing
<1> HIDE DEF F
<1>3. /\ entry \in [F -> FirstMissing(block, n)]
      /\ \A w \in FirstMissing(block, n) : \E k \in F : entry[k] = w
  BY <1>2
<1>4. \A k, l \in F : entry[k] = entry[l] => k = l
  OBVIOUS
<1>5. entry \in Surjection(F, FirstMissing(block, n))
  BY <1>3 DEF Surjection
<1>6. entry \in Injection(F, FirstMissing(block, n))
  <2>1. DOMAIN entry = F
    OBVIOUS
  <2> HIDE DEF entry
  <2> QED
    BY <1>3, <1>4, <2>1 DEF Injection, IsInjective
<1>7. IsFiniteSet(FirstMissing(block, n))
  <2> HIDE DEF entry
  <2> QED
    BY <1>1, <1>5, FS_Surjection
<1>8. Cardinality(F) <= Cardinality(FirstMissing(block, n))
  <2> HIDE DEF entry
  <2> QED
    BY <1>6, <1>7, FS_Injection
<1>9. ASSUME n \in Nat, n <= Cardinality(Missing(block))
      PROVE  Cardinality(FirstMissing(block, n)) >= n
  <2>1. Cardinality(F) >= n
    BY <1>9, MissingFacts, FirstOfSet DEF F
  <2>2. Cardinality(F) \in Nat /\ Cardinality(FirstMissing(block, n)) \in Nat
    BY <1>1, <1>7, FS_CardinalityType
  <2> QED
    BY <1>8, <1>9, <2>1, <2>2
<1> QED
  BY <1>7, <1>9

\* How many packets WantedOf asks of a block received in part.
Room(count) == IF count + 1 > RequestCap THEN 1 ELSE RequestCap - count
Ask(block, count) == IF Lacking(block) < Room(count) THEN Lacking(block) ELSE Room(count)

Settled(block) == NothingReceived(block) \/ Lacking(block) <= 0

LEMMA LackingFacts ==
  ASSUME NEW block, Counted(block)
  PROVE  /\ Lacking(block) \in Int /\ block.data \in Nat
         /\ block.recvData \in Nat /\ block.recvEC \in Nat
         /\ ~ NothingReceived(block) => Lacking(block) <= Cardinality(Missing(block))
<1>1. /\ block \in BlockType /\ block.data \in Nat /\ block.recvData \in Nat
      /\ block.recvEC \in Nat /\ Lacking(block) \in Int
  BY DEF Counted, BlockType, Lacking
<1>2. ASSUME ~ NothingReceived(block)
      PROVE  Lacking(block) <= Cardinality(Missing(block))
  <2>1. PICK s \in Schemes : Filled(block, s)
    BY <1>2 DEF Counted, Fresh, NothingReceived
  <2> DEFINE D == DataRange(s)
  <2>2. Missing(block) = D \ Held(block, D) /\ D \cap Held(block, D) = Held(block, D)
    BY <2>1 DEF Missing, Held, DataRange, Filled
  <2>3. IsFiniteSet(D) /\ Cardinality(D) = block.data
    BY <2>1, SchemeFacts DEF Filled
  <2>4. Cardinality(D \ Held(block, D)) = block.data - Cardinality(Held(block, D))
    BY <2>2, <2>3, FS_Difference
  <2>5. Cardinality(Held(block, D)) = block.recvData
    BY <2>1 DEF Filled, CountsPackets
  <2> QED
    BY <1>1, <2>2, <2>4, <2>5 DEF Lacking
<1> QED
  BY <1>1, <1>2

LEMMA WantedOfCount ==
  ASSUME NEW block, Counted(block), NEW count \in Nat
  PROVE  /\ IsFiniteSet(WantedOf(block, count)) /\ Cardinality(WantedOf(block, count)) \in Nat
         /\ \A w \in WantedOf(block, count) : w.blk = block.index
         /\ ~ Settled(block) => /\ Ask(block, count) \in Nat
                                /\ Cardinality(WantedOf(block, count)) >= Ask(block, count)
<1>0. block \in BlockType /\ Lacking(block) \in Int /\ RequestCap \in Nat
  BY LackingFacts, ProcessorAssumption DEF Counted
<1>1. WantedOf(block, count) =
        IF NothingReceived(block) THEN {[blk |-> block.index, idx |-> WholeBlock]}
                                  ELSE FirstMissing(block, Ask(block, count))
  BY DEF WantedOf, Ask, Room
<1>2. Room(count) \in Nat /\ Room(count) >= 1
  BY <1>0 DEF Room
<1> HIDE DEF Ask
<1>3. IsFiniteSet(WantedOf(block, count))
  <2>1. IsFiniteSet({[blk |-> block.index, idx |-> WholeBlock]})
    BY FS_Singleton, Zenon
  <2>2. IsFiniteSet(FirstMissing(block, Ask(block, count)))
    BY <1>0, FirstMissingCount
  <2> QED
    BY <1>1, <2>1, <2>2
<1>4. \A w \in WantedOf(block, count) : w.blk = block.index
  <2>1. ASSUME NEW n, NEW w \in FirstMissing(block, n)
        PROVE  w.blk = block.index
    <3>1. PICK k : w = [blk |-> block.index, idx |-> k]
      BY Zenon DEF FirstMissing
    <3> QED
      BY <3>1
  <2>2. \A w \in {[blk |-> block.index, idx |-> WholeBlock]} : w.blk = block.index
    OBVIOUS
  <2> QED
    BY <1>1, <2>1, <2>2
<1>5. ASSUME ~ Settled(block)
      PROVE  /\ Ask(block, count) \in Nat
             /\ Cardinality(WantedOf(block, count)) >= Ask(block, count)
  <2>1. Ask(block, count) \in Nat /\ Ask(block, count) <= Lacking(block)
    BY <1>0, <1>2, <1>5 DEF Ask, Settled
  <2>2. Ask(block, count) <= Cardinality(Missing(block))
    BY <1>0, <1>5, <2>1, LackingFacts, MissingFacts DEF Settled
  <2> QED
    BY <1>0, <1>1, <1>5, <2>1, <2>2, FirstMissingCount DEF Settled
<1> QED
  BY <1>3, <1>4, <1>5, FS_CardinalityType

\* While the scan goes on, the cap does not shorten what is asked of a block.
LEMMA WantedOfSame ==
  ASSUME NEW block, Counted(block), NEW count \in Nat,
         Settled(block) \/ count + Lacking(block) < RequestCap
  PROVE  WantedOf(block, count) = WantedOf(block, 0)
<1>0. Lacking(block) \in Int /\ RequestCap \in Nat
  BY LackingFacts, ProcessorAssumption
<1>1. CASE NothingReceived(block)
  BY <1>1 DEF WantedOf
<1>2. CASE ~ NothingReceived(block)
  <2>1. Ask(block, count) = Lacking(block) /\ Ask(block, 0) = Lacking(block)
    BY <1>0, <1>2 DEF Ask, Room, Settled
  <2>2. \A c \in {count, 0} : WantedOf(block, c) = FirstMissing(block, Ask(block, c))
    BY <1>2 DEF WantedOf, Ask, Room
  <2> QED
    BY <2>1, <2>2
<1> QED
  BY <1>1, <1>2

(***************************************************************************)
(* The scan of the blocks, from the bottom.                                *)
(***************************************************************************)
Reached(d) == \A e \in 0 .. d - 1 : ~ ScanEndsAt(e)

\* What the blocks below the d-th ask for, each for itself.
Below(d) == UNION {WantedOf(FromBottom(buf, e), 0) : e \in 0 .. d - 1}

LEMMA BlockFacts ==
  ASSUME CountInv, Count(buf) # 0
  PROVE  /\ Count(buf) \in Nat /\ Count(buf) > 0 /\ BottomBlk(buf) \in Nat
         /\ \A d \in 0 .. Count(buf) - 1 : /\ Counted(FromBottom(buf, d))
                                           /\ FromBottom(buf, d).index = BottomBlk(buf) + d
<1>1. /\ RingOK(buf) /\ Count(buf) = TopBlk(buf) - BottomBlk(buf) + 1
      /\ Count(buf) \in 1 .. MaxBlocks - 2
      /\ BottomBlk(buf) \in Nat /\ TopBlk(buf) \in Nat /\ buf.bottom \in Slot
  BY CountedBuffer, BlockNumbers DEF CountInv, RequestInv, Inv, TypeOK, BufferType
<1>2. ASSUME NEW d \in 0 .. Count(buf) - 1
      PROVE  /\ Counted(FromBottom(buf, d))
             /\ FromBottom(buf, d).index = BottomBlk(buf) + d
  <2>1. d \in 0 .. MaxBlocks /\ d \in 0 .. TopBlk(buf) - BottomBlk(buf)
    BY <1>1, BufferAssumption
  <2>2. Ahead(buf.bottom, d) \in Slot
    BY <1>1, <2>1, SlotArithmetic
  <2> QED
    BY <1>1, <2>1, <2>2 DEF CountInv, CountedBlocks, FromBottom, RingOK
<1> QED
  BY <1>1, <1>2, BufferAssumption

LEMMA BelowFacts ==
  ASSUME CountInv, Count(buf) # 0, NEW d \in 0 .. Count(buf) - 1
  PROVE  /\ IsFiniteSet(Below(d)) /\ CountedBefore(d) = Cardinality(Below(d))
         /\ CountedBefore(d) \in Nat
         /\ \A w \in Below(d) : \E e \in 0 .. d - 1 : w.blk = BottomBlk(buf) + e
<1> DEFINE f == [e \in 0 .. d - 1 |-> WantedOf(FromBottom(buf, e), 0)]
<1>1. ASSUME NEW e \in 0 .. d - 1
      PROVE  /\ e \in 0 .. Count(buf) - 1
             /\ IsFiniteSet(WantedOf(FromBottom(buf, e), 0))
             /\ \A w \in WantedOf(FromBottom(buf, e), 0) : w.blk = BottomBlk(buf) + e
  <2>1. e \in 0 .. Count(buf) - 1
    BY BlockFacts
  <2> QED
    BY <2>1, BlockFacts, WantedOfCount
<1>2. IsFiniteSet(0 .. d - 1)
  <2>1. 0 \in Int /\ d - 1 \in Int
    BY BlockFacts
  <2> QED
    BY <2>1, FS_Interval
<1>3. \A e \in 0 .. d - 1 : IsFiniteSet(f[e])
  BY <1>1
<1>4. Below(d) = UNION {f[e] : e \in 0 .. d - 1}
  BY DEF Below
<1>5. IsFiniteSet(Below(d))
  <2> DEFINE T == 0 .. d - 1
  <2>1. IsFiniteSet(T) /\ (\A e \in T : IsFiniteSet(f[e])) /\ Below(d) = UNION {f[e] : e \in T}
    BY <1>2, <1>3, <1>4
  <2> HIDE DEF f, T
  <2> QED
    BY <2>1, UnionFinite
<1>6. CountedBefore(d) = Cardinality(Below(d))
  BY DEF CountedBefore, Below
<1>7. \A w \in Below(d) : \E e \in 0 .. d - 1 : w.blk = BottomBlk(buf) + e
  BY <1>1 DEF Below
<1> QED
  BY <1>5, <1>6, <1>7, FS_CardinalityType

\* What a reached block asks for is in the request, and so is what the
\* blocks below it ask for, which are others' packets.
LEMMA ReachedWanted ==
  ASSUME CountInv, Count(buf) # 0, NEW d \in 0 .. Count(buf) - 1, Reached(d)
  PROVE  /\ Below(d) \subseteq WantedBelowTop
         /\ d \in 0 .. Count(buf) - 2 =>
              WantedOf(FromBottom(buf, d), CountedBefore(d)) \subseteq WantedBelowTop
<1>0. Count(buf) \in Nat /\ Count(buf) > 0
  BY BlockFacts
<1>1. ASSUME NEW e \in 0 .. Count(buf) - 2, Reached(e)
      PROVE  WantedOf(FromBottom(buf, e), CountedBefore(e)) \subseteq WantedBelowTop
  BY <1>1 DEF WantedBelowTop, Reached
<1>2. ASSUME NEW e \in 0 .. d - 1
      PROVE  WantedOf(FromBottom(buf, e), 0) \subseteq WantedBelowTop
  <2>1. e \in 0 .. Count(buf) - 2 /\ e \in 0 .. Count(buf) - 1
    BY <1>0
  <2>2. Reached(e)
    BY DEF Reached
  <2>3. Counted(FromBottom(buf, e)) /\ CountedBefore(e) \in Nat /\ ~ ScanEndsAt(e)
    BY <2>1, BlockFacts, BelowFacts DEF Reached
  <2>4. Lacking(FromBottom(buf, e)) \in Int /\ RequestCap \in Nat
    BY <2>3, LackingFacts, ProcessorAssumption
  <2>5. WantedOf(FromBottom(buf, e), CountedBefore(e)) = WantedOf(FromBottom(buf, e), 0)
    BY <2>3, <2>4, WantedOfSame DEF ScanEndsAt, Settled
  <2> QED
    BY <1>1, <2>1, <2>2, <2>5
<1>3. Below(d) \subseteq WantedBelowTop
  BY <1>2 DEF Below
<1> QED
  BY <1>1, <1>3

LEMMA WantedFacts ==
  ASSUME CountInv, Count(buf) # 0
  PROVE  /\ IsFiniteSet(WantedBelowTop) /\ Cardinality(WantedBelowTop) \in Nat
         /\ \A w \in WantedBelowTop : \E d \in 0 .. Count(buf) - 2 : w.blk = BottomBlk(buf) + d
         /\ IsFiniteSet(WantedOfTop)
         /\ IsFiniteSet(Wanted) /\ Cardinality(Wanted) \in Nat
<1> DEFINE T == {d \in 0 .. Count(buf) - 2 : \A e \in 0 .. d - 1 : ~ ScanEndsAt(e)}
           f == [d \in T |-> WantedOf(FromBottom(buf, d), CountedBefore(d))]
<1>0. Count(buf) \in Nat /\ Count(buf) > 0 /\ Count(buf) - 1 \in 0 .. Count(buf) - 1
  BY BlockFacts
<1>1. ASSUME NEW d \in 0 .. Count(buf) - 2
      PROVE  /\ IsFiniteSet(WantedOf(FromBottom(buf, d), CountedBefore(d)))
             /\ \A w \in WantedOf(FromBottom(buf, d), CountedBefore(d)) :
                  w.blk = BottomBlk(buf) + d
  <2>1. d \in 0 .. Count(buf) - 1
    BY <1>0
  <2> QED
    BY <2>1, BlockFacts, BelowFacts, WantedOfCount
<1>2. IsFiniteSet(T)
  <2>1. 0 \in Int /\ Count(buf) - 2 \in Int
    BY <1>0
  <2>2. IsFiniteSet(0 .. Count(buf) - 2) /\ T \in SUBSET (0 .. Count(buf) - 2)
    BY <2>1, FS_Interval
  <2> HIDE DEF T
  <2> QED
    BY <2>2, FS_Subset
<1>3. \A d \in T : d \in 0 .. Count(buf) - 2
  OBVIOUS
<1>4. WantedBelowTop = UNION {WantedOf(FromBottom(buf, d), CountedBefore(d)) : d \in T}
  BY DEF WantedBelowTop
<1> HIDE DEF T
<1>5. /\ WantedBelowTop = UNION {f[d] : d \in T}
      /\ \A d \in T : IsFiniteSet(f[d])
  BY <1>1, <1>3, <1>4
<1>6. IsFiniteSet(WantedBelowTop)
  <2> HIDE DEF f
  <2> QED
    BY <1>2, <1>5, UnionFinite
<1>7. \A w \in WantedBelowTop : \E d \in 0 .. Count(buf) - 2 : w.blk = BottomBlk(buf) + d
  BY <1>1, <1>3, <1>4
<1>8. Cardinality(WantedBelowTop) \in Nat
  BY <1>6, FS_CardinalityType
<1>9. IsFiniteSet(WantedOfTop)
  <2>1. IsFiniteSet(WantedOf(FromBottom(buf, Count(buf) - 1), Cardinality(WantedBelowTop)))
    BY <1>0, <1>8, BlockFacts, WantedOfCount
  <2> QED
    BY <2>1, FS_EmptySet DEF WantedOfTop
<1>10. IsFiniteSet(Wanted)
  BY <1>6, <1>9, FS_Union DEF Wanted
<1> QED
  BY <1>6, <1>7, <1>8, <1>9, <1>10, FS_CardinalityType

\* Two separate parts of the request are not more than the whole.
LEMMA PartsFit ==
  ASSUME CountInv, Count(buf) # 0, NEW A, NEW B, A \subseteq Wanted, B \subseteq Wanted,
         A \cap B = {}
  PROVE  /\ Cardinality(A) \in Nat /\ Cardinality(B) \in Nat
         /\ Cardinality(A) + Cardinality(B) <= Cardinality(Wanted)
<1>1. IsFiniteSet(Wanted) /\ Cardinality(Wanted) \in Nat
  BY WantedFacts
<1>2. IsFiniteSet(A) /\ IsFiniteSet(B)
  BY <1>1, FS_Subset
<1>3. Cardinality(A) \in Nat /\ Cardinality(B) \in Nat
  BY <1>2, FS_CardinalityType
<1>4. Cardinality(A \cup B) = Cardinality(A) + Cardinality(B) - Cardinality({})
  BY <1>2, FS_Union
<1>5. Cardinality(A \cup B) <= Cardinality(Wanted)
  BY <1>1, FS_Subset
<1> QED
  BY <1>3, <1>4, <1>5, FS_EmptySet

LEMMA ReachedFits ==
  ASSUME CountInv, Count(buf) # 0, NEW d \in 0 .. Count(buf) - 2, Reached(d)
  PROVE  /\ CountedBefore(d) \in Nat
         /\ CountedBefore(d) + Cardinality(WantedOf(FromBottom(buf, d), CountedBefore(d)))
              <= Cardinality(Wanted)
<1> DEFINE A == Below(d)
           B == WantedOf(FromBottom(buf, d), CountedBefore(d))
<1>1. d \in 0 .. Count(buf) - 1 /\ BottomBlk(buf) \in Nat /\ Count(buf) \in Nat
  BY BlockFacts
<1>2. A \subseteq Wanted /\ B \subseteq Wanted
  BY <1>1, ReachedWanted DEF Wanted
<1>3. CountedBefore(d) = Cardinality(A) /\ CountedBefore(d) \in Nat
  BY <1>1, BelowFacts
<1>4. \A w \in A : w.blk # BottomBlk(buf) + d
  BY <1>1, BelowFacts
<1>5. \A w \in B : w.blk = BottomBlk(buf) + d
  BY <1>1, <1>3, BlockFacts, WantedOfCount
<1>6. A \cap B = {}
  BY <1>4, <1>5
<1> HIDE DEF A, B
<1>7. Cardinality(A) + Cardinality(B) <= Cardinality(Wanted)
  BY <1>2, <1>6, PartsFit
<1> QED
  BY <1>3, <1>7 DEF B

\* A request that stays under the cap was not cut short by it.
LEMMA NoScanEnd ==
  ASSUME CountInv, Count(buf) # 0, Cardinality(Wanted) < RequestCap
  PROVE  \A d \in 0 .. Count(buf) - 2 : ~ ScanEndsAt(d)
<1> DEFINE Ends == {d \in 0 .. Count(buf) - 2 : ScanEndsAt(d)}
<1>0. Count(buf) \in Nat /\ RequestCap \in Nat /\ Cardinality(Wanted) \in Nat
  BY BlockFacts, WantedFacts, ProcessorAssumption
<1> SUFFICES ASSUME Ends # {}
             PROVE  FALSE
  OBVIOUS
<1>1. Ends \subseteq Nat
  BY <1>0
<1>2. PICK d \in Ends : \A y \in Nat : y < d => y \notin Ends
  <2> HIDE DEF Ends
  <2> QED
    BY <1>1, LeastNumber
<1>3. d \in 0 .. Count(buf) - 2 /\ d \in 0 .. Count(buf) - 1 /\ ScanEndsAt(d)
  BY <1>0
<1>4. Reached(d)
  BY <1>0, <1>2, <1>3 DEF Reached
<1> DEFINE block == FromBottom(buf, d)
           c == CountedBefore(d)
<1>5. c \in Nat /\ c + Cardinality(WantedOf(block, c)) <= Cardinality(Wanted)
  BY <1>3, <1>4, ReachedFits
<1>6. Counted(block) /\ Lacking(block) \in Int
  BY <1>3, BlockFacts, LackingFacts
<1>7. ~ Settled(block) /\ c + Lacking(block) >= RequestCap
  BY <1>3, <1>6 DEF ScanEndsAt, Settled
<1> HIDE DEF block, c
<1>8. /\ Ask(block, c) \in Nat /\ Cardinality(WantedOf(block, c)) \in Nat
      /\ Cardinality(WantedOf(block, c)) >= Ask(block, c)
  BY <1>5, <1>6, <1>7, WantedOfCount
<1>9. c + Ask(block, c) >= RequestCap
  BY <1>0, <1>5, <1>6, <1>7 DEF Ask, Room
<1> QED
  BY <1>0, <1>5, <1>8, <1>9

\* A request under the cap asks of every block for all that it takes.
LEMMA WantedSuffices ==
  ASSUME CountInv, Count(buf) # 0, Cardinality(Wanted) < RequestCap,
         NEW d \in 0 .. Count(buf) - 1, NEW block, block = FromBottom(buf, d),
         NEW asked, asked = {w \in Wanted : w.blk = block.index}
  PROVE  \/ [blk |-> block.index, idx |-> WholeBlock] \in asked
         \/ block.recvData + block.recvEC + Cardinality(asked) >= block.data
<1>0. /\ Count(buf) \in Nat /\ Count(buf) > 0 /\ RequestCap \in Nat
      /\ Cardinality(Wanted) \in Nat /\ BottomBlk(buf) \in Nat
  BY BlockFacts, WantedFacts, ProcessorAssumption
<1>1. /\ Counted(block) /\ block.index = BottomBlk(buf) + d
      /\ Lacking(block) \in Int /\ block.data \in Nat
      /\ block.recvData \in Nat /\ block.recvEC \in Nat
  BY BlockFacts, LackingFacts
<1>2. IsFiniteSet(asked) /\ Cardinality(asked) \in Nat
  <2>1. asked \in SUBSET Wanted
    OBVIOUS
  <2> QED
    BY <2>1, WantedFacts, FS_Subset, FS_CardinalityType
<1>3. CASE Lacking(block) <= 0
  BY <1>1, <1>2, <1>3 DEF Lacking
\* What was counted before the block, and what is then asked of it.
<1>4. ASSUME NEW c \in Nat, WantedOf(block, c) \subseteq Wanted, Lacking(block) > 0,
             c + Cardinality(WantedOf(block, c)) <= Cardinality(Wanted)
      PROVE  \/ [blk |-> block.index, idx |-> WholeBlock] \in asked
             \/ block.recvData + block.recvEC + Cardinality(asked) >= block.data
  <2>1. WantedOf(block, c) \in SUBSET asked
    BY <1>1, <1>4, WantedOfCount
  <2>2. CASE NothingReceived(block)
    BY <2>1, <2>2 DEF WantedOf
  <2>3. CASE ~ NothingReceived(block)
    <3>1. ~ Settled(block)
      BY <1>1, <1>4, <2>3 DEF Settled
    <3>2. /\ Ask(block, c) \in Nat /\ Cardinality(WantedOf(block, c)) \in Nat
          /\ Cardinality(WantedOf(block, c)) >= Ask(block, c)
      BY <1>1, <3>1, WantedOfCount
    <3>3. c + Ask(block, c) < RequestCap
      BY <1>0, <1>4, <3>2
    <3>4. Ask(block, c) = Lacking(block)
      BY <1>0, <1>1, <3>3 DEF Ask, Room
    <3>5. Cardinality(WantedOf(block, c)) <= Cardinality(asked)
      BY <1>2, <2>1, FS_Subset
    <3> QED
      BY <1>1, <1>2, <3>2, <3>4, <3>5 DEF Lacking
  <2> QED
    BY <2>2, <2>3
<1>5. CASE Lacking(block) > 0 /\ d \in 0 .. Count(buf) - 2
  <2>1. Reached(d)
    <3>1. \A e \in 0 .. d - 1 : e \in 0 .. Count(buf) - 2
      BY <1>0
    <3> QED
      BY <3>1, NoScanEnd DEF Reached
  <2>2. WantedOf(block, CountedBefore(d)) \subseteq Wanted
    BY <1>5, <2>1, ReachedWanted DEF Wanted
  <2> QED
    BY <1>4, <1>5, <2>1, <2>2, ReachedFits
<1>6. CASE Lacking(block) > 0 /\ d = Count(buf) - 1
  <2> DEFINE c == Cardinality(WantedBelowTop)
  <2>1. block.data # 0 /\ block.maxIdx >= 0
    <3>1. ~ Fresh(block)
      BY <1>6 DEF Fresh, Lacking
    <3> QED
      BY <1>1, <3>1, SchemeFacts DEF Counted, Filled
  <2>2. WantedOfTop = WantedOf(block, c)
    BY <1>6, <2>1 DEF WantedOfTop
  <2>3. c \in Nat
    BY WantedFacts
  <2>4. WantedOf(block, c) \subseteq Wanted /\ WantedBelowTop \subseteq Wanted
    BY <2>2 DEF Wanted
  <2>5. WantedBelowTop \cap WantedOf(block, c) = {}
    <3>1. \A w \in WantedOf(block, c) : w.blk = BottomBlk(buf) + (Count(buf) - 1)
      BY <1>1, <1>6, <2>3, WantedOfCount
    <3>2. \A w \in WantedBelowTop : w.blk # BottomBlk(buf) + (Count(buf) - 1)
      BY <1>0, WantedFacts
    <3> QED
      BY <3>1, <3>2
  <2>6. c + Cardinality(WantedOf(block, c)) <= Cardinality(Wanted)
    BY <2>4, <2>5, PartsFit
  <2> QED
    BY <1>4, <1>6, <2>3, <2>4, <2>6
<1> QED
  BY <1>0, <1>1, <1>3, <1>5, <1>6

\* When every block has one scheme, a request under the cap that is answered in full
\* completes every block in the buffer.
THEOREM SufficeCorrect ==
  ASSUME OneSchemePerBlock
  PROVE  Spec => RequestsSuffice
<1> DEFINE Suffices ==
      requests' # requests /\ Cardinality(Requested) < RequestCap =>
        \A d \in 0 .. Count(buf) - 1 :
          LET block == FromBottom(buf, d)
              asked == {w \in Requested : w.blk = block.index}
          IN  \/ [blk |-> block.index, idx |-> WholeBlock] \in asked
              \/ block.recvData + block.recvEC + Cardinality(asked) >= block.data
<1>1. CountInv /\ [Next]_vars => CountInv'
  BY NextKeepsCountInv
<1>2. ASSUME CountInv, [Next]_vars, requests' # requests
      PROVE  Suffices
  <2>1. RequestMissing
    BY <1>2 DEF Next, vars, OutputLoop, ReceivePacket, ReceiveRestart, ReceiveRetransmission,
                OutputPacket, DiscardIncomplete, OutputDone, CheckMissing, DiscardOldBlock,
                CheckDone, NoVideoTimeout, FullReset, LengthyOperation,
                PauseProcessing, ResumeProcessing
  <2>2. Requested = Wanted /\ Count(buf) # 0
    BY <1>2, <2>1, RequestIsLast DEF CountInv, RequestInv, RequestMissing
  <2> QED
    BY <1>2, <2>2, WantedSuffices
<1>3. CountInv /\ [Next]_vars => [Suffices]_vars
  BY <1>2
<1> QED
  BY InitCountInv, <1>1, <1>3, PTL DEF Spec, RequestsSuffice
=============================================================================
