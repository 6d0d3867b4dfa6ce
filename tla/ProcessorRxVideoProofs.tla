----------------------- MODULE ProcessorRxVideoProofs -----------------------
(***************************************************************************)
(* Proofs about the receive buffer and the receive processor, for every    *)
(* size of the ring, every number of packets per block and every set of    *)
(* block schemes: the ring of blocks stays consistent, and the packets     *)
(* leave it in stream order.                                               *)
(***************************************************************************)
EXTENDS ProcessorRxVideo, FiniteSetTheorems, TLAPS

PacketType == [blk : Nat, idx : PacketIndex, data : Nat, ec : Nat, size : Nat]

Consistent(b) == IF b.empty THEN b = EmptyBuffer ELSE RingOK(b)

\* Every packet of a block is also there in another.
KeepsPackets(block, other) ==
  \A k \in PacketIndex : HasPacket(block, k) => HasPacket(other, k)

\* c holds the same blocks as b in the same slots, with at least their packets.
SameRing(b, c) ==
  /\ c.top = b.top /\ c.bottom = b.bottom /\ c.bottomPkt = b.bottomPkt
  /\ \A s \in Slot : /\ c.blocks[s].index = b.blocks[s].index
                     /\ b.blocks[s].seen => c.blocks[s].seen
                     /\ KeepsPackets(b.blocks[s], c.blocks[s])

(***************************************************************************)
(* Types.                                                                  *)
(***************************************************************************)
LEMMA EmptyTypes == EmptyBlock \in BlockType /\ EmptyBuffer \in BufferType
<1>1. EmptyBlock \in BlockType
  BY DEF EmptyBlock, BlockType
<1>2. 0 \in Slot
  BY BufferAssumption DEF Slot
<1> QED
  BY <1>1, <1>2 DEF EmptyBuffer, BufferType

LEMMA EmptiedBuffer ==
  ASSUME NEW b \in BufferType, Consistent(b)
  PROVE  EmptyBuffers(b) = EmptyBuffer
BY DEF Consistent, EmptyBuffers

LEMMA MissingCount ==
  ASSUME NEW block \in BlockType
  PROVE  Cardinality(Missing(block)) \in Nat
<1>1. block.data \in Nat
  BY DEF BlockType
<1>2. IsFiniteSet(0 .. block.data - 1)
  BY <1>1, FS_Interval
<1>3. Missing(block) \subseteq 0 .. block.data - 1
  BY DEF Missing
<1> QED
  BY <1>2, <1>3, FS_Subset, FS_CardinalityType

LEMMA CheckDoECType ==
  ASSUME NEW block \in BlockType
  PROVE  /\ CheckDoEC(block) \in BlockType
         /\ CheckDoEC(block).index = block.index
         /\ CheckDoEC(block).seen = block.seen
         /\ CheckDoEC(block).data = block.data
         /\ block.recvData + block.recvEC > 0 =>
              CheckDoEC(block).recvData + CheckDoEC(block).recvEC > 0
         /\ KeepsPackets(block, CheckDoEC(block))
<1>1. CASE ~ (block.recvData < block.data /\ block.ec # 0
                /\ block.recvData + block.recvEC >= block.data)
  BY <1>1 DEF CheckDoEC, KeepsPackets
<1>2. CASE block.recvData < block.data /\ block.ec # 0
             /\ block.recvData + block.recvEC >= block.data
  <2> DEFINE pkts == [k \in PacketIndex |->
                        IF k \in Missing(block) THEN "rebuilt" ELSE block.pkts[k]]
             recv == block.recvData + Cardinality(Missing(block))
             most == IF block.maxIdx < block.data - 1 THEN block.data - 1 ELSE block.maxIdx
  <2>1. CheckDoEC(block) =
          [block EXCEPT !.pkts = pkts, !.recvData = recv, !.maxIdx = most]
    BY <1>2 DEF CheckDoEC
  <2>2. pkts \in [PacketIndex -> {"empty", "received", "rebuilt"}]
    BY DEF BlockType
  <2>3. recv \in Nat
    BY MissingCount DEF BlockType
  <2>4. most \in Nat \cup {-1}
    BY DEF BlockType
  <2>5. \A k \in PacketIndex : block.pkts[k] # "empty" => pkts[k] # "empty"
    OBVIOUS
  <2>6. recv >= block.recvData
    BY MissingCount DEF BlockType
  <2> HIDE DEF pkts, recv, most
  <2>7. /\ CheckDoEC(block).pkts = pkts /\ CheckDoEC(block).recvData = recv
        /\ CheckDoEC(block).recvEC = block.recvEC /\ CheckDoEC(block).data = block.data
    BY <2>1 DEF BlockType
  <2>8. KeepsPackets(block, CheckDoEC(block))
    BY <2>5, <2>7 DEF KeepsPackets, HasPacket
  <2>9. block.recvData + block.recvEC > 0 => recv + block.recvEC > 0
    BY <2>3, <2>6 DEF BlockType
  <2> QED
    BY <2>1, <2>2, <2>3, <2>4, <2>7, <2>8, <2>9 DEF BlockType
<1> QED
  BY <1>1, <1>2

LEMMA AddToBlockType ==
  ASSUME NEW block \in BlockType, NEW p \in PacketType
  PROVE  /\ AddToBlock(block, p) \in BlockType
         /\ AddToBlock(block, p).index = p.blk
         /\ AddToBlock(block, p).seen
         /\ AddToBlock(block, p).data \in {block.data, p.data}
         /\ ~ NothingReceived(AddToBlock(block, p))
         /\ KeepsPackets(block, AddToBlock(block, p))
<1> DEFINE isData == p.idx < p.data
           scheme == SchemeFor(block, p)
           pkts   == [block.pkts EXCEPT ![p.idx] = "received"]
           got    == [index |-> p.blk, seen |-> TRUE, data |-> scheme.data,
                      ec |-> scheme.ec, size |-> p.size,
                      recvData |-> block.recvData + (IF isData THEN 1 ELSE 0),
                      recvEC   |-> block.recvEC + (IF isData THEN 0 ELSE 1),
                      maxIdx   |-> IF p.idx > block.maxIdx THEN p.idx ELSE block.maxIdx,
                      pkts     |-> pkts]
<1>1. scheme \in [data : Nat, ec : Nat]
  BY DEF SchemeFor, BlockType, PacketType
<1>2. pkts \in [PacketIndex -> {"empty", "received", "rebuilt"}]
  BY DEF BlockType, PacketType
<1>3. p.idx \in Nat
  BY BufferAssumption DEF PacketType, PacketIndex
<1>4. got \in BlockType
  <2>1. /\ scheme.data \in Nat /\ scheme.ec \in Nat
        /\ p.blk \in Nat /\ p.size \in Nat
        /\ block.recvData + (IF isData THEN 1 ELSE 0) \in Nat
        /\ block.recvEC + (IF isData THEN 0 ELSE 1) \in Nat
        /\ (IF p.idx > block.maxIdx THEN p.idx ELSE block.maxIdx) \in Nat \cup {-1}
    BY <1>1, <1>3 DEF BlockType, PacketType
  <2> HIDE DEF isData, scheme, pkts
  <2> QED
    BY <1>2, <2>1 DEF BlockType
<1>5. AddToBlock(block, p) = CheckDoEC(got)
  BY DEF AddToBlock
<1>6. /\ got.index = p.blk /\ got.seen = TRUE
      /\ got.data \in {block.data, p.data}
      /\ got.recvData + got.recvEC > 0
  BY DEF SchemeFor, BlockType
<1>7. KeepsPackets(block, got)
  BY DEF KeepsPackets, HasPacket, BlockType
<1> HIDE DEF got
<1>8. /\ AddToBlock(block, p).index = p.blk /\ AddToBlock(block, p).seen
      /\ AddToBlock(block, p) \in BlockType
      /\ AddToBlock(block, p).data \in {block.data, p.data}
  BY <1>4, <1>5, <1>6, CheckDoECType
<1>9. AddToBlock(block, p).recvData + AddToBlock(block, p).recvEC > 0
  BY <1>4, <1>5, <1>6, CheckDoECType
<1>10. KeepsPackets(block, AddToBlock(block, p))
  BY <1>4, <1>5, <1>7, CheckDoECType DEF KeepsPackets
<1> QED
  BY <1>8, <1>9, <1>10 DEF NothingReceived

(***************************************************************************)
(* The ring.                                                               *)
(***************************************************************************)
LEMMA SlotArithmetic ==
  ASSUME NEW s \in Slot, NEW d \in 0 .. MaxBlocks
  PROVE  Ahead(s, d) \in Slot /\ Back(s, d) \in Slot /\ After(s) \in Slot
BY BufferAssumption DEF Slot, Ahead, Back, After

LEMMA BlockNumbers ==
  ASSUME NEW b \in BufferType
  PROVE  BottomBlk(b) \in Nat /\ TopBlk(b) \in Nat
BY DEF BufferType, BlockType, BottomBlk, TopBlk, Bottom, Top

LEMMA SameRingKeepsRing ==
  ASSUME NEW b \in BufferType, NEW c \in BufferType, RingOK(b), SameRing(b, c)
  PROVE  RingOK(c) /\ BottomBlk(c) = BottomBlk(b) /\ TopBlk(c) = TopBlk(b)
<1>0. BottomBlk(b) \in Nat /\ TopBlk(b) \in Nat
  BY BlockNumbers
<1>1. BottomBlk(c) = BottomBlk(b) /\ TopBlk(c) = TopBlk(b)
  BY DEF SameRing, BufferType, BottomBlk, TopBlk, Bottom, Top
<1>2. ASSUME NEW i \in 0 .. TopBlk(b) - BottomBlk(b)
      PROVE  FromBottom(c, i).index = BottomBlk(c) + i /\ FromBottom(c, i).seen
  <2>1. i \in 0 .. MaxBlocks /\ b.bottom \in Slot
    BY <1>0, BufferAssumption DEF RingOK, BufferType
  <2>2. Ahead(b.bottom, i) \in Slot
    BY <2>1, SlotArithmetic
  <2> QED
    BY <1>1, <2>2 DEF RingOK, SameRing, FromBottom
<1> QED
  BY <1>1, <1>2 DEF RingOK, SameRing

\* Where block p.blk of a buffer in use sits, when it is not above the top.
LEMMA SlotOfBlock ==
  ASSUME NEW b \in BufferType, RingOK(b), NEW blk \in Nat,
         blk <= TopBlk(b), blk = TopBlk(b) \/ blk >= BottomBlk(b)
  PROVE  /\ Back(b.top, TopBlk(b) - blk) \in Slot
         /\ b.blocks[Back(b.top, TopBlk(b) - blk)].index = blk
<1> DEFINE d == TopBlk(b) - BottomBlk(b)
<1>0. b.bottom \in Slot /\ b.top \in Slot /\ BottomBlk(b) \in Nat /\ TopBlk(b) \in Nat
  BY BlockNumbers DEF BufferType
<1>1. CASE blk = TopBlk(b)
  <2>1. Back(b.top, TopBlk(b) - blk) = b.top
    BY <1>0, <1>1 DEF Back, Slot
  <2> QED
    BY <1>0, <1>1, <2>1 DEF TopBlk, Top
<1>2. CASE blk # TopBlk(b)
  <2>1. d \in 0 .. MaxBlocks - 3 /\ blk - BottomBlk(b) \in 0 .. d
    BY <1>0, <1>2 DEF RingOK
  <2>2. b.top = Ahead(b.bottom, d)
    BY <2>1 DEF RingOK
  <2>3. Back(b.top, TopBlk(b) - blk) = Ahead(b.bottom, blk - BottomBlk(b))
    <3>1. b.bottom \in Int /\ 0 <= b.bottom /\ b.bottom < MaxBlocks
      BY <1>0, BufferAssumption DEF Slot
    <3> QED
      BY <1>0, <2>1, <2>2, <3>1, BufferAssumption DEF Back, Ahead
  <2>4. FromBottom(b, blk - BottomBlk(b)).index = BottomBlk(b) + (blk - BottomBlk(b))
    BY <2>1 DEF RingOK
  <2>5. blk - BottomBlk(b) \in 0 .. MaxBlocks
    BY <1>0, <2>1, BufferAssumption
  <2>6. Ahead(b.bottom, blk - BottomBlk(b)) \in Slot
    BY <1>0, <2>5, SlotArithmetic
  <2> QED
    BY <1>0, <2>3, <2>4, <2>6 DEF FromBottom
<1> QED
  BY <1>1, <1>2

LEMMA SlotsOfRing ==
  ASSUME NEW b \in BufferType, RingOK(b)
  PROVE  /\ Count(b) \in 0 .. MaxBlocks - 2
         /\ ~ b.empty => Count(b) = TopBlk(b) - BottomBlk(b) + 1
<1>1. BottomBlk(b) \in Nat /\ TopBlk(b) \in Nat
  BY BlockNumbers
<1>2. TopBlk(b) - BottomBlk(b) \in -1 .. MaxBlocks - 3
  BY DEF RingOK
<1> QED
  BY <1>1, <1>2, BufferAssumption DEF Count

\* A packet put in the slot that has its block's number leaves the ring as
\* it is, or empties the buffer.
LEMMA AddToRing ==
  ASSUME NEW b \in BufferType, ~ b.empty, RingOK(b), NEW p \in PacketType,
         NEW s \in Slot, b.blocks[s].index = p.blk
  PROVE  LET c == AddToSlot(b, s, p)
         IN  \/ c = EmptyBuffer
             \/ c \in BufferType /\ ~ c.empty /\ RingOK(c) /\ SameRing(b, c)
<1>1. CASE Accepts(b.blocks[s], p)
  <2> DEFINE c == [b EXCEPT !.empty = FALSE,
                            !.blocks = [b.blocks EXCEPT ![s] = AddToBlock(b.blocks[s], p)]]
  <2>1. AddToSlot(b, s, p) = c
    BY <1>1 DEF AddToSlot, Accepts
  <2>2. b.blocks[s] \in BlockType
    BY DEF BufferType
  <2>3. /\ AddToBlock(b.blocks[s], p) \in BlockType
        /\ AddToBlock(b.blocks[s], p).index = p.blk
        /\ AddToBlock(b.blocks[s], p).seen
        /\ KeepsPackets(b.blocks[s], AddToBlock(b.blocks[s], p))
    BY <2>2, AddToBlockType
  <2>4. c \in BufferType /\ ~ c.empty
    BY <2>3 DEF BufferType
  <2>5. SameRing(b, c)
    BY <2>3 DEF SameRing, BufferType, KeepsPackets
  <2>6. RingOK(c)
    BY <2>4, <2>5, SameRingKeepsRing
  <2> QED
    BY <2>1, <2>4, <2>5, <2>6
<1>2. CASE HasPacket(b.blocks[s], p.idx)
  <2>1. AddToSlot(b, s, p) = b
    BY <1>2 DEF AddToSlot, Accepts
  <2> QED
    BY <2>1 DEF SameRing, KeepsPackets
<1>3. CASE ~ HasPacket(b.blocks[s], p.idx) /\ SchemeClash(b.blocks[s], p)
  BY <1>3 DEF AddToSlot, Accepts, EmptyBuffers
<1> QED
  BY <1>1, <1>2, <1>3 DEF Accepts

\* The first packet of an empty buffer starts a ring of one block.
LEMMA AddToEmpty ==
  ASSUME NEW p \in PacketType
  PROVE  LET c == AddToSlot(EmptyBuffer, 0, p)
         IN  /\ c \in BufferType /\ ~ c.empty /\ RingOK(c)
             /\ BottomBlk(c) = p.blk /\ c.bottomPkt = 0
<1> DEFINE block == AddToBlock(EmptyBlock, p)
           c     == [empty |-> FALSE, top |-> 0, bottom |-> 0, bottomPkt |-> 0,
                     blocks |-> [[s \in Slot |-> EmptyBlock] EXCEPT ![0] = block]]
<1>0. 0 \in Slot
  BY BufferAssumption DEF Slot
<1>1. EmptyBuffer.blocks[0] = EmptyBlock
  BY <1>0 DEF EmptyBuffer
<1>2. Accepts(EmptyBlock, p)
  BY DEF Accepts, EmptyBlock, HasPacket, SchemeClash, PacketType
<1>3. AddToSlot(EmptyBuffer, 0, p) = c
  <2>1. AddToSlot(EmptyBuffer, 0, p) =
          [EmptyBuffer EXCEPT !.empty = FALSE, !.blocks[0] = block]
    BY <1>1, <1>2 DEF AddToSlot
  <2> HIDE DEF block
  <2> QED
    BY <2>1 DEF EmptyBuffer
<1>4. block \in BlockType /\ block.index = p.blk /\ block.seen
  BY EmptyTypes, AddToBlockType
<1> HIDE DEF block
<1>5. c \in BufferType /\ ~ c.empty
  BY <1>0, <1>4, EmptyTypes DEF BufferType
<1>6. c.bottom = 0 /\ c.top = 0 /\ c.bottomPkt = 0 /\ c.blocks[0] = block
  BY <1>0
<1>7. BottomBlk(c) = p.blk /\ TopBlk(c) = p.blk
  BY <1>4, <1>6 DEF BottomBlk, TopBlk, Bottom, Top
<1>8. Ahead(0, 0) = 0
  BY BufferAssumption DEF Ahead
<1>9. RingOK(c)
  <2>1. p.blk - p.blk = 0 /\ p.blk + 0 = p.blk
    BY DEF PacketType
  <2> HIDE DEF c
  <2> QED
    BY <1>4, <1>6, <1>7, <1>8, <2>1, BufferAssumption DEF RingOK, FromBottom
<1> HIDE DEF c
<1> QED
  BY <1>3, <1>5, <1>6, <1>7, <1>9

\* Opening the slots up to a newer block, when the gap is not too large.
LEMMA ExtendRing ==
  ASSUME NEW b \in BufferType, ~ b.empty, RingOK(b), NEW blk \in Nat,
         blk > TopBlk(b), blk - TopBlk(b) < MaxBlocks - Count(b) - 1
  PROVE  LET c == Extended(b, blk)
         IN  /\ c \in BufferType /\ ~ c.empty /\ RingOK(c)
             /\ c.bottom = b.bottom /\ c.bottomPkt = b.bottomPkt
             /\ BottomBlk(c) = BottomBlk(b) /\ TopBlk(c) = blk
             /\ BottomBlk(b) <= TopBlk(b) => Bottom(c) = Bottom(b)
<1> DEFINE gap == blk - TopBlk(b)
           d   == TopBlk(b) - BottomBlk(b)
           Distance(s) == IF s > b.top THEN s - b.top ELSE s - b.top + MaxBlocks
           opened(s)   == [EmptyBlock EXCEPT !.index = TopBlk(b) + Distance(s), !.seen = TRUE]
           blocks == [s \in Slot |-> IF Distance(s) <= gap THEN opened(s) ELSE b.blocks[s]]
           c == [b EXCEPT !.top = Ahead(b.top, gap), !.blocks = blocks]
<1>1. Extended(b, blk) = c
  BY DEF Extended
<1>2. /\ BottomBlk(b) \in Nat /\ TopBlk(b) \in Nat
      /\ b.top \in Slot /\ b.bottom \in Slot
  BY BlockNumbers DEF BufferType
<1>3. d \in -1 .. MaxBlocks - 3 /\ gap \in 1 .. MaxBlocks - d - 3
  BY <1>2, SlotsOfRing, BufferAssumption DEF RingOK
<1>4. /\ b.top = IF d = -1 THEN Back(b.bottom, 1) ELSE Ahead(b.bottom, d)
      /\ \A i \in 0 .. d : /\ FromBottom(b, i).index = BottomBlk(b) + i
                           /\ FromBottom(b, i).seen
  BY DEF RingOK
<1>5. /\ b.bottom \in Int /\ 0 <= b.bottom /\ b.bottom < MaxBlocks
      /\ b.top \in Int /\ 0 <= b.top /\ b.top < MaxBlocks
  BY <1>2, BufferAssumption DEF Slot
<1>6. ASSUME NEW i \in 0 .. d
      PROVE  /\ Ahead(b.bottom, i) \in Slot
             /\ ~ (Distance(Ahead(b.bottom, i)) <= gap)
  BY <1>3, <1>4, <1>5, BufferAssumption DEF Ahead, Slot
<1>7. ASSUME NEW i \in d + 1 .. d + gap
      PROVE  /\ i \in 0 .. MaxBlocks
             /\ Ahead(b.bottom, i) \in Slot
             /\ Distance(Ahead(b.bottom, i)) = i - d
  BY <1>3, <1>4, <1>5, BufferAssumption DEF Ahead, Back, Slot
<1>8. Ahead(b.top, gap) = Ahead(b.bottom, d + gap)
  BY <1>3, <1>4, <1>5, BufferAssumption DEF Ahead, Back
<1>9. \A s \in Slot : Distance(s) \in Nat /\ opened(s) \in BlockType
                     /\ opened(s).index = TopBlk(b) + Distance(s) /\ opened(s).seen
  <2> SUFFICES ASSUME NEW s \in Slot
               PROVE  Distance(s) \in Nat /\ opened(s) \in BlockType
                     /\ opened(s).index = TopBlk(b) + Distance(s) /\ opened(s).seen
    OBVIOUS
  <2>1. Distance(s) \in Nat
    BY <1>5, BufferAssumption DEF Slot
  <2> HIDE DEF Distance
  <2>2. TopBlk(b) + Distance(s) \in Nat
    BY <1>2, <2>1
  <2> QED
    BY <2>1, <2>2, EmptyTypes DEF BlockType, EmptyBlock
<1>10. b.blocks \in [Slot -> BlockType]
  BY DEF BufferType
<1> HIDE DEF Distance, opened
<1>11. blocks \in [Slot -> BlockType]
  BY <1>9, <1>10
<1>12. \A i \in 0 .. d : blocks[Ahead(b.bottom, i)] = b.blocks[Ahead(b.bottom, i)]
  BY <1>6
<1>13. ASSUME NEW i \in d + 1 .. d + gap
       PROVE  /\ blocks[Ahead(b.bottom, i)].index = BottomBlk(b) + i
              /\ blocks[Ahead(b.bottom, i)].seen
  <2>1. i - d <= gap /\ TopBlk(b) + (i - d) = BottomBlk(b) + i
    BY <1>2, <1>3
  <2> QED
    BY <1>7, <1>9, <2>1
<1> HIDE DEF blocks
<1>14. ASSUME NEW i \in 0 .. d + gap
       PROVE  /\ blocks[Ahead(b.bottom, i)].index = BottomBlk(b) + i
              /\ blocks[Ahead(b.bottom, i)].seen
  <2>1. i \in 0 .. d \/ i \in d + 1 .. d + gap
    BY <1>3
  <2> QED
    BY <1>4, <1>12, <1>13, <2>1 DEF FromBottom
<1>15. Ahead(b.top, gap) \in Slot
  BY <1>3, <1>7, <1>8
<1>16. /\ c.empty = b.empty /\ c.bottom = b.bottom /\ c.bottomPkt = b.bottomPkt
       /\ c.top = Ahead(b.top, gap) /\ c.blocks = blocks
       /\ c \in BufferType
  BY <1>11, <1>15 DEF BufferType
<1> HIDE DEF c
<1>17. Ahead(b.bottom, 0) = b.bottom /\ 0 \in 0 .. d + gap /\ d + gap \in 0 .. d + gap
  BY <1>3, <1>5, BufferAssumption DEF Ahead
<1>18. BottomBlk(c) = BottomBlk(b)
  BY <1>2, <1>14, <1>16, <1>17 DEF BottomBlk, Bottom
<1>19. TopBlk(c) = blk
  BY <1>2, <1>8, <1>14, <1>16, <1>17 DEF TopBlk, Top
<1>20. blk - BottomBlk(b) = d + gap /\ d + gap \in -1 .. MaxBlocks - 3 /\ d + gap # -1
  BY <1>2, <1>3, BufferAssumption
<1>21. RingOK(c)
  BY <1>8, <1>14, <1>16, <1>18, <1>19, <1>20 DEF RingOK, FromBottom
<1>22. BottomBlk(b) <= TopBlk(b) => Bottom(c) = Bottom(b)
  BY <1>2, <1>12, <1>16, <1>17 DEF Bottom
<1> QED
  BY <1>1, <1>16, <1>18, <1>19, <1>21, <1>22

\* Giving up the bottom block of a ring that is not drained.
LEMMA DropFromRing ==
  ASSUME NEW b \in BufferType, ~ b.empty, RingOK(b), BottomBlk(b) <= TopBlk(b)
  PROVE  LET c == DropBottom(b)
         IN  /\ c \in BufferType /\ ~ c.empty /\ RingOK(c)
             /\ BottomBlk(c) = BottomBlk(b) + 1 /\ c.bottomPkt = 0
<1> DEFINE d    == TopBlk(b) - BottomBlk(b)
           next == After(b.bottom)
           gone == [EmptyBlock EXCEPT !.index = IF b.bottom = b.top THEN BottomBlk(b) ELSE 0]
           mid  == [b.blocks EXCEPT ![b.bottom] = gone]
           first == [mid[next] EXCEPT !.index = BottomBlk(b) + 1]
           blocks == [mid EXCEPT ![next] = first]
           c == [b EXCEPT !.bottom = next, !.bottomPkt = 0, !.blocks = blocks]
<1>1. DropBottom(b) = c
  BY DEF DropBottom
<1>2. /\ BottomBlk(b) \in Nat /\ TopBlk(b) \in Nat
      /\ b.top \in Slot /\ b.bottom \in Slot /\ b.blocks \in [Slot -> BlockType]
  BY BlockNumbers DEF BufferType
<1>3. d \in 0 .. MaxBlocks - 3
  BY <1>2 DEF RingOK
<1>4. /\ b.top = Ahead(b.bottom, d)
      /\ \A i \in 0 .. d : /\ FromBottom(b, i).index = BottomBlk(b) + i
                           /\ FromBottom(b, i).seen
  BY <1>3 DEF RingOK
<1>5. /\ b.bottom \in Int /\ 0 <= b.bottom /\ b.bottom < MaxBlocks
  BY <1>2, BufferAssumption DEF Slot
<1>6. next \in Slot /\ next # b.bottom
  BY <1>5, BufferAssumption DEF After, Slot
<1>7. gone \in BlockType /\ (b.bottom = b.top => gone.index = BottomBlk(b))
  BY <1>2, EmptyTypes DEF BlockType, EmptyBlock
<1> HIDE DEF gone
<1>8. mid \in [Slot -> BlockType] /\ mid[next] = b.blocks[next]
  BY <1>2, <1>6, <1>7
<1>9. /\ first \in BlockType /\ first.index = BottomBlk(b) + 1
      /\ first.seen = b.blocks[next].seen
  BY <1>2, <1>6, <1>8 DEF BlockType
<1> HIDE DEF first
<1>10. /\ blocks \in [Slot -> BlockType] /\ blocks[next] = first
       /\ blocks[b.bottom] = gone
       /\ \A s \in Slot : s # next /\ s # b.bottom => blocks[s] = b.blocks[s]
  BY <1>2, <1>6, <1>7, <1>8, <1>9
<1> HIDE DEF mid, blocks
<1>11. /\ c.empty = b.empty /\ c.bottom = next /\ c.bottomPkt = 0
       /\ c.top = b.top /\ c.blocks = blocks /\ c \in BufferType
  BY <1>6, <1>10 DEF BufferType
<1> HIDE DEF c
<1>12. BottomBlk(c) = BottomBlk(b) + 1
  BY <1>9, <1>10, <1>11 DEF BottomBlk, Bottom
<1>13. CASE d = 0
  <2>1. b.top = b.bottom /\ b.top = Back(next, 1)
    BY <1>4, <1>5, <1>13, BufferAssumption DEF Ahead, Back, After
  <2>2. TopBlk(c) = BottomBlk(b)
    BY <1>7, <1>10, <1>11, <2>1 DEF TopBlk, Top
  <2>3. TopBlk(c) - BottomBlk(c) = -1 /\ -1 \in -1 .. MaxBlocks - 3
    BY <1>2, <1>12, <2>2, BufferAssumption
  <2>4. RingOK(c)
    BY <1>11, <2>1, <2>3 DEF RingOK
  <2> QED
    BY <1>1, <1>11, <1>12, <2>4
<1>14. CASE d # 0
  <2>1. ASSUME NEW i \in 0 .. d - 1
        PROVE  /\ Ahead(next, i) = Ahead(b.bottom, i + 1)
               /\ Ahead(next, i) \in Slot /\ Ahead(next, i) # b.bottom
               /\ i + 1 \in 0 .. d /\ (Ahead(next, i) = next => i = 0)
    BY <1>3, <1>5, BufferAssumption DEF Ahead, After, Slot
  <2>2. b.top = Ahead(next, d - 1) /\ d - 1 \in 0 .. d - 1
    BY <1>3, <1>4, <1>14, <2>1
  <2>3. ASSUME NEW i \in 0 .. d - 1
        PROVE  /\ blocks[Ahead(next, i)].index = BottomBlk(b) + 1 + i
               /\ blocks[Ahead(next, i)].seen
    <3>1. /\ b.blocks[Ahead(next, i)].index = BottomBlk(b) + (i + 1)
          /\ b.blocks[Ahead(next, i)].seen
      BY <1>4, <2>1 DEF FromBottom
    <3>2. CASE Ahead(next, i) = next
      BY <1>2, <1>9, <1>10, <2>1, <3>1, <3>2
    <3>3. CASE Ahead(next, i) # next
      BY <1>2, <1>10, <2>1, <3>1, <3>3
    <3> QED
      BY <3>2, <3>3
  <2>4. TopBlk(c) = BottomBlk(b) + 1 + (d - 1)
    BY <1>11, <2>2, <2>3 DEF TopBlk, Top
  <2>5. TopBlk(c) - BottomBlk(c) = d - 1 /\ d - 1 \in -1 .. MaxBlocks - 3 /\ d - 1 # -1
    BY <1>2, <1>3, <1>12, <1>14, <2>4, BufferAssumption
  <2>6. RingOK(c)
    BY <1>11, <1>12, <2>2, <2>3, <2>5 DEF RingOK, FromBottom
  <2> QED
    BY <1>1, <1>11, <1>12, <2>6
<1> QED
  BY <1>13, <1>14

(***************************************************************************)
(* Adding a packet: the buffer goes on, starts over at the packet's block, *)
(* or is emptied.                                                          *)
(***************************************************************************)
GoesOn(b, c) ==
  /\ ~ b.empty /\ ~ c.empty /\ c \in BufferType /\ RingOK(c)
  /\ BottomBlk(c) = BottomBlk(b) /\ c.bottomPkt = b.bottomPkt
  /\ TopBlk(b) <= TopBlk(c)
  /\ BottomBlk(b) <= TopBlk(b) => KeepsPackets(Bottom(b), Bottom(c))

StartsAt(c, blk) ==
  /\ ~ c.empty /\ c \in BufferType /\ RingOK(c)
  /\ BottomBlk(c) = blk /\ c.bottomPkt = 0

LEMMA CheckAddKeepsRing ==
  ASSUME NEW b \in BufferType, Consistent(b), NEW p \in PacketType
  PROVE  LET c == CheckAdd(b, p)
         IN  \/ GoesOn(b, c) /\ ~ Empties(b, p)
             \/ StartsAt(c, p.blk) /\ (b.empty \/ Empties(b, p))
             \/ c = EmptyBuffer /\ (b.empty \/ Empties(b, p))
<1> DEFINE ready == Prepared(b, p)
           s == SlotOf(ready, p)
           c == CheckAdd(b, p)
<1>0. c = IF s = NoSlot THEN ready ELSE AddToSlot(ready, s, p)
  BY DEF CheckAdd
<1>a. EmptyBuffer.empty /\ EmptyBuffer.top = 0 /\ 0 # NoSlot
  BY DEF EmptyBuffer, NoSlot
\* From an empty buffer.
<1>1. ASSUME ready = EmptyBuffer
      PROVE  StartsAt(c, p.blk) \/ c = EmptyBuffer
  <2>1. s = NoSlot \/ s = 0
    BY <1>1, <1>a DEF SlotOf
  <2> HIDE DEF s, ready
  <2> QED
    BY <1>0, <1>1, <1>a, <2>1, AddToEmpty DEF StartsAt
<1>2. CASE b.empty
  <2>1. ready = EmptyBuffer
    BY <1>2, <1>a DEF Prepared, Overflows, IsFuture, Consistent
  <2> QED
    BY <1>1, <1>2, <2>1
<1>3. CASE ~ b.empty
  <2>0. RingOK(b) /\ p.blk \in Nat /\ BottomBlk(b) \in Nat /\ TopBlk(b) \in Nat
    BY <1>3, BlockNumbers DEF Consistent, PacketType
  <2>1. CASE Overflows(b, p)
    <3>1. ready = EmptyBuffer /\ Empties(b, p)
      BY <1>3, <2>1 DEF Prepared, EmptyBuffers, Empties
    <3> QED
      BY <1>1, <3>1
  <2>2. CASE IsFuture(b, p) /\ ~ IsTooFar(b, p)
    <3>1. ready = Extended(b, p.blk)
      BY <2>2 DEF Prepared, Overflows
    <3>2. p.blk > TopBlk(b) /\ p.blk - TopBlk(b) < MaxBlocks - Count(b) - 1
      BY <2>0, <2>2, SlotsOfRing, BufferAssumption DEF IsFuture, IsTooFar
    <3>3. /\ ready \in BufferType /\ ~ ready.empty /\ RingOK(ready)
          /\ ready.bottomPkt = b.bottomPkt
          /\ BottomBlk(ready) = BottomBlk(b) /\ TopBlk(ready) = p.blk
          /\ BottomBlk(b) <= TopBlk(b) => Bottom(ready) = Bottom(b)
      BY <1>3, <2>0, <3>1, <3>2, ExtendRing
    <3> HIDE DEF ready
    <3>4. s = Back(ready.top, TopBlk(ready) - p.blk)
      BY <3>3 DEF SlotOf
    <3>5. s \in Slot /\ ready.blocks[s].index = p.blk
      BY <2>0, <3>3, <3>4, SlotOfBlock
    <3>6. s # NoSlot
      BY <3>5 DEF Slot, NoSlot
    <3> HIDE DEF s
    <3>7. \/ c = EmptyBuffer
          \/ c \in BufferType /\ ~ c.empty /\ RingOK(c) /\ SameRing(ready, c)
      BY <1>0, <3>3, <3>5, <3>6, AddToRing
    <3>8. c \in BufferType /\ SameRing(ready, c) =>
            /\ BottomBlk(c) = BottomBlk(b) /\ c.bottomPkt = b.bottomPkt
            /\ TopBlk(b) <= TopBlk(c)
            /\ BottomBlk(b) <= TopBlk(b) => KeepsPackets(Bottom(b), Bottom(c))
      <4> SUFFICES ASSUME c \in BufferType, SameRing(ready, c)
                   PROVE  /\ BottomBlk(c) = BottomBlk(b) /\ c.bottomPkt = b.bottomPkt
                          /\ TopBlk(b) <= TopBlk(c)
                          /\ BottomBlk(b) <= TopBlk(b) => KeepsPackets(Bottom(b), Bottom(c))
        OBVIOUS
      <4>1. BottomBlk(c) = BottomBlk(ready) /\ TopBlk(c) = TopBlk(ready)
        BY <3>3, SameRingKeepsRing
      <4>2. KeepsPackets(Bottom(ready), Bottom(c)) /\ c.bottomPkt = ready.bottomPkt
        BY <3>3 DEF SameRing, Bottom, BufferType
      <4> QED
        BY <2>0, <3>2, <3>3, <4>1, <4>2
    <3>9. Empties(b, p) <=> c.empty
      BY <1>3, <2>2 DEF Empties, Overflows
    <3> QED
      BY <1>3, <1>a, <3>7, <3>8, <3>9 DEF GoesOn
  <2>3. CASE ~ IsFuture(b, p)
    <3>1. ready = b
      BY <2>3 DEF Prepared, Overflows
    <3>2. Empties(b, p) <=> c.empty
      BY <1>3, <2>3 DEF Empties, Overflows
    <3>3. CASE p.blk # TopBlk(b) /\ IsTooOld(b, p)
      <4>1. c = b
        BY <1>0, <1>3, <3>1, <3>3 DEF SlotOf
      <4> QED
        BY <1>3, <2>0, <3>2, <4>1 DEF GoesOn, KeepsPackets
    <3>4. CASE ~ (p.blk # TopBlk(b) /\ IsTooOld(b, p))
      <4>1. p.blk <= TopBlk(b) /\ (p.blk = TopBlk(b) \/ p.blk >= BottomBlk(b))
        BY <1>3, <2>0, <2>3, <3>4 DEF IsFuture, IsTooOld
      <4>2. s = Back(b.top, TopBlk(b) - p.blk)
        BY <1>3, <3>1, <3>4 DEF SlotOf
      <4>3. s \in Slot /\ b.blocks[s].index = p.blk
        BY <2>0, <4>1, <4>2, SlotOfBlock
      <4>4. s # NoSlot
        BY <4>3 DEF Slot, NoSlot
      <4>5. c = AddToSlot(b, s, p)
        BY <1>0, <3>1, <4>4
      <4> HIDE DEF s
      <4>6. \/ c = EmptyBuffer
            \/ c \in BufferType /\ ~ c.empty /\ RingOK(c) /\ SameRing(b, c)
        BY <1>3, <2>0, <4>3, <4>5, AddToRing
      <4>7. c \in BufferType /\ SameRing(b, c) =>
              /\ BottomBlk(c) = BottomBlk(b) /\ c.bottomPkt = b.bottomPkt
              /\ TopBlk(b) <= TopBlk(c)
              /\ KeepsPackets(Bottom(b), Bottom(c))
        <5> SUFFICES ASSUME c \in BufferType, SameRing(b, c)
                     PROVE  /\ BottomBlk(c) = BottomBlk(b) /\ c.bottomPkt = b.bottomPkt
                            /\ TopBlk(b) <= TopBlk(c)
                            /\ KeepsPackets(Bottom(b), Bottom(c))
          OBVIOUS
        <5>1. BottomBlk(c) = BottomBlk(b) /\ TopBlk(c) = TopBlk(b)
          BY <2>0, SameRingKeepsRing
        <5>2. KeepsPackets(Bottom(b), Bottom(c)) /\ c.bottomPkt = b.bottomPkt
          BY DEF SameRing, Bottom, BufferType
        <5> QED
          BY <2>0, <5>1, <5>2
      <4> QED
        BY <1>3, <1>a, <3>2, <4>6, <4>7 DEF GoesOn
    <3> QED
      BY <3>3, <3>4
  <2> QED
    BY <2>1, <2>2, <2>3 DEF Overflows
<1> QED
  BY <1>2, <1>3

(***************************************************************************)
(* The processor.                                                          *)
(***************************************************************************)
Inv == TypeOK /\ BufferConsistent /\ OutputPosition

LEMMA ConsistentBuffer ==
  ASSUME BufferConsistent
  PROVE  Consistent(buf)
BY DEF BufferConsistent, Consistent

\* Parameters of a received packet, as Next ranges over them.
LEMMA PacketOfType ==
  ASSUME NEW blk \in Blocks, NEW idx \in PacketIndex, NEW s \in SchemesOf[blk]
  PROVE  /\ PacketOf(blk, idx, s) \in PacketType
         /\ PacketOf(blk, idx, s).blk = blk /\ PacketOf(blk, idx, s).idx = idx
<1>1. blk \in Nat /\ s \in [data : Nat, ec : Nat, size : Nat]
  BY ProcessorAssumption
<1> QED
  BY <1>1 DEF PacketOf, PacketType

\* What a packet added by any handler does to the buffer and the output: the
\* packet must not be of a block before the last one output.
LEMMA AddAndOutputKeeps ==
  ASSUME NEW b \in BufferType, Consistent(b), NEW p \in PacketType,
         TypeOK, AddAndOutput(b, p),
         lastOutput' \in [known : BOOLEAN, blk : Nat, idx : Nat],
         lastOutput'.known => p.blk >= lastOutput'.blk,
         ~ b.empty => b = buf /\ OutputPosition /\ lastOutput' = lastOutput,
         b.empty /\ lastOutput'.known => flushed
  PROVE  /\ pc' \in {"idle", "output", "skip", "discard"}
         /\ buf' \in BufferType /\ flushed' \in BOOLEAN
         /\ BufferConsistent' /\ OutputPosition'
<1> DEFINE c == CheckAdd(b, p)
<1>1. buf' = c /\ flushed' = (flushed \/ Empties(b, p))
      /\ pc' \in {"idle", "output", "skip", "discard"}
  BY DEF AddAndOutput
<1>2. flushed' \in BOOLEAN
  BY <1>1 DEF TypeOK
<1>3. \/ GoesOn(b, c) /\ ~ Empties(b, p)
      \/ StartsAt(c, p.blk) /\ (b.empty \/ Empties(b, p))
      \/ c = EmptyBuffer /\ (b.empty \/ Empties(b, p))
  BY CheckAddKeepsRing
<1>4. p.blk \in Nat
  BY DEF PacketType
<1> HIDE DEF c
<1>5. CASE GoesOn(b, c) /\ ~ Empties(b, p)
  <2>1. /\ ~ buf'.empty /\ buf' \in BufferType /\ RingOK(buf')
        /\ BottomBlk(buf') = BottomBlk(buf) /\ buf'.bottomPkt = buf.bottomPkt
        /\ ~ buf.empty /\ lastOutput' = lastOutput /\ flushed' = flushed
    BY <1>1, <1>5 DEF GoesOn, TypeOK
  <2>2. BufferConsistent'
    BY <2>1 DEF BufferConsistent
  <2>3. OutputPosition
    BY <1>5 DEF GoesOn
  <2>4. OutputPosition'
    BY <2>1, <2>3 DEF OutputPosition, Precedes
  <2> QED
    BY <1>1, <1>2, <2>1, <2>2, <2>4
<1>6. CASE StartsAt(c, p.blk) /\ (b.empty \/ Empties(b, p))
  <2>1. /\ ~ buf'.empty /\ buf' \in BufferType /\ RingOK(buf')
        /\ BottomBlk(buf') = p.blk /\ buf'.bottomPkt = 0
        /\ lastOutput'.known => flushed'
    BY <1>1, <1>6 DEF StartsAt
  <2>2. BufferConsistent'
    BY <2>1 DEF BufferConsistent
  <2>3. OutputPosition'
    BY <1>4, <2>1 DEF OutputPosition
  <2> QED
    BY <1>1, <1>2, <2>1, <2>2, <2>3
<1>7. CASE c = EmptyBuffer /\ (b.empty \/ Empties(b, p))
  <2>1. buf' = EmptyBuffer /\ (lastOutput'.known => flushed')
    BY <1>1, <1>7
  <2>2. EmptyBuffer.empty /\ EmptyBuffer.bottomPkt = 0
    BY DEF EmptyBuffer
  <2>3. BufferConsistent' /\ OutputPosition'
    BY <2>1, <2>2 DEF BufferConsistent, OutputPosition
  <2> QED
    BY <1>1, <1>2, <2>1, <2>3, EmptyTypes
<1> QED
  BY <1>3, <1>5, <1>6, <1>7

LEMMA InitInv == Init => Inv
<1> SUFFICES ASSUME Init PROVE Inv
  OBVIOUS
<1>1. EmptyBuffer.empty /\ EmptyBuffer.bottomPkt = 0
  BY DEF EmptyBuffer
<1>2. TypeOK
  <2>1. NoOutput \in [known : BOOLEAN, blk : Nat, idx : Nat]
    BY DEF NoOutput
  <2>2. <<>> \in Seq([id : Nat, wanted : SUBSET [blk : Nat, idx : Nat]])
    OBVIOUS
  <2> QED
    BY <2>1, <2>2, EmptyTypes DEF Init, TypeOK
<1>3. BufferConsistent
  BY <1>1 DEF Init, BufferConsistent
<1>4. OutputPosition
  BY <1>1 DEF Init, OutputPosition, NoOutput
<1> QED
  BY <1>2, <1>3, <1>4 DEF Inv

LEMMA ReceiveKeepsInv ==
  ASSUME Inv, NEW p \in PacketType,
         ReceivePacket(p) \/ ReceiveRestart(p)
           \/ \E i \in 1 .. Len(requests) : ReceiveRetransmission(requests[i], p)
  PROVE  Inv'
<1> USE DEF Inv
<1>1. buf \in BufferType /\ Consistent(buf) /\ p.blk \in Nat
  BY ConsistentBuffer DEF TypeOK, PacketType
<1>2. CASE ReceivePacket(p)
  <2>1. /\ lastOutput' = lastOutput /\ AddAndOutput(buf, p)
        /\ UNCHANGED <<paused, retrId, requests>>
        /\ newestBlk' \in Nat /\ pauseTempRetr' \in BOOLEAN
    BY <1>1, <1>2 DEF ReceivePacket, TypeOK
  <2>2. lastOutput'.known => p.blk >= lastOutput'.blk
    BY <1>1, <1>2, <2>1 DEF ReceivePacket, AlreadyOutput, TypeOK
  <2>3. buf.empty /\ lastOutput'.known => flushed
    BY <2>1 DEF OutputPosition
  <2>4. /\ pc' \in {"idle", "output", "skip", "discard"}
        /\ buf' \in BufferType /\ flushed' \in BOOLEAN
        /\ BufferConsistent' /\ OutputPosition'
    BY <1>1, <2>1, <2>2, <2>3, AddAndOutputKeeps DEF TypeOK
  <2> QED
    BY <2>1, <2>4 DEF TypeOK
<1>3. CASE ReceiveRestart(p)
  <2>1. /\ lastOutput' = NoOutput /\ AddAndOutput(EmptyBuffer, p)
        /\ UNCHANGED <<paused, requests>>
        /\ newestBlk' \in Nat /\ pauseTempRetr' \in BOOLEAN /\ retrId' \in Nat
    BY <1>1, <1>3, EmptiedBuffer DEF ReceiveRestart
  <2>2. /\ lastOutput' \in [known : BOOLEAN, blk : Nat, idx : Nat]
        /\ ~ lastOutput'.known
    BY <2>1 DEF NoOutput
  <2>3. EmptyBuffer.empty /\ Consistent(EmptyBuffer)
    BY DEF EmptyBuffer, Consistent
  <2>4. /\ pc' \in {"idle", "output", "skip", "discard"}
        /\ buf' \in BufferType /\ flushed' \in BOOLEAN
        /\ BufferConsistent' /\ OutputPosition'
    BY <2>1, <2>2, <2>3, EmptyTypes, AddAndOutputKeeps
  <2> QED
    BY <2>1, <2>2, <2>4 DEF TypeOK
<1>4. CASE \E i \in 1 .. Len(requests) : ReceiveRetransmission(requests[i], p)
  <2>1. /\ lastOutput' = lastOutput /\ AddAndOutput(buf, p)
        /\ p.blk >= lastOutput.blk
        /\ UNCHANGED <<newestBlk, paused, pauseTempRetr, retrId, requests>>
    BY <1>4 DEF ReceiveRetransmission
  <2>2. buf.empty /\ lastOutput'.known => flushed
    BY <2>1 DEF OutputPosition
  <2>3. /\ pc' \in {"idle", "output", "skip", "discard"}
        /\ buf' \in BufferType /\ flushed' \in BOOLEAN
        /\ BufferConsistent' /\ OutputPosition'
    BY <1>1, <2>1, <2>2, AddAndOutputKeeps DEF TypeOK
  <2> QED
    BY <2>1, <2>3 DEF TypeOK
<1> QED
  BY <1>2, <1>3, <1>4

(***************************************************************************)
(* Taking blocks and packets out.                                          *)
(***************************************************************************)
LEMMA CountedBuffer ==
  ASSUME Inv, Count(buf) # 0
  PROVE  /\ ~ buf.empty /\ RingOK(buf) /\ BottomBlk(buf) <= TopBlk(buf)
         /\ Count(buf) = TopBlk(buf) - BottomBlk(buf) + 1
         /\ Count(buf) \in 1 .. MaxBlocks - 2
<1>1. BottomBlk(buf) \in Nat /\ TopBlk(buf) \in Nat
  BY BlockNumbers DEF Inv, TypeOK
<1>2. /\ ~ buf.empty /\ BottomBlk(buf) <= TopBlk(buf)
      /\ Count(buf) = TopBlk(buf) - BottomBlk(buf) + 1
  BY <1>1 DEF Count
<1> QED
  BY <1>1, <1>2, BufferAssumption DEF Inv, BufferConsistent, RingOK

\* Every handler that gives up the bottom block and outputs nothing.
LEMMA DropKeepsInv ==
  ASSUME Inv, ~ buf.empty, BottomBlk(buf) <= TopBlk(buf), buf' = DropBottom(buf),
         UNCHANGED <<pc, lastOutput, newestBlk, paused, pauseTempRetr, retrId,
                     requests, flushed>>
  PROVE  Inv'
<1> USE DEF Inv
<1>1. buf \in BufferType /\ RingOK(buf) /\ BottomBlk(buf) \in Nat
  BY BlockNumbers DEF TypeOK, BufferConsistent
<1>2. /\ buf' \in BufferType /\ ~ buf'.empty /\ RingOK(buf')
      /\ BottomBlk(buf') = BottomBlk(buf) + 1 /\ buf'.bottomPkt = 0
  BY <1>1, DropFromRing
<1>3. TypeOK'
  BY <1>2 DEF TypeOK
<1>4. BufferConsistent'
  BY <1>2 DEF BufferConsistent
<1>5. OutputPosition'
  BY <1>1, <1>2 DEF OutputPosition, Precedes, TypeOK
<1> QED
  BY <1>3, <1>4, <1>5

\* The packet output is the one at the bottom; then the bottom moves on.
LEMMA OutputPacketKeepsInv ==
  ASSUME Inv, OutputPacket
  PROVE  Inv'
<1> USE DEF Inv
<1>1. /\ buf \in BufferType /\ ~ buf.empty /\ RingOK(buf)
      /\ BottomBlk(buf) <= TopBlk(buf) /\ BottomBlk(buf) \in Nat /\ buf.bottomPkt \in Nat
  BY CountedBuffer, BlockNumbers DEF OutputPacket, TypeOK, BufferType
<1>2. /\ lastOutput' = [known |-> TRUE, blk |-> BottomBlk(buf), idx |-> buf.bottomPkt]
      /\ flushed' = FALSE /\ buf' = AdvanceBottomPacket(buf)
      /\ UNCHANGED <<pc, newestBlk, paused, pauseTempRetr, retrId, requests>>
  BY DEF OutputPacket
<1>3. \/ buf' = [buf EXCEPT !.bottomPkt = @ + 1]
      \/ buf' = DropBottom(buf)
  BY <1>2 DEF AdvanceBottomPacket
<1>4. CASE buf' = [buf EXCEPT !.bottomPkt = @ + 1]
  <2>1. /\ buf' \in BufferType /\ ~ buf'.empty
        /\ buf'.bottomPkt = buf.bottomPkt + 1
        /\ buf'.blocks = buf.blocks /\ buf'.bottom = buf.bottom /\ buf'.top = buf.top
    BY <1>1, <1>4 DEF BufferType
  <2>2. RingOK(buf') /\ BottomBlk(buf') = BottomBlk(buf)
    BY <1>1, <2>1 DEF RingOK, BottomBlk, TopBlk, Bottom, Top, FromBottom
  <2>3. TypeOK'
    BY <1>1, <1>2, <2>1 DEF TypeOK
  <2>4. BufferConsistent'
    BY <2>1, <2>2 DEF BufferConsistent
  <2>5. buf'.bottomPkt > 0 /\ buf'.bottomPkt - 1 = buf.bottomPkt
    BY <1>1, <2>1
  <2>6. OutputPosition'
    <3>1. lastOutput' = [known |-> TRUE, blk |-> BottomBlk(buf'), idx |-> buf'.bottomPkt - 1]
      BY <1>2, <2>2, <2>5
    <3>2. Precedes(lastOutput', BottomBlk(buf'), buf'.bottomPkt)
      BY <1>1, <2>1, <2>2, <3>1 DEF Precedes
    <3> QED
      BY <1>2, <2>1, <3>1, <3>2 DEF OutputPosition
  <2> QED
    BY <2>3, <2>4, <2>6
<1>5. CASE buf' = DropBottom(buf)
  <2>1. /\ buf' \in BufferType /\ ~ buf'.empty /\ RingOK(buf')
        /\ BottomBlk(buf') = BottomBlk(buf) + 1 /\ buf'.bottomPkt = 0
    BY <1>1, <1>5, DropFromRing
  <2>2. TypeOK'
    BY <1>1, <1>2, <2>1 DEF TypeOK
  <2>3. BufferConsistent'
    BY <2>1 DEF BufferConsistent
  <2>4. OutputPosition'
    BY <1>1, <1>2, <2>1 DEF OutputPosition, Precedes
  <2> QED
    BY <2>2, <2>3, <2>4
<1> QED
  BY <1>3, <1>4, <1>5

LEMMA WantedOfType ==
  ASSUME NEW block \in BlockType, NEW count
  PROVE  WantedOf(block, count) \subseteq [blk : Nat, idx : Nat]
<1>1. block.index \in Nat /\ block.data \in Nat
  BY DEF BlockType
<1>2. ASSUME NEW n
      PROVE  FirstMissing(block, n) \subseteq [blk : Nat, idx : Nat]
  <2>1. ASSUME NEW k \in Missing(block)
        PROVE  [blk |-> block.index, idx |-> k] \in [blk : Nat, idx : Nat]
    BY <1>1 DEF Missing
  <2> HIDE DEF Missing
  <2> QED
    BY <2>1, Zenon DEF FirstMissing
<1>3. {[blk |-> block.index, idx |-> WholeBlock]} \subseteq [blk : Nat, idx : Nat]
  BY <1>1 DEF WholeBlock
<1> QED
  BY <1>2, <1>3 DEF WantedOf

LEMMA WantedType ==
  ASSUME Inv, Count(buf) # 0
  PROVE  Wanted \subseteq [blk : Nat, idx : Nat]
<1>1. /\ Count(buf) \in 1 .. MaxBlocks - 2 /\ buf.bottom \in Slot
      /\ buf.blocks \in [Slot -> BlockType]
  BY CountedBuffer DEF Inv, TypeOK, BufferType
<1>2. ASSUME NEW d \in 0 .. Count(buf) - 1
      PROVE  FromBottom(buf, d) \in BlockType
  BY <1>1, SlotArithmetic, BufferAssumption DEF FromBottom
<1>3. WantedBelowTop \subseteq [blk : Nat, idx : Nat]
  <2>1. ASSUME NEW d \in 0 .. Count(buf) - 2
        PROVE  WantedOf(FromBottom(buf, d), CountedBefore(d)) \subseteq [blk : Nat, idx : Nat]
    BY <1>1, <1>2, WantedOfType
  <2> QED
    BY <2>1 DEF WantedBelowTop
<1>4. WantedOfTop \subseteq [blk : Nat, idx : Nat]
  <2>1. FromBottom(buf, Count(buf) - 1) \in BlockType
    BY <1>1, <1>2
  <2> QED
    BY <2>1, WantedOfType DEF WantedOfTop
<1> QED
  BY <1>3, <1>4 DEF Wanted

LEMMA RequestMissingKeepsInv ==
  ASSUME Inv, RequestMissing
  PROVE  Inv'
<1> DEFINE Entry   == [blk : Nat, idx : Nat]
           Request == [id : Nat, wanted : SUBSET Entry]
           request == [id |-> retrId + 1, wanted |-> Wanted]
<1>1. /\ Count(buf) # 0 /\ requests' = Append(requests, request)
      /\ retrId' = retrId + 1 /\ pc' = "idle"
      /\ UNCHANGED <<buf, lastOutput, newestBlk, paused, pauseTempRetr, flushed>>
  BY DEF RequestMissing
<1>2. Wanted \in SUBSET Entry /\ retrId + 1 \in Nat
  BY <1>1, WantedType DEF Inv, TypeOK
<1>3. request \in Request
  BY <1>2
<1>4. requests \in Seq(Request)
  BY DEF Inv, TypeOK
<1>5. requests' \in Seq(Request)
  <2> HIDE DEF request, Request
  <2> QED
    BY <1>1, <1>3, <1>4
<1>6. TypeOK'
  BY <1>1, <1>2, <1>5 DEF Inv, TypeOK
<1>7. BufferConsistent' /\ OutputPosition'
  BY <1>1 DEF Inv, BufferConsistent, OutputPosition
<1> QED
  BY <1>6, <1>7 DEF Inv

\* fullResetState and resetReceiveState
LEMMA ResetKeepsInv ==
  ASSUME Inv, FullReset \/ NoVideoTimeout \/ LengthyOperation
  PROVE  Inv'
<1> USE DEF Inv
<1>1. buf' = EmptyBuffer
  BY ConsistentBuffer, EmptiedBuffer
  DEF TypeOK, FullReset, NoVideoTimeout, LengthyOperation
<1>2. EmptyBuffer.empty /\ EmptyBuffer.bottomPkt = 0
  BY DEF EmptyBuffer
<1>3. NoOutput \in [known : BOOLEAN, blk : Nat, idx : Nat] /\ ~ NoOutput.known
  BY DEF NoOutput
<1>4. TypeOK' /\ (lastOutput'.known => flushed')
  <2>1. CASE FullReset
    BY <1>1, <1>3, <2>1, EmptyTypes DEF FullReset, TypeOK
  <2>2. CASE NoVideoTimeout
    BY <1>1, <1>3, <2>2, EmptyTypes DEF NoVideoTimeout, TypeOK
  <2>3. CASE LengthyOperation
    <3>1. TypeOK'
      BY <1>1, <2>3, EmptyTypes DEF LengthyOperation, TypeOK
    <3>2. lastOutput'.known => flushed'
      BY <2>3 DEF LengthyOperation, OutputPosition
    <3> QED
      BY <3>1, <3>2
  <2> QED
    BY <2>1, <2>2, <2>3
<1>5. BufferConsistent' /\ OutputPosition'
  BY <1>1, <1>2, <1>4 DEF BufferConsistent, OutputPosition
<1> QED
  BY <1>4, <1>5

LEMMA NextKeepsInv ==
  ASSUME Inv, [Next]_vars
  PROVE  Inv'
<1>1. ASSUME NEW blk \in Blocks, NEW idx \in PacketIndex, NEW s \in SchemesOf[blk],
             \/ ReceivePacket(PacketOf(blk, idx, s))
             \/ ReceiveRestart(PacketOf(blk, idx, s))
             \/ \E i \in 1 .. Len(requests) :
                  ReceiveRetransmission(requests[i], PacketOf(blk, idx, s))
      PROVE  Inv'
  BY <1>1, PacketOfType, ReceiveKeepsInv
<1>2. CASE OutputPacket
  BY <1>2, OutputPacketKeepsInv
<1>3. CASE DiscardIncomplete
  BY <1>3, CountedBuffer, DropKeepsInv DEF DiscardIncomplete
<1>4. CASE DiscardOldBlock
  <2>1. ~ buf.empty
    BY <1>4, BufferAssumption
    DEF DiscardOldBlock, Inv, BufferConsistent, EmptyBuffer, EmptyBlock, Bottom, Slot
  <2> QED
    BY <1>4, <2>1, DropKeepsInv DEF DiscardOldBlock
<1>5. CASE OutputDone \/ CheckMissing \/ CheckDone
  BY <1>5 DEF Inv, OutputDone, CheckMissing, CheckDone, TypeOK, BufferConsistent,
              OutputPosition
<1>6. CASE FullReset \/ NoVideoTimeout \/ LengthyOperation
  BY <1>6, ResetKeepsInv
<1>7. CASE RequestMissing
  BY <1>7, RequestMissingKeepsInv
<1>8. CASE PauseProcessing \/ ResumeProcessing
  <2>1. /\ paused' \in BOOLEAN
        /\ UNCHANGED <<pc, buf, lastOutput, newestBlk, pauseTempRetr, retrId,
                       requests, flushed>>
    BY <1>8 DEF PauseProcessing, ResumeProcessing
  <2> QED
    BY <2>1 DEF Inv, TypeOK, BufferConsistent, OutputPosition
<1>9. CASE UNCHANGED vars
  BY <1>9 DEF Inv, vars, TypeOK, BufferConsistent, OutputPosition
<1> QED
  BY <1>1, <1>2, <1>3, <1>4, <1>5, <1>6, <1>7, <1>8, <1>9 DEF Next, OutputLoop

LEMMA InvAlways == Spec => []Inv
<1>1. Inv /\ [Next]_vars => Inv'
  BY NextKeepsInv
<1> QED
  BY InitInv, <1>1, PTL DEF Spec

(***************************************************************************)
(* What a block without packets holds, and what was output of the bottom.  *)
(***************************************************************************)
\* A packet number fits the byte of a request entry, where WholeBlock stands
\* for a whole block.
NumbersFitEntry == MaxPacketsInBlock \in 1 .. WholeBlock

\* The counters of a block are not both zero while it holds a packet.
SoundBlock(block) ==
  /\ block \in BlockType
  /\ block.data <= MaxPacketsInBlock
  /\ NothingReceived(block) => \A k \in PacketIndex : ~ HasPacket(block, k)

SoundBlocks(b) == \A s \in Slot : SoundBlock(b.blocks[s])

\* The packets of the bottom block that were output are still in it, and the
\* bottom past the top has had none output.
OutputHeld(b) ==
  /\ \A k \in PacketIndex : k < b.bottomPkt => HasPacket(Bottom(b), k)
  /\ BottomBlk(b) > TopBlk(b) => b.bottomPkt = 0

LEMMA EmptySound == /\ SoundBlock(EmptyBlock)
                    /\ SoundBlocks(EmptyBuffer) /\ OutputHeld(EmptyBuffer)
<1>1. SoundBlock(EmptyBlock)
  BY EmptyTypes, BufferAssumption DEF SoundBlock, EmptyBlock, HasPacket
<1>2. SoundBlocks(EmptyBuffer)
  BY <1>1 DEF SoundBlocks, EmptyBuffer
<1>3. EmptyBuffer.bottomPkt = 0
  BY DEF EmptyBuffer
<1>4. \A k \in PacketIndex : ~ (k < EmptyBuffer.bottomPkt)
  BY <1>3, BufferAssumption DEF PacketIndex
<1> QED
  BY <1>1, <1>2, <1>3, <1>4 DEF OutputHeld

\* A slot given another block number stays sound.
LEMMA RenumberedSound ==
  ASSUME NEW block, SoundBlock(block), NEW n \in Nat, NEW seen \in BOOLEAN
  PROVE  /\ SoundBlock([block EXCEPT !.index = n])
         /\ SoundBlock([block EXCEPT !.index = n, !.seen = seen])
BY DEF SoundBlock, BlockType, NothingReceived, HasPacket

LEMMA AddToSlotSound ==
  ASSUME NEW b \in BufferType, SoundBlocks(b), NEW p \in PacketType,
         p.data <= MaxPacketsInBlock, NEW s
  PROVE  SoundBlocks(AddToSlot(b, s, p))
<1>1. SoundBlocks(EmptyBuffers(b))
  BY EmptySound DEF EmptyBuffers
<1>2. CASE ~ Accepts(b.blocks[s], p)
  BY <1>1, <1>2 DEF AddToSlot
<1>3. CASE Accepts(b.blocks[s], p)
  <2> DEFINE block == AddToBlock(b.blocks[s], p)
             blocks == [b.blocks EXCEPT ![s] = block]
  <2>1. AddToSlot(b, s, p).blocks = blocks
    BY <1>3 DEF AddToSlot, BufferType
  <2>2. ASSUME NEW r \in Slot
        PROVE  SoundBlock(blocks[r])
    <3>1. b.blocks[r] \in BlockType /\ SoundBlock(b.blocks[r])
      BY DEF SoundBlocks, SoundBlock
    <3>2. CASE r = s
      <4>1. /\ block \in BlockType /\ ~ NothingReceived(block)
            /\ block.data \in {b.blocks[s].data, p.data}
        BY <3>1, <3>2, AddToBlockType
      <4>2. blocks[r] = block
        BY <3>2 DEF BufferType
      <4> HIDE DEF block, blocks
      <4> QED
        BY <3>1, <3>2, <4>1, <4>2 DEF SoundBlock
    <3>3. CASE r # s
      BY <3>1, <3>3 DEF BufferType
    <3> QED
      BY <3>2, <3>3
  <2> HIDE DEF blocks
  <2> QED
    BY <2>1, <2>2 DEF SoundBlocks
<1> QED
  BY <1>2, <1>3

LEMMA ExtendedSound ==
  ASSUME NEW b \in BufferType, SoundBlocks(b), NEW blk \in Nat, blk > TopBlk(b)
  PROVE  SoundBlocks(Extended(b, blk))
<1> DEFINE gap == blk - TopBlk(b)
           Distance(s) == IF s > b.top THEN s - b.top ELSE s - b.top + MaxBlocks
           opened(s)   == [EmptyBlock EXCEPT !.index = TopBlk(b) + Distance(s), !.seen = TRUE]
           blocks == [s \in Slot |-> IF Distance(s) <= gap THEN opened(s) ELSE b.blocks[s]]
<1>1. ASSUME NEW s \in Slot
      PROVE  SoundBlock(opened(s))
  <2>1. Distance(s) \in Nat /\ TopBlk(b) \in Nat
    BY BlockNumbers, BufferAssumption DEF Slot, BufferType
  <2>2. TopBlk(b) + Distance(s) \in Nat
    BY <2>1
  <2> HIDE DEF Distance
  <2> QED
    BY <2>2, EmptySound, RenumberedSound, Zenon
<1>2. ASSUME NEW s \in Slot
      PROVE  SoundBlock(blocks[s])
  <2> HIDE DEF opened, Distance, gap
  <2> QED
    BY <1>1 DEF SoundBlocks
<1>3. Extended(b, blk) = [b EXCEPT !.top = Ahead(b.top, gap), !.blocks = blocks]
  BY DEF Extended
<1>4. Extended(b, blk).blocks = blocks
  <2> HIDE DEF blocks, gap
  <2> QED
    BY <1>3 DEF BufferType
<1> HIDE DEF blocks
<1> QED
  BY <1>2, <1>4 DEF SoundBlocks

LEMMA CheckAddSound ==
  ASSUME NEW b \in BufferType, Consistent(b), SoundBlocks(b), NEW p \in PacketType,
         p.data <= MaxPacketsInBlock
  PROVE  SoundBlocks(CheckAdd(b, p))
<1> DEFINE ready == Prepared(b, p)
<1>1. ready \in BufferType /\ SoundBlocks(ready)
  <2>1. CASE Overflows(b, p)
    BY <2>1, EmptyTypes, EmptySound DEF Prepared, EmptyBuffers
  <2>2. CASE ~ Overflows(b, p) /\ IsFuture(b, p)
    <3>1. ready = Extended(b, p.blk)
      BY <2>2 DEF Prepared
    <3>2. /\ ~ b.empty /\ RingOK(b) /\ p.blk \in Nat /\ p.blk > TopBlk(b)
          /\ TopBlk(b) \in Nat
      BY <2>2, BlockNumbers DEF IsFuture, Consistent, PacketType
    <3>3. p.blk - TopBlk(b) < MaxBlocks - Count(b) - 1
      BY <2>2, <3>2, SlotsOfRing, BufferAssumption DEF Overflows, IsTooFar
    <3> QED
      BY <3>1, <3>2, <3>3, ExtendRing, ExtendedSound
  <2>3. CASE ~ IsFuture(b, p)
    BY <2>3 DEF Prepared, Overflows
  <2> QED
    BY <2>1, <2>2, <2>3
<1>2. \/ CheckAdd(b, p) = ready
      \/ CheckAdd(b, p) = AddToSlot(ready, SlotOf(ready, p), p)
  BY DEF CheckAdd
<1> HIDE DEF ready
<1> QED
  BY <1>1, <1>2, AddToSlotSound

LEMMA DropSound ==
  ASSUME NEW b \in BufferType, SoundBlocks(b)
  PROVE  SoundBlocks(DropBottom(b))
<1> DEFINE next == After(b.bottom)
           gone == [EmptyBlock EXCEPT !.index = IF b.bottom = b.top THEN BottomBlk(b) ELSE 0]
           mid  == [b.blocks EXCEPT ![b.bottom] = gone]
           first == [mid[next] EXCEPT !.index = BottomBlk(b) + 1]
           blocks == [mid EXCEPT ![next] = first]
<1>1. /\ BottomBlk(b) \in Nat /\ b.bottom \in Slot /\ next \in Slot
      /\ b.blocks \in [Slot -> BlockType]
  BY BlockNumbers, SlotArithmetic, BufferAssumption DEF BufferType
<1>2. DropBottom(b) = [b EXCEPT !.bottom = next, !.bottomPkt = 0, !.blocks = blocks]
  BY DEF DropBottom
<1>3. SoundBlock(gone)
  BY <1>1, EmptySound, RenumberedSound
<1> HIDE DEF gone, next
<1>4. \A s \in Slot : SoundBlock(mid[s])
  BY <1>1, <1>3 DEF SoundBlocks
<1>5. SoundBlock(first)
  <2>1. BottomBlk(b) + 1 \in Nat /\ SoundBlock(mid[next])
    BY <1>1, <1>4
  <2> HIDE DEF mid
  <2> QED
    BY <2>1, RenumberedSound, Zenon
<1>6. ASSUME NEW s \in Slot
      PROVE  SoundBlock(blocks[s])
  <2>1. mid = [s_1 \in Slot |-> mid[s_1]]
    BY <1>1
  <2> HIDE DEF mid, first
  <2> QED
    BY <1>4, <1>5, <2>1
<1>7. DropBottom(b).blocks = blocks
  <2> HIDE DEF blocks
  <2> QED
    BY <1>2 DEF BufferType
<1> HIDE DEF blocks
<1> QED
  BY <1>6, <1>7 DEF SoundBlocks

(***************************************************************************)
(* The invariant behind the requests.                                      *)
(***************************************************************************)
RequestInv == Inv /\ SoundBlocks(buf) /\ OutputHeld(buf)

\* What a received packet does to the packets output and held.
LEMMA AddAndOutputHeld ==
  ASSUME NEW b \in BufferType, Consistent(b), SoundBlocks(b), OutputHeld(b),
         NEW p \in PacketType, p.data <= MaxPacketsInBlock, AddAndOutput(b, p)
  PROVE  SoundBlocks(buf') /\ OutputHeld(buf')
<1>1. buf' = CheckAdd(b, p)
  BY DEF AddAndOutput
<1>2. SoundBlocks(buf')
  BY <1>1, CheckAddSound
<1>3. GoesOn(b, buf') \/ StartsAt(buf', p.blk) \/ buf' = EmptyBuffer
  BY <1>1, CheckAddKeepsRing
<1>4. CASE GoesOn(b, buf')
  <2>1. /\ BottomBlk(b) \in Nat /\ TopBlk(b) \in Nat
        /\ BottomBlk(buf') \in Nat /\ TopBlk(buf') \in Nat
        /\ BottomBlk(buf') = BottomBlk(b) /\ buf'.bottomPkt = b.bottomPkt
        /\ TopBlk(b) <= TopBlk(buf')
        /\ BottomBlk(b) <= TopBlk(b) => KeepsPackets(Bottom(b), Bottom(buf'))
    BY <1>4, BlockNumbers DEF GoesOn
  <2>2. CASE BottomBlk(b) <= TopBlk(b)
    BY <1>2, <2>1, <2>2 DEF OutputHeld, KeepsPackets
  <2>3. CASE BottomBlk(b) > TopBlk(b)
    BY <1>2, <2>1, <2>3, BufferAssumption DEF OutputHeld, PacketIndex
  <2> QED
    BY <1>2, <2>1, <2>2, <2>3
<1>5. CASE StartsAt(buf', p.blk)
  BY <1>2, <1>5, BufferAssumption DEF StartsAt, OutputHeld, PacketIndex
<1>6. CASE buf' = EmptyBuffer
  BY <1>6, EmptySound
<1> QED
  BY <1>3, <1>4, <1>5, <1>6

LEMMA DropHeld ==
  ASSUME NEW b \in BufferType, SoundBlocks(b)
  PROVE  SoundBlocks(DropBottom(b)) /\ OutputHeld(DropBottom(b))
<1>1. DropBottom(b).bottomPkt = 0
  BY DEF DropBottom, BufferType
<1> QED
  BY <1>1, DropSound, BufferAssumption DEF OutputHeld, PacketIndex

LEMMA NextKeepsRequestInv ==
  ASSUME RequestInv, [Next]_vars
  PROVE  RequestInv'
<1>1. Inv'
  BY NextKeepsInv DEF RequestInv
<1>2. /\ Inv /\ SoundBlocks(buf) /\ OutputHeld(buf)
      /\ buf \in BufferType /\ Consistent(buf)
  BY ConsistentBuffer DEF RequestInv, Inv, TypeOK
<1> SUFFICES SoundBlocks(buf') /\ OutputHeld(buf')
  BY <1>1 DEF RequestInv
<1>3. CASE buf' = buf
  BY <1>2, <1>3
<1>4. CASE buf' = DropBottom(buf)
  BY <1>2, <1>4, DropHeld
<1>5. CASE buf' = EmptyBuffers(buf)
  BY <1>2, <1>5, EmptiedBuffer, EmptySound
<1>6. ASSUME NEW blk \in Blocks, NEW idx \in PacketIndex, NEW s \in SchemesOf[blk],
             \/ AddAndOutput(buf, PacketOf(blk, idx, s))
             \/ AddAndOutput(EmptyBuffers(buf), PacketOf(blk, idx, s))
      PROVE  SoundBlocks(buf') /\ OutputHeld(buf')
  <2>1. PacketOf(blk, idx, s) \in PacketType
    BY PacketOfType
  <2>2. PacketOf(blk, idx, s).data <= MaxPacketsInBlock
    <3>1. s \in [data : Nat \ {0}, ec : Nat, size : Nat] /\ s.data + s.ec <= MaxPacketsInBlock
      BY ProcessorAssumption
    <3> QED
      BY <3>1, BufferAssumption DEF PacketOf
  <2>3. EmptyBuffers(buf) = EmptyBuffer /\ Consistent(EmptyBuffer)
    BY <1>2, EmptiedBuffer DEF Consistent, EmptyBuffer
  <2> QED
    BY <1>2, <1>6, <2>1, <2>2, <2>3, EmptyTypes, EmptySound, AddAndOutputHeld
<1>7. CASE OutputPacket
  <2>1. /\ BottomBlk(buf) <= TopBlk(buf) /\ buf.bottomPkt \in Nat
        /\ HasPacket(Bottom(buf), buf.bottomPkt)
    BY <1>2, <1>7, CountedBuffer DEF OutputPacket, NextPacketReady, BufferType
  <2>2. CASE buf' = [buf EXCEPT !.bottomPkt = @ + 1]
    <3>1. /\ buf'.bottomPkt = buf.bottomPkt + 1 /\ buf'.blocks = buf.blocks
          /\ Bottom(buf') = Bottom(buf) /\ BottomBlk(buf') = BottomBlk(buf)
          /\ TopBlk(buf') = TopBlk(buf)
      BY <1>2, <2>2 DEF BufferType, Bottom, BottomBlk, TopBlk, Top
    <3>2. BottomBlk(buf) \in Nat /\ TopBlk(buf) \in Nat
      BY <1>2, BlockNumbers
    <3>3. ASSUME NEW k \in PacketIndex, k < buf.bottomPkt + 1
          PROVE  HasPacket(Bottom(buf), k)
      <4>1. k = buf.bottomPkt \/ k < buf.bottomPkt
        BY <2>1, <3>3, BufferAssumption DEF PacketIndex
      <4> QED
        BY <1>2, <2>1, <4>1 DEF OutputHeld
    <3> QED
      BY <1>2, <2>1, <3>1, <3>2, <3>3 DEF SoundBlocks, OutputHeld
  <2> QED
    BY <1>4, <1>7, <2>2 DEF OutputPacket, AdvanceBottomPacket
<1> QED
  BY <1>3, <1>4, <1>5, <1>6, <1>7
  DEF Next, vars, OutputLoop, ReceivePacket, ReceiveRestart, ReceiveRetransmission,
      DiscardIncomplete, OutputDone, CheckMissing, DiscardOldBlock, CheckDone,
      NoVideoTimeout, RequestMissing, FullReset, LengthyOperation, PauseProcessing,
      ResumeProcessing

LEMMA RequestInvAlways == Spec => []RequestInv
<1>1. Init => RequestInv
  BY InitInv, EmptySound DEF RequestInv, Init
<1>2. RequestInv /\ [Next]_vars => RequestInv'
  BY NextKeepsRequestInv
<1> QED
  BY <1>1, <1>2, PTL DEF Spec

\* What a request may name.
NamesMissing(w) ==
  /\ BottomBlk(buf) <= w.blk /\ w.blk <= TopBlk(buf)
  /\ LET block == FromBottom(buf, w.blk - BottomBlk(buf))
     IN  IF w.idx = WholeBlock
           THEN \A k \in PacketIndex : ~ HasPacket(block, k)
           ELSE w.idx < block.data /\ ~ HasPacket(block, w.idx)
  /\ lastOutput.known /\ ~ flushed => Precedes(lastOutput, w.blk, w.idx)

\* A packet of the d-th block is wanted only while it is missing there; of
\* the bottom block it then lies behind the packets that were output.
LEMMA WantedIsMissing ==
  ASSUME NumbersFitEntry, RequestInv, Count(buf) # 0,
         NEW d \in 0 .. Count(buf) - 1, NEW count,
         NEW w \in WantedOf(FromBottom(buf, d), count)
  PROVE  NamesMissing(w)
<1> DEFINE block == FromBottom(buf, d)
<1>1. /\ ~ buf.empty /\ RingOK(buf) /\ BottomBlk(buf) <= TopBlk(buf)
      /\ Count(buf) = TopBlk(buf) - BottomBlk(buf) + 1
      /\ Count(buf) \in 1 .. MaxBlocks - 2
      /\ BottomBlk(buf) \in Nat /\ TopBlk(buf) \in Nat
      /\ buf \in BufferType /\ buf.bottom \in Slot /\ buf.bottomPkt \in Nat
      /\ lastOutput \in [known : BOOLEAN, blk : Nat, idx : Nat]
  BY CountedBuffer, BlockNumbers DEF RequestInv, Inv, TypeOK, BufferType
<1>2. block.index = BottomBlk(buf) + d
  BY <1>1 DEF RingOK
<1>3. Ahead(buf.bottom, d) \in Slot /\ Ahead(buf.bottom, 0) = buf.bottom
  <2>1. d \in 0 .. MaxBlocks
    BY <1>1, BufferAssumption
  <2> QED
    BY <1>1, <2>1, SlotArithmetic, BufferAssumption DEF Ahead, Slot
<1>4. SoundBlock(block) /\ (d = 0 => block = Bottom(buf))
  BY <1>3 DEF RequestInv, SoundBlocks, FromBottom, Bottom
<1>5. /\ block.data \in Nat /\ block.data <= MaxPacketsInBlock
      /\ MaxPacketsInBlock \in Nat /\ 0 < MaxPacketsInBlock
      /\ MaxPacketsInBlock <= WholeBlock /\ WholeBlock = 255
  BY <1>4, BufferAssumption DEF SoundBlock, BlockType, NumbersFitEntry, WholeBlock
<1> HIDE DEF block
<1>6. /\ w.blk = BottomBlk(buf) + d
      /\ \/ w.idx = WholeBlock /\ \A k \in PacketIndex : ~ HasPacket(block, k)
         \/ w.idx \in 0 .. block.data - 1 /\ ~ HasPacket(block, w.idx)
  <2>1. CASE NothingReceived(block)
    <3>1. w = [blk |-> block.index, idx |-> WholeBlock]
      BY <2>1 DEF WantedOf, block
    <3> QED
      BY <1>2, <1>4, <2>1, <3>1 DEF SoundBlock
  <2>2. CASE ~ NothingReceived(block)
    <3>1. PICK n : w \in FirstMissing(block, n)
      BY <2>2 DEF WantedOf, block
    <3>2. PICK k \in Missing(block) : w = [blk |-> block.index, idx |-> k]
      BY <3>1 DEF FirstMissing
    <3> QED
      BY <1>2, <3>2 DEF Missing
  <2> QED
    BY <2>1, <2>2
<1>7. BottomBlk(buf) <= w.blk /\ w.blk <= TopBlk(buf) /\ w.blk - BottomBlk(buf) = d
  BY <1>1, <1>6
<1>8. IF w.idx = WholeBlock
        THEN \A k \in PacketIndex : ~ HasPacket(block, k)
        ELSE w.idx < block.data /\ ~ HasPacket(block, w.idx)
  BY <1>5, <1>6
<1>9. ASSUME lastOutput.known, ~ flushed
      PROVE  Precedes(lastOutput, w.blk, w.idx)
  <2>1. Precedes(lastOutput, BottomBlk(buf), buf.bottomPkt)
    BY <1>1, <1>9 DEF RequestInv, Inv, OutputPosition
  <2>2. CASE lastOutput.blk < BottomBlk(buf) \/ d > 0
    BY <1>1, <1>6, <2>1, <2>2 DEF Precedes
  <2>3. CASE lastOutput.blk = BottomBlk(buf) /\ d = 0
    <3>1. lastOutput.idx < buf.bottomPkt /\ lastOutput.idx = buf.bottomPkt - 1
      BY <1>1, <2>1, <2>3 DEF Precedes, RequestInv, Inv, OutputPosition
    <3>2. \A k \in PacketIndex : k < buf.bottomPkt => HasPacket(block, k)
      BY <1>4, <2>3 DEF RequestInv, OutputHeld
    <3>3. CASE w.idx \in 0 .. block.data - 1 /\ ~ HasPacket(block, w.idx)
      <4>1. w.idx \in PacketIndex
        BY <1>5, <3>3 DEF PacketIndex
      <4>2. ~ (w.idx < buf.bottomPkt)
        BY <3>2, <3>3, <4>1
      <4> QED
        BY <1>1, <1>5, <1>6, <2>3, <3>1, <3>3, <4>2 DEF Precedes
    <3>4. CASE w.idx = WholeBlock /\ \A k \in PacketIndex : ~ HasPacket(block, k)
      <4>1. 0 \in PacketIndex /\ 0 < buf.bottomPkt
        BY <1>1, <1>5, <3>1 DEF PacketIndex
      <4> QED
        BY <3>2, <3>4, <4>1
    <3> QED
      BY <1>6, <3>3, <3>4
  <2> QED
    BY <1>1, <2>1, <2>2, <2>3 DEF Precedes
<1> QED
  BY <1>7, <1>8, <1>9 DEF NamesMissing, block

LEMMA RequestIsLast ==
  ASSUME Inv, RequestMissing
  PROVE  Requested = Wanted
<1> DEFINE Request == [id : Nat, wanted : SUBSET [blk : Nat, idx : Nat]]
           request == [id |-> retrId + 1, wanted |-> Wanted]
<1>1. requests' = Append(requests, request) /\ requests \in Seq(Request)
  BY DEF RequestMissing, Inv, TypeOK
<1>2. request.wanted = Wanted
  OBVIOUS
<1>3. request \in Request
  <2>1. Wanted \in SUBSET [blk : Nat, idx : Nat] /\ retrId + 1 \in Nat
    BY WantedType DEF RequestMissing, Inv, TypeOK
  <2> QED
    BY <2>1
<1> HIDE DEF request, Request
<1>4. Len(requests') = Len(requests) + 1 /\ requests'[Len(requests) + 1] = request
  BY <1>1, <1>3
<1> QED
  BY <1>2, <1>4 DEF Requested

(***************************************************************************)
(* The theorems.                                                           *)
(***************************************************************************)
\* The state has its types; the slots stay inside the ring.
THEOREM TypeCorrect == Spec => []TypeOK
<1>1. Inv => TypeOK
  BY DEF Inv
<1> QED
  BY InvAlways, <1>1, PTL

\* Block numbers follow each other through the ring, which never closes on
\* itself, and an emptied buffer keeps nothing.
THEOREM BufferCorrect == Spec => []BufferConsistent
<1>1. Inv => BufferConsistent
  BY DEF Inv
<1> QED
  BY InvAlways, <1>1, PTL

\* The packets output before stay behind the bottom of the buffer.
THEOREM PositionCorrect == Spec => []OutputPosition
<1>1. Inv => OutputPosition
  BY DEF Inv
<1> QED
  BY InvAlways, <1>1, PTL

\* The player gets the packets in stream order, every block from its first
\* packet on and without holes, and each packet once between two flushes.
THEOREM OutputCorrect == Spec => OutputInOrder
<1> DEFINE InOrder ==
      OutputPacket =>
        \/ /\ lastOutput'.idx = 0
           /\ lastOutput.known =>
                IF flushed THEN lastOutput.blk <= lastOutput'.blk
                           ELSE lastOutput.blk < lastOutput'.blk
        \/ /\ lastOutput.known
           /\ lastOutput' = [lastOutput EXCEPT !.idx = @ + 1]
<1>1. ASSUME Inv, OutputPacket
      PROVE  InOrder
  <2>1. /\ ~ buf.empty /\ BottomBlk(buf) \in Nat /\ buf.bottomPkt \in Nat
        /\ lastOutput \in [known : BOOLEAN, blk : Nat, idx : Nat]
        /\ lastOutput' = [known |-> TRUE, blk |-> BottomBlk(buf), idx |-> buf.bottomPkt]
    BY <1>1, CountedBuffer, BlockNumbers DEF OutputPacket, Inv, TypeOK, BufferType
  <2>2. CASE buf.bottomPkt = 0
    BY <1>1, <2>1, <2>2 DEF Inv, OutputPosition, Precedes
  <2>3. CASE buf.bottomPkt # 0
    <3>1. lastOutput = [known |-> TRUE, blk |-> BottomBlk(buf), idx |-> buf.bottomPkt - 1]
      BY <1>1, <2>1, <2>3 DEF Inv, OutputPosition
    <3>2. lastOutput' = [lastOutput EXCEPT !.idx = @ + 1]
      <4>1. buf.bottomPkt - 1 + 1 = buf.bottomPkt
        BY <2>1
      <4>2. [lastOutput EXCEPT !.idx = @ + 1]
              = [known |-> lastOutput.known, blk |-> lastOutput.blk, idx |-> lastOutput.idx + 1]
        BY <2>1
      <4>3. lastOutput.known = TRUE /\ lastOutput.blk = BottomBlk(buf)
            /\ lastOutput.idx = buf.bottomPkt - 1
        BY <3>1
      <4> QED
        BY <2>1, <4>1, <4>2, <4>3
    <3> QED
      BY <3>1, <3>2
  <2> QED
    BY <2>2, <2>3
<1>2. Inv /\ [Next]_vars => [InOrder]_vars
  BY <1>1
<1> QED
  BY InvAlways, <1>2, PTL DEF Spec, OutputInOrder
\* A request asks only for packets of blocks in the buffer that are not
\* there, and for none that was output since the buffer was last emptied.
THEOREM RequestsCorrect ==
  ASSUME NumbersFitEntry
  PROVE  Spec => RequestsNameMissing
<1> DEFINE NameMissing ==
      requests' # requests =>
        \A w \in Requested :
          /\ BottomBlk(buf) <= w.blk /\ w.blk <= TopBlk(buf)
          /\ LET block == FromBottom(buf, w.blk - BottomBlk(buf))
             IN  IF w.idx = WholeBlock
                   THEN \A k \in PacketIndex : ~ HasPacket(block, k)
                   ELSE w.idx < block.data /\ ~ HasPacket(block, w.idx)
          /\ lastOutput.known /\ ~ flushed => Precedes(lastOutput, w.blk, w.idx)
<1>1. ASSUME RequestInv, RequestMissing
      PROVE  NameMissing
  <2>1. Count(buf) # 0 /\ Count(buf) \in 1 .. MaxBlocks - 2 /\ RequestMissing
    BY <1>1, CountedBuffer DEF RequestMissing, RequestInv
  <2>2. Requested = Wanted
    BY <1>1, RequestIsLast DEF RequestInv
  <2>3. ASSUME NEW w \in Wanted
        PROVE  NamesMissing(w)
    <3>1. CASE w \in WantedBelowTop
      <4>1. PICK d \in 0 .. Count(buf) - 2 :
               w \in WantedOf(FromBottom(buf, d), CountedBefore(d))
        BY <3>1 DEF WantedBelowTop
      <4>2. d \in 0 .. Count(buf) - 1
        BY <2>1
      <4> QED
        BY <1>1, <2>1, <4>1, <4>2, WantedIsMissing
    <3>2. CASE w \in WantedOfTop
      <4>1. w \in WantedOf(FromBottom(buf, Count(buf) - 1), Cardinality(WantedBelowTop))
        BY <3>2 DEF WantedOfTop
      <4>2. Count(buf) - 1 \in 0 .. Count(buf) - 1
        BY <2>1
      <4> QED
        BY <1>1, <2>1, <4>1, <4>2, WantedIsMissing
    <3> QED
      BY <2>3, <3>1, <3>2 DEF Wanted
  <2> QED
    BY <2>2, <2>3 DEF NamesMissing
<1>2. ASSUME [Next]_vars, requests' # requests
      PROVE  RequestMissing
  BY <1>2
  DEF Next, vars, OutputLoop, ReceivePacket, ReceiveRestart, ReceiveRetransmission,
      OutputPacket, DiscardIncomplete, OutputDone, CheckMissing, DiscardOldBlock, CheckDone,
      NoVideoTimeout, FullReset, LengthyOperation, PauseProcessing, ResumeProcessing
<1>3. RequestInv /\ [Next]_vars => [NameMissing]_vars
  BY <1>1, <1>2
<1> QED
  BY RequestInvAlways, <1>3, PTL DEF Spec, RequestsNameMissing
=============================================================================
