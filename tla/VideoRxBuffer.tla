---------------------------- MODULE VideoRxBuffer ----------------------------
(***************************************************************************)
(* The station's receive buffer of video blocks (class VideoRxPacketsBuffer*)
(* of code/r_station/video_rx_buffers.cpp) as operators on its value.      *)
(*                                                                         *)
(* A block is a group of data packets followed by error correction (EC)    *)
(* packets; any `data' packets of the block give back its data packets.    *)
(* The buffer is a ring of block slots: `bottom' is the block to output    *)
(* next, from its packet `bottomPkt' on, and `top' the newest one.         *)
(* `bottom' stands one slot past `top' when all was output.                *)
(***************************************************************************)
EXTENDS Integers, FiniteSets

CONSTANTS MaxBlocks,          \* MAX_RXTX_BLOCKS_BUFFER
          MaxPacketsInBlock   \* MAX_TOTAL_PACKETS_IN_BLOCK

ASSUME BufferAssumption ==
  /\ MaxBlocks \in Nat /\ MaxBlocks >= 3
  /\ MaxPacketsInBlock \in Nat

Slot        == 0 .. MaxBlocks - 1
PacketIndex == 0 .. MaxPacketsInBlock - 1
NoSlot      == -1

(***************************************************************************)
(* A slot: the block number, whether it was ever received or skipped over  *)
(* (uReceivedTime # 0), its scheme, its counters and its packets.          *)
(***************************************************************************)
EmptyBlock ==
  [index |-> 0, seen |-> FALSE, data |-> 0, ec |-> 0, size |-> 0,
   recvData |-> 0, recvEC |-> 0, maxIdx |-> -1,
   pkts |-> [k \in PacketIndex |-> "empty"]]

EmptyBuffer ==
  [empty |-> TRUE, top |-> 0, bottom |-> 0, bottomPkt |-> 0,
   blocks |-> [s \in Slot |-> EmptyBlock]]

\* Mutant: the positions are reset but the slots keep their blocks.
EmptyBuffersKeepingBlocks(b) ==
  [b EXCEPT !.empty = TRUE, !.top = 0, !.bottom = 0, !.bottomPkt = 0]

\* _empty_buffers
EmptyBuffers(b) == IF b.empty THEN b ELSE EmptyBuffer

Bottom(b)    == b.blocks[b.bottom]
Top(b)       == b.blocks[b.top]
BottomBlk(b) == Bottom(b).index
TopBlk(b)    == Top(b).index

\* getCountBlocksInBuffer
Count(b) == IF b.empty \/ BottomBlk(b) > TopBlk(b)
              THEN 0
              ELSE TopBlk(b) - BottomBlk(b) + 1

\* Mutant: the position never wraps.
AfterUnwrapped(s) == s + 1

After(s) == IF s + 1 >= MaxBlocks THEN 0 ELSE s + 1

\* The slot d places behind or ahead of slot s, for d <= MaxBlocks.
Back(s, d)  == IF s - d < 0 THEN s - d + MaxBlocks ELSE s - d
Ahead(s, d) == IF s + d >= MaxBlocks THEN s + d - MaxBlocks ELSE s + d

\* getBlockInBufferFromBottom
FromBottom(b, d) == b.blocks[Ahead(b.bottom, d)]

HasPacket(block, k) == block.pkts[k] # "empty"
Missing(block)      == {k \in 0 .. block.data - 1 : ~ HasPacket(block, k)}
IsComplete(block)   == block.data # 0 /\ block.recvData >= block.data

(***************************************************************************)
(* Adding a packet p to a block.                                           *)
(***************************************************************************)
\* Mutant: the rebuilt packets are not counted.
CheckDoECUncounted(block) ==
  IF block.ec # 0 /\ block.recvData + block.recvEC >= block.data
    THEN [block EXCEPT !.pkts = [k \in PacketIndex |->
            IF k \in Missing(block) THEN "rebuilt" ELSE block.pkts[k]]]
    ELSE block

\* _check_do_ec_for_video_block.  Every missing data packet is marked as
\* rebuilt, whatever fec_decode answers, and all data packets are then there.
CheckDoEC(block) ==
  IF /\ block.recvData < block.data
     /\ block.ec # 0
     /\ block.recvData + block.recvEC >= block.data
    THEN [block EXCEPT
            !.pkts     = [k \in PacketIndex |->
                            IF k \in Missing(block) THEN "rebuilt" ELSE block.pkts[k]],
            !.recvData = @ + Cardinality(Missing(block)),
            !.maxIdx   = IF @ < block.data - 1 THEN block.data - 1 ELSE @]
    ELSE block

\* The first packet gives a block its scheme.  A later packet may only make
\* it shorter, when no packet past it was received.
SchemeFor(block, p) ==
  IF \/ block.data = 0 /\ block.ec = 0
     \/ block.data # p.data /\ p.idx >= block.maxIdx
    THEN [data |-> p.data, ec |-> p.ec]
    ELSE [data |-> block.data, ec |-> block.ec]

SchemeClash(block, p) ==
  /\ block.data # 0 \/ block.ec # 0
  /\ p.data > block.data \/ p.size # block.size

\* The rest of _add_video_packet_to_buffer, once the packet is accepted.
AddToBlock(block, p) ==
  LET isData == p.idx < p.data
      scheme == SchemeFor(block, p)
  IN CheckDoEC(
       [index |-> p.blk, seen |-> TRUE, data |-> scheme.data, ec |-> scheme.ec,
        size |-> p.size,
        recvData |-> block.recvData + (IF isData THEN 1 ELSE 0),
        recvEC   |-> block.recvEC + (IF isData THEN 0 ELSE 1),
        maxIdx   |-> IF p.idx > block.maxIdx THEN p.idx ELSE block.maxIdx,
        pkts     |-> [block.pkts EXCEPT ![p.idx] = "received"]])

Accepts(block, p) == ~ HasPacket(block, p.idx) /\ ~ SchemeClash(block, p)

\* _add_video_packet_to_buffer: the buffer after it.
AddToSlot(b, s, p) ==
  IF Accepts(b.blocks[s], p)
    THEN [b EXCEPT !.empty = FALSE, !.blocks[s] = AddToBlock(b.blocks[s], p)]
    ELSE IF HasPacket(b.blocks[s], p.idx) THEN b ELSE EmptyBuffers(b)

(***************************************************************************)
(* Choosing the slot of a packet (checkAddVideoPacket).                    *)
(***************************************************************************)
\* "Wait for start of a recoverable block"
RecoverableStart(p) == p.ec = 0 \/ p.idx <= (p.ec * 2) \div 3

IsTooOld(b, p) ==
  \/ p.blk < BottomBlk(b)
  \/ p.blk = BottomBlk(b) /\ p.idx < b.bottomPkt
  \/ p.blk < TopBlk(b) /\ TopBlk(b) - p.blk >= MaxBlocks - 1

\* Mutant: the room in the ring is taken two blocks too large.
IsTooFarLate(b, p) == p.blk - TopBlk(b) > MaxBlocks - Count(b)

IsTooFar(b, p) == p.blk - TopBlk(b) >= MaxBlocks - Count(b) - 1

\* The slots after the top one, up to the slot of block blk, made ready.
Extended(b, blk) ==
  LET gap == blk - TopBlk(b)
      Distance(s) == IF s > b.top THEN s - b.top ELSE s - b.top + MaxBlocks
  IN  [b EXCEPT
         !.top    = Ahead(b.top, gap),
         !.blocks = [s \in Slot |->
                       IF Distance(s) <= gap
                         THEN [EmptyBlock EXCEPT !.index = TopBlk(b) + Distance(s),
                                                 !.seen  = TRUE]
                         ELSE b.blocks[s]]]

IsFuture(b, p) == ~ b.empty /\ p.blk > TopBlk(b) /\ ~ IsTooOld(b, p)

\* A gap too large for the ring: the buffer is emptied and starts over.
Overflows(b, p) == IsFuture(b, p) /\ IsTooFar(b, p)

\* The buffer made ready for the packet, and the slot of the packet in it.
Prepared(b, p) ==
  IF Overflows(b, p) THEN EmptyBuffers(b)
  ELSE IF IsFuture(b, p) THEN Extended(b, p.blk)
  ELSE b

SlotOf(b, p) ==
  IF b.empty
    THEN IF RecoverableStart(p) THEN b.top ELSE NoSlot
    ELSE IF p.blk # TopBlk(b) /\ IsTooOld(b, p) THEN NoSlot
    ELSE Back(b.top, TopBlk(b) - p.blk)

\* checkAddVideoPacket: the buffer after it, and its result.
CheckAdd(b, p) ==
  LET ready == Prepared(b, p)
      s     == SlotOf(ready, p)
  IN  IF s = NoSlot THEN ready ELSE AddToSlot(ready, s, p)

IsAdded(b, p) ==
  LET ready == Prepared(b, p)
      s     == SlotOf(ready, p)
  IN  s # NoSlot /\ Accepts(ready.blocks[s], p)

\* Whether checkAddVideoPacket emptied a buffer in use.
Empties(b, p) == ~ b.empty /\ (Overflows(b, p) \/ CheckAdd(b, p).empty)

\* hasVideoPacket
HasVideoPacket(b, blk, idx) ==
  /\ ~ b.empty
  /\ blk <= TopBlk(b)
  /\ blk >= BottomBlk(b)
  /\ HasPacket(b.blocks[(b.bottom + blk - BottomBlk(b)) % MaxBlocks], idx)

(***************************************************************************)
(* Taking blocks out at the bottom.                                        *)
(***************************************************************************)
\* Mutant: the packet position is not reset.
DropBottomMidBlock(b) ==
  [b EXCEPT
     !.bottom = After(b.bottom),
     !.blocks = [@ EXCEPT
       ![b.bottom] = [EmptyBlock EXCEPT !.index = IF b.bottom = b.top THEN BottomBlk(b) ELSE 0],
       ![After(b.bottom)].index = BottomBlk(b) + 1]]

\* What discardOldBlocks, discardBottomBlockIfIncomplete and
\* advanceBottomPacketInBuffer do to give up the bottom slot.
DropBottom(b) ==
  LET blk == BottomBlk(b)
  IN  [b EXCEPT
         !.bottom    = After(b.bottom),
         !.bottomPkt = 0,
         !.blocks    = [@ EXCEPT
           ![b.bottom] = [EmptyBlock EXCEPT !.index = IF b.bottom = b.top THEN blk ELSE 0],
           ![After(b.bottom)].index = blk + 1]]

\* Mutant: a block of which nothing was received counts as complete.
BottomIsDiscardableIfReceived(b) ==
  /\ ~ b.empty
  /\ BottomBlk(b) < TopBlk(b)
  /\ Bottom(b).recvData < Bottom(b).data

\* The test of discardBottomBlockIfIncomplete
BottomIsDiscardable(b) ==
  /\ ~ b.empty
  /\ BottomBlk(b) < TopBlk(b)
  /\ ~ IsComplete(Bottom(b))

\* Mutant: a finished block is not given up.
AdvanceInSameBlock(b) ==
  IF b.bottomPkt + 1 < Bottom(b).data
    THEN [b EXCEPT !.bottomPkt = @ + 1]
    ELSE [b EXCEPT !.bottomPkt = 0]

\* advanceBottomPacketInBuffer
AdvanceBottomPacket(b) ==
  IF b.bottomPkt + 1 < Bottom(b).data
    THEN [b EXCEPT !.bottomPkt = @ + 1]
    ELSE DropBottom(b)
=============================================================================
