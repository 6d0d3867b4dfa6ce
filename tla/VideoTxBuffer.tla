--------------------------- MODULE VideoTxBuffer ---------------------------
(***************************************************************************)
(* The vehicle's transmit buffer of video blocks (class                    *)
(* VideoTxPacketsBuffer of code/r_vehicle/video_tx_buffers.cpp).           *)
(*                                                                         *)
(* Every camera frame is cut into data packets, which fill blocks of the   *)
(* current scheme; a full block gets its error correction (EC) packets.    *)
(* The blocks stay in a ring of slots: `send' chases `fill', and what was  *)
(* sent remains there to be sent again until its slot is filled anew.      *)
(*                                                                         *)
(* The router thread calls the handlers one after the other; the packet    *)
(* loop of a frame and the send loop are unrolled, and `pc' tells which    *)
(* one the thread is in.                                                   *)
(***************************************************************************)
EXTENDS Integers, FiniteSets

CONSTANTS
  MaxBlocks,          \* MAX_RXTX_BLOCKS_BUFFER
  MaxPacketsInBlock,  \* MAX_TOTAL_PACKETS_IN_BLOCK
  MaxDataPackets,     \* MAX_DATA_PACKETS_IN_BLOCK
  Stretch,            \* 5: a block takes in a frame's tail shorter than this
  Schemes,            \* the schemes settings ask for: records [data, ec]
  FrameSizes,         \* how many data packets a frame may need
  RetrIds,            \* ids of retransmission requests
  MaxBlockNumber,     \* bound of the model: no frame starts after this block
  MaxFrames           \* bound of the model: frames

ASSUME TxBufferAssumption ==
  /\ MaxBlocks \in Nat /\ MaxBlocks >= 2
  /\ MaxPacketsInBlock \in Nat /\ MaxDataPackets \in Nat /\ Stretch \in Nat
  /\ 2 * MaxDataPackets <= MaxPacketsInBlock
  /\ Schemes \subseteq [data : Nat, ec : Nat]
  /\ \A s \in Schemes : 2 <= s.data /\ s.data <= MaxDataPackets /\ s.ec <= s.data
  /\ FrameSizes \subseteq 1 .. 255
  /\ RetrIds \subseteq Nat
  /\ MaxBlockNumber \in Nat /\ MaxFrames \in Nat

Slot        == 0 .. MaxBlocks - 1
PacketIndex == 0 .. MaxPacketsInBlock - 1
WholeBlock  == 255

VARIABLES
  pc,          \* "idle", "frame" (packet loop of a frame), "send" (send loop)
  packets,     \* m_VideoPackets: bEmpty and the header's block fields
  nextBlk,     \* m_uNextVideoBlockIndexToGenerate
  nextPkt,     \* m_uNextVideoBlockPacketIndexToGenerate and, always equal to
               \* it, m_iNextBufferPacketIndexToFill
  fill,        \* m_iNextBufferIndexToFill
  send,        \* m_iCurrentBufferIndexToSend
  sendPkt,     \* m_iCurrentBufferPacketIndexToSend
  scheme,      \* m_PacketHeaderVideo: scheme of the block being filled
  nextScheme,  \* m_uNextBlockDataPackets, m_uNextBlockECPackets
  frame,       \* m_uCurrentH264FrameIndex
  frameSize,   \* iVideoDataPacketsInThisFrame
  frameLeft,   \* iTotalCountRemaining: data packets of the frame still to add
  added,       \* iTotalCountAdded: packets the frame has so far
  lastRetrId,  \* s_uLastRecvRetransmissionId
  sent,        \* the packets the last step handed to the radio
  lastSent     \* auxiliary: the last packet sent by the send loop

frameVars == <<frame, frameSize, frameLeft, added>>

vars == <<pc, packets, nextBlk, nextPkt, fill, send, sendPkt, scheme, nextScheme,
          frameVars, lastRetrId, sent, lastSent>>

\* `info' is the low byte of uFramePacketsInfo: the place in the frame.
NoPacket == [empty |-> TRUE, blk |-> 0, idx |-> 0, data |-> 0, ec |-> 0, frame |-> 0, info |-> 0]
NoneSent == [known |-> FALSE, blk |-> 0, idx |-> 0, last |-> FALSE]

\* Mutant: the position never wraps.
AfterUnwrapped(s) == s + 1

After(s)   == IF s + 1 >= MaxBlocks THEN 0 ELSE s + 1
Back(s, d) == IF s - d < 0 THEN s - d + MaxBlocks ELSE s - d

\* hasPendingPacketsToSend
HasPending == ~ (send = fill /\ sendPkt = nextPkt)

Init ==
  /\ pc = "idle"
  /\ packets = [s \in Slot |-> [k \in PacketIndex |-> NoPacket]]
  /\ nextBlk = 0 /\ nextPkt = 0
  /\ fill = 0 /\ send = 0 /\ sendPkt = 0
  /\ nextScheme \in Schemes
  /\ scheme = nextScheme
  /\ frame = 0 /\ frameSize = 0 /\ frameLeft = 0 /\ added = 0
  /\ lastRetrId = 0
  /\ sent = {} /\ lastSent = NoneSent

(***************************************************************************)
(* Filling.                                                                *)
(***************************************************************************)
\* appendDataToCurrentFrame, once the frame is complete: a new scheme is taken.
StartFrame(n) ==
  /\ pc = "idle"
  /\ nextBlk <= MaxBlockNumber /\ frame < MaxFrames
  /\ pc' = "frame"
  /\ frame' = frame + 1 /\ frameSize' = n /\ frameLeft' = n /\ added' = 0
  /\ scheme' = nextScheme
  /\ sent' = {}
  /\ UNCHANGED <<packets, nextBlk, nextPkt, fill, send, sendPkt, nextScheme, lastRetrId, lastSent>>

\* The scheme of a new block: stretched over the rest of a frame that would
\* otherwise leave a short block behind it.
StartScheme(next, left) ==
  IF next.data < left /\ left < next.data + Stretch /\ left < MaxDataPackets
    THEN [data |-> left, ec |-> (left * next.ec) \div next.data]
    ELSE next

\* Mutant: the last block of a frame is not cut short.
UncutScheme(s, k) == s

\* The scheme of a block that the last packet of a frame, packet k, cuts
\* short (_fillVideoPacketHeaders).  The EC share is rounded up from 0.001
\* above: a block of a stream without EC gets one EC packet, too.
CutScheme(s, k) ==
  LET ec == ((k + 1) * s.ec) \div s.data + 1
  IN  IF k >= s.data - 1 THEN s
      ELSE [data |-> k + 1, ec |-> IF k = 0 THEN 0 ELSE IF ec > k + 1 THEN k + 1 ELSE ec]

Header(k, s) ==
  [empty |-> FALSE, blk |-> nextBlk, idx |-> k, data |-> s.data, ec |-> s.ec,
   frame |-> frame, info |-> 0]

\* Mutant: a slot opened anew keeps the packets of its old block.
StillFull(slot) == slot

Emptied(slot) == [k \in PacketIndex |-> [slot[k] EXCEPT !.empty = TRUE]]

\* Mutant: packets added before the block was cut keep the old scheme.
FilledUncut(slot, s, last) ==
  [k \in PacketIndex |->
     IF nextPkt <= k /\ k < last THEN Header(k, s) ELSE slot[k]]

\* The slot being filled, with the data packet nextPkt and the EC packets up
\* to `last' written, and a cut carried back to the packets before it.
Filled(slot, s, last) ==
  [k \in PacketIndex |->
     IF nextPkt <= k /\ k < last THEN Header(k, s)
     ELSE IF k < nextPkt /\ frameLeft = 1 /\ nextPkt < scheme.data - 1
       THEN [slot[k] EXCEPT !.data = s.data, !.ec = s.ec]
     ELSE slot[k]]

\* Mutant: the block number goes on.
DiscardKeepingNumber ==
  /\ nextPkt' = 0 /\ UNCHANGED nextBlk
  /\ fill' = 0 /\ send' = 0 /\ sendPkt' = 0
  /\ lastSent' = NoneSent

\* discardBuffer: the numbers start again; the slots keep their packets.
Discard ==
  /\ nextBlk' = 0 /\ nextPkt' = 0
  /\ fill' = 0 /\ send' = 0 /\ sendPkt' = 0
  /\ lastSent' = NoneSent

\* The packet before a position in the ring.
StepBack(ring, pos) ==
  LET slot == Back(pos.slot, 1)
  IN  IF pos.pkt > 0 THEN [pos EXCEPT !.pkt = @ - 1]
      ELSE [slot |-> slot, pkt |-> ring[slot][0].data + ring[slot][0].ec - 1]

\* The positions reached from `end' in so many steps back.
WalkBack(ring, end, steps) ==
  LET back[n \in 0 .. steps] == IF n = 0 THEN end ELSE StepBack(ring, back[n - 1])
  IN  back

IsData(p) == p.idx < p.data

\* The end of a frame: from the last of its packets back, each is given its
\* place among the data packets of the frame; an EC packet has that of the
\* last data packet of its block.  Once a full ring was discarded in the
\* middle of the frame, a packet may be met again: the last time counts.
Placed(ring, end, count) ==
  LET steps   == IF count = 0 THEN 1 ELSE count
      back    == WalkBack(ring, end, steps)
      At(n)   == ring[back[n].slot][back[n].pkt]
      reached == {n \in 1 .. steps : \A m \in 1 .. n : At(m).frame = frame}
      Place(n) == frameSize - 1 - Cardinality({m \in 1 .. n - 1 : IsData(At(m))})
      Visits(s, k) == {n \in reached : back[n] = [slot |-> s, pkt |-> k]}
  IN  [s \in Slot |-> [k \in PacketIndex |->
         IF Visits(s, k) = {} THEN ring[s][k]
         ELSE [ring[s][k] EXCEPT !.info =
                 Place(CHOOSE n \in Visits(s, k) : \A m \in Visits(s, k) : m <= n)]]]

\* _addNewVideoPacket, and the end of appendDataToCurrentFrame after the last
\* one.  After a full block the next slot is opened, unless the send position
\* is there, in which case everything is discarded.
AddPacket ==
  /\ pc = "frame"
  /\ LET slot  == IF nextPkt = 0 THEN Emptied(packets[fill]) ELSE packets[fill]
         s0    == IF nextPkt = 0 THEN StartScheme(nextScheme, frameLeft) ELSE scheme
         s     == IF frameLeft = 1 THEN CutScheme(s0, nextPkt) ELSE s0
         hasEC == nextPkt + 1 >= s.data /\ s.data > 1
         last  == IF hasEC THEN nextPkt + 1 + s.ec ELSE nextPkt + 1
         slots == [packets EXCEPT ![fill] = Filled(slot, s, last)]
         done  == last >= s.data + s.ec
         full  == done /\ After(fill) = send
         ring  == IF done
                    THEN [slots EXCEPT ![IF full THEN 0 ELSE After(fill)] = Emptied(@)]
                    ELSE slots
         count == IF full THEN added ELSE added + last - nextPkt
     IN  /\ scheme' = s
         /\ CASE full -> Discard
              [] done /\ ~ full -> /\ nextBlk' = nextBlk + 1 /\ nextPkt' = 0
                                  /\ fill' = After(fill)
                                  /\ UNCHANGED <<send, sendPkt, lastSent>>
              [] OTHER -> nextPkt' = last /\ UNCHANGED <<nextBlk, fill, send, sendPkt, lastSent>>
         /\ IF frameLeft = 1
              THEN /\ packets' = Placed(ring, [slot |-> fill', pkt |-> nextPkt'], count)
                   /\ pc' = "idle" /\ frameSize' = 0 /\ added' = 0
              ELSE /\ packets' = ring
                   /\ added' = count
                   /\ UNCHANGED <<pc, frameSize>>
  /\ frameLeft' = frameLeft - 1
  /\ sent' = {}
  /\ UNCHANGED <<nextScheme, frame, lastRetrId>>

(***************************************************************************)
(* Sending.                                                                *)
(***************************************************************************)
\* sendAvailablePackets
StartSend ==
  /\ pc = "idle"
  /\ HasPending
  /\ pc' = "send"
  /\ sent' = {}
  /\ UNCHANGED <<packets, nextBlk, nextPkt, fill, send, sendPkt, scheme, nextScheme,
                 frameVars, lastRetrId, lastSent>>

\* Mutant: the send position goes past the data packets only.
BlockSentDataOnly(p) == sendPkt + 1 >= p.data

BlockSent(p) == sendPkt + 1 >= p.data + p.ec

\* One turn of its loop.  An empty packet is passed over; the packet of a
\* block of one packet is sent twice.
SendPacket ==
  /\ pc = "send"
  /\ HasPending
  /\ LET p == packets[send][sendPkt]
     IN  /\ sent' = IF p.empty THEN {} ELSE {p}
         /\ lastSent' = IF p.empty THEN lastSent
                        ELSE [known |-> TRUE, blk |-> p.blk, idx |-> p.idx,
                              last |-> p.idx + 1 = p.data + p.ec]
         /\ IF BlockSent(p)
              THEN send' = After(send) /\ sendPkt' = 0
              ELSE sendPkt' = sendPkt + 1 /\ UNCHANGED send
  /\ UNCHANGED <<pc, packets, nextBlk, nextPkt, fill, scheme, nextScheme, frameVars, lastRetrId>>

SendDone ==
  /\ pc = "send"
  /\ ~ HasPending
  /\ pc' = "idle"
  /\ sent' = {}
  /\ UNCHANGED <<packets, nextBlk, nextPkt, fill, send, sendPkt, scheme, nextScheme,
                 frameVars, lastRetrId, lastSent>>

(***************************************************************************)
(* Sending again.                                                          *)
(***************************************************************************)
\* Mutant: the oldest block is given up one block too early.
InBufferButOldest(blk) == blk <= nextBlk /\ nextBlk - blk < MaxBlocks - 1

InBuffer(blk) == blk <= nextBlk /\ nextBlk - blk < MaxBlocks

\* resendVideoPacket: the packets it sends.  The packets of a whole block go
\* out up to the first empty one, and their headers are not looked at.
Resent(blk, idx) ==
  LET slot == packets[Back(fill, nextBlk - blk)]
  IN  IF ~ InBuffer(blk) THEN {}
      ELSE IF idx = WholeBlock
        THEN {slot[k] : k \in {k \in PacketIndex :
                k < slot[0].data /\ \A j \in 0 .. k : ~ slot[j].empty}}
      ELSE {p \in {slot[idx]} : /\ ~ (blk = nextBlk /\ idx >= nextPkt)
                                /\ p.blk = blk /\ p.idx = idx /\ ~ p.empty}

\* process_data_tx_video_command on a request for one packet or block; a
\* request for several is as many of these, and it may be carried out twice.
\* The station asks for a whole block only when it lies between two others.
RetransmissionRequest(id, blk, idx) ==
  /\ pc = "idle"
  /\ id # lastRetrId
  /\ idx = WholeBlock => blk > 0
  /\ lastRetrId' = id
  /\ sent' = Resent(blk, idx)
  /\ UNCHANGED <<pc, packets, nextBlk, nextPkt, fill, send, sendPkt, scheme, nextScheme,
                 frameVars, lastSent>>

\* Mutant: the packet in place n is not sent.
RestBehind(n, d) ==
  {packets[Back(fill, d)][k] :
     k \in {k \in PacketIndex : /\ k < packets[Back(fill, d)][0].data
                               /\ packets[Back(fill, d)][k].info > n}}

\* The packets of a block that are in place n of their frame or behind.
RestOfBlock(n, d) ==
  {packets[Back(fill, d)][k] :
     k \in {k \in PacketIndex : /\ k < packets[Back(fill, d)][0].data
                               /\ packets[Back(fill, d)][k].info >= n}}

\* resendVideoPacketsFromFrameEnd: the packets it sends.  It walks back over
\* the slots, from the one being filled, through the blocks of the frame.
RestResent(f, n) ==
  LET IsOf(d)  == packets[Back(fill, d)][0].frame = f
      first    == {d \in 0 .. MaxBlocks - 1 : IsOf(d) /\ \A e \in 0 .. d - 1 : ~ IsOf(e)}
      Walks(d) == \A e \in 1 .. d : ~ packets[Back(fill, e)][0].empty
      blocks   == {d \in 0 .. MaxBlocks - 1 :
                     /\ Walks(d)
                     /\ \E b \in first : /\ b <= d
                                         /\ \A e \in b .. d : IsOf(e)
                                         /\ d = b \/ RestOfBlock(n, b) # {}}
  IN  {p \in UNION {RestOfBlock(n, d) : d \in blocks} : ~ p.empty}

\* The same command on a request for the rest of a frame.
RestRequest(id, f, n) ==
  /\ pc = "idle"
  /\ id # lastRetrId
  /\ lastRetrId' = id
  /\ sent' = RestResent(f, n)
  /\ UNCHANGED <<pc, packets, nextBlk, nextPkt, fill, send, sendPkt, scheme, nextScheme,
                 frameVars, lastSent>>

(***************************************************************************)
(* Settings.                                                               *)
(***************************************************************************)
\* updateVideoHeader and setCustomECScheme
ChangeScheme(s) ==
  /\ pc = "idle"
  /\ nextScheme' = s
  /\ scheme' = IF nextPkt = 0 THEN s ELSE scheme
  /\ sent' = {}
  /\ UNCHANGED <<pc, packets, nextBlk, nextPkt, fill, send, sendPkt, frameVars,
                 lastRetrId, lastSent>>

\* discardBuffer, when video or camera parameters change
DiscardBuffer ==
  /\ pc = "idle"
  /\ Discard
  /\ sent' = {}
  /\ UNCHANGED <<pc, packets, scheme, nextScheme, frameVars, lastRetrId>>

Next ==
  \/ \E n \in FrameSizes : StartFrame(n)
  \/ AddPacket
  \/ StartSend
  \/ SendPacket
  \/ SendDone
  \/ \E id \in RetrIds, blk \in 0 .. MaxBlockNumber + MaxBlocks,
        idx \in PacketIndex \cup {WholeBlock} : RetransmissionRequest(id, blk, idx)
  \/ \E id \in RetrIds, f \in 1 .. MaxFrames, n \in UNION {1 .. size - 1 : size \in FrameSizes} :
       RestRequest(id, f, n)
  \/ \E s \in Schemes : ChangeScheme(s)
  \/ DiscardBuffer

Spec == Init /\ [][Next]_vars

(***************************************************************************)
(* Properties.                                                             *)
(***************************************************************************)
SchemeType == [data : Nat, ec : Nat]
PacketType ==
  [empty : BOOLEAN, blk : Nat, idx : Nat, data : Nat, ec : Nat, frame : Nat, info : Int]

TypeOK ==
  /\ pc \in {"idle", "frame", "send"}
  /\ packets \in [Slot -> [PacketIndex -> PacketType]]
  /\ nextBlk \in Nat /\ nextPkt \in PacketIndex
  /\ fill \in Slot /\ send \in Slot /\ sendPkt \in PacketIndex
  /\ scheme \in SchemeType /\ nextScheme \in Schemes
  /\ frame \in Nat /\ frameSize \in Nat /\ frameLeft \in Nat /\ added \in Nat
  /\ lastRetrId \in Nat
  /\ sent \subseteq PacketType
  /\ lastSent \in [known : BOOLEAN, blk : Nat, idx : Nat, last : BOOLEAN]

\* Where a slot is, its packets say: the slot d places before the one being
\* filled has packets of the block d numbers back and of no other.
SlotsNumbered ==
  \A d \in 0 .. MaxBlocks - 1, k \in PacketIndex :
    LET p == packets[Back(fill, d)][k]
    IN  d <= nextBlk /\ nextBlk + nextPkt > 0 /\ ~ p.empty =>
          p.blk = nextBlk - d /\ p.idx = k

\* Every finished block of the ring is whole and of one scheme: each of its
\* data and EC packets is there and names the same scheme, which is what the
\* station rebuilds the block by.
BlocksWhole ==
  \A d \in 1 .. MaxBlocks - 1 :
    LET slot == packets[Back(fill, d)]
    IN  d <= nextBlk =>
          /\ slot[0].data > 0
          /\ \A k \in 0 .. slot[0].data + slot[0].ec - 1 :
               /\ ~ slot[k].empty
               /\ slot[k].data = slot[0].data /\ slot[k].ec = slot[0].ec

\* A frame ends its block: between frames no packet waits for a later one.
FrameEndsBlock == pc # "frame" => nextPkt = 0

\* The send loop sends the stream packet by packet: the data and EC packets
\* of every block in order, none left out, sent anew or found empty (the code
\* logs "Try to send empty packet"), up to a discard of the whole buffer.
OriginalsInOrder ==
  [][SendPacket =>
       /\ sent' # {}
       /\ \A p \in sent' :
            IF ~ lastSent.known THEN p.blk = 0 /\ p.idx = 0
            ELSE IF lastSent.last THEN p.blk = lastSent.blk + 1 /\ p.idx = 0
            ELSE p.blk = lastSent.blk /\ p.idx = lastSent.idx + 1]_vars

\* A retransmission brings what was asked for: the packet with that number,
\* or for a whole block only packets of that block.
ResendsWhatIsAsked ==
  [][\A id \in RetrIds, blk \in 0 .. MaxBlockNumber + MaxBlocks,
        idx \in PacketIndex \cup {WholeBlock} :
       RetransmissionRequest(id, blk, idx) =>
         \A p \in sent' : p.blk = blk /\ (idx = WholeBlock \/ p.idx = idx)]_vars

\* A packet of the last MaxBlocks - 1 finished blocks can always be had again.
RecentBlocksAvailable ==
  \A d \in 1 .. MaxBlocks - 1 :
    d <= nextBlk =>
      LET data == packets[Back(fill, d)][0].data
      IN  \A k \in 0 .. data - 1 :
            /\ \E p \in Resent(nextBlk - d, k) : p.idx = k
            /\ \E p \in Resent(nextBlk - d, WholeBlock) : p.idx = k

\* The station reckons from any packet of a block at which place the block
\* ends in its frame, and asks for what comes after: the vehicle sends just
\* the data packets of the blocks of the frame behind it, all of them.  It
\* does so until the slot of the frame's first block is opened for a new one.
FrameRestAvailable ==
  pc # "frame" =>
    \A d \in 1 .. MaxBlocks - 1, k \in PacketIndex :
      LET slot  == packets[Back(fill, d)]
          p     == slot[k]
          start == IF IsData(p) THEN p.info - p.idx ELSE p.info - (p.data - 1)
          later == {e \in 1 .. d - 1 : packets[Back(fill, e)][0].frame = p.frame}
      IN  /\ d <= nextBlk /\ k < slot[0].data + slot[0].ec
          /\ p.frame # packets[fill][0].frame
          => RestResent(p.frame, start + p.data) =
               {q \in UNION {{packets[Back(fill, e)][j] : j \in PacketIndex} : e \in later} :
                  ~ q.empty /\ IsData(q)}
=============================================================================
