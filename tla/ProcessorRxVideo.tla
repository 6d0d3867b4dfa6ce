-------------------------- MODULE ProcessorRxVideo --------------------------
(***************************************************************************)
(* The station's processor of one received video stream (class             *)
(* ProcessorRxVideo of code/r_station/processor_rx_video.cpp) over its     *)
(* receive buffer (module VideoRxBuffer).                                  *)
(*                                                                         *)
(* The router thread calls the handlers one after the other.  The two      *)
(* loops inside them are unrolled: `pc' tells which loop the thread is in, *)
(* and no other handler runs until it is back at "idle".                   *)
(*                                                                         *)
(* The radio may lose, repeat, delay and reorder everything: any packet of *)
(* the stream may arrive at any time, and a retransmission any number of   *)
(* times once asked for.                                                   *)
(***************************************************************************)
EXTENDS VideoRxBuffer, Sequences

CONSTANTS
  Blocks,        \* the numbers of the video blocks sent
  SchemesOf,     \* the schemes the packets of a block may carry: sets of
                 \* records [data, ec, size], one of each block
  RestartGap,    \* 50: this many blocks back means that the stream restarted
  RequestCap,    \* DEFAULT_VIDEO_RETRANS_MAX_PCOUNT
  MaxRequests    \* bound of the model: requests sent in one behaviour

ASSUME ProcessorAssumption ==
  /\ Blocks \subseteq Nat
  /\ SchemesOf \in [Blocks -> SUBSET [data : Nat \ {0}, ec : Nat, size : Nat]]
  /\ \A blk \in Blocks : \A s \in SchemesOf[blk] : s.data + s.ec <= MaxPacketsInBlock
  /\ RestartGap \in Nat /\ RequestCap \in Nat /\ MaxRequests \in Nat

WholeBlock == 255

\* What a video packet header tells: t_packet_header_video_segment
PacketOf(blk, idx, s) ==
  [blk |-> blk, idx |-> idx, data |-> s.data, ec |-> s.ec, size |-> s.size]

VARIABLES
  pc,             \* "idle", "output" or "skip" (output loop), "discard"
  buf,            \* m_pVideoRxBuffer
  lastOutput,     \* m_LastOutputedVideoPacketInfo, m_uTimeLastOutputedVideoPacket
  newestBlk,      \* m_NewestReceivedVideoPacketInfo.uCurrentBlockIndex
  paused,         \* m_bPaused
  pauseTempRetr,  \* m_bPauseTempRetrUntillANewVideoPacket
  retrId,         \* m_uRequestRetransmissionUniqueId
  requests,       \* the requests queued to the vehicle, first to last
  flushed         \* auxiliary: the buffer was emptied since the last output

vars == <<pc, buf, lastOutput, newestBlk, paused, pauseTempRetr, retrId, requests, flushed>>

NoOutput == [known |-> FALSE, blk |-> 0, idx |-> 0]

Init ==
  /\ pc = "idle"
  /\ buf = EmptyBuffer
  /\ lastOutput = NoOutput
  /\ newestBlk = 0
  /\ paused = FALSE
  /\ pauseTempRetr = FALSE
  /\ retrId = 0
  /\ requests = <<>>
  /\ flushed = FALSE

(***************************************************************************)
(* The handlers of a received packet.                                      *)
(***************************************************************************)
\* The packet goes to the buffer; the output loop runs if it was added.  Its
\* `bSkipMissing' is fixed on entry by the retransmission state, which
\* depends on settings and links outside this class.
AddAndOutput(b, p) ==
  /\ buf' = CheckAdd(b, p)
  /\ flushed' = (flushed \/ Empties(b, p))
  /\ IF IsAdded(b, p) THEN pc' \in {"output", "skip"} ELSE pc' = "idle"

StreamRestarted(p) == newestBlk > RestartGap /\ p.blk < newestBlk - RestartGap

\* Mutant: only the block being output is looked at.
AlreadyOutputInBlock(p) ==
  lastOutput.known /\ p.blk = lastOutput.blk /\ p.idx <= lastOutput.idx

AlreadyOutput(p) ==
  \/ p.blk < lastOutput.blk
  \/ lastOutput.known /\ p.blk = lastOutput.blk /\ p.idx <= lastOutput.idx

\* handleReceivedVideoPacket
ReceivePacket(p) ==
  /\ pc = "idle"
  /\ ~ paused
  /\ ~ StreamRestarted(p)
  /\ ~ AlreadyOutput(p)
  /\ newestBlk' = IF p.blk > newestBlk THEN p.blk ELSE newestBlk
  /\ pauseTempRetr' = FALSE
  /\ UNCHANGED <<lastOutput, paused, retrId, requests>>
  /\ AddAndOutput(buf, p)

\* The same, when the packet shows that the vehicle restarted the stream.
ReceiveRestart(p) ==
  /\ pc = "idle"
  /\ ~ paused
  /\ StreamRestarted(p)
  /\ newestBlk' = p.blk
  /\ pauseTempRetr' = FALSE
  /\ lastOutput' = NoOutput
  /\ retrId' = 0
  /\ UNCHANGED <<paused, requests>>
  /\ AddAndOutput(EmptyBuffers(buf), p)

\* The packets a request makes the vehicle send again.
Answers(request, p) ==
  \/ [blk |-> p.blk, idx |-> p.idx] \in request.wanted
  \/ [blk |-> p.blk, idx |-> WholeBlock] \in request.wanted /\ p.idx < p.data

\* handleReceivedVideoRetrPacket.  The test against the last resolution
\* change is left out: it only drops further packets, as the radio does.
ReceiveRetransmission(request, p) ==
  /\ pc = "idle"
  /\ ~ paused
  /\ Answers(request, p)
  /\ request.id <= retrId
  /\ ~ HasVideoPacket(buf, p.blk, p.idx)
  /\ p.blk >= BottomBlk(buf)
  /\ p.blk >= lastOutput.blk
  /\ UNCHANGED <<lastOutput, newestBlk, paused, pauseTempRetr, retrId, requests>>
  /\ AddAndOutput(buf, p)

(***************************************************************************)
(* The output loop, _checkAndOutputAvailablePackets.                       *)
(***************************************************************************)
NextPacketReady == Bottom(buf).seen /\ HasPacket(Bottom(buf), buf.bottomPkt)

DiscardIncomplete ==
  /\ pc = "skip"
  /\ Count(buf) # 0
  /\ BottomIsDiscardable(buf)
  /\ buf' = DropBottom(buf)
  /\ UNCHANGED <<pc, lastOutput, newestBlk, paused, pauseTempRetr, retrId, requests, flushed>>

\* processAndOutputVideoPacket, then on to the next packet
OutputPacket ==
  /\ pc \in {"output", "skip"}
  /\ Count(buf) # 0
  /\ ~ (pc = "skip" /\ BottomIsDiscardable(buf))
  /\ NextPacketReady
  /\ lastOutput' = [known |-> TRUE, blk |-> BottomBlk(buf), idx |-> buf.bottomPkt]
  /\ flushed' = FALSE
  /\ buf' = AdvanceBottomPacket(buf)
  /\ UNCHANGED <<pc, newestBlk, paused, pauseTempRetr, retrId, requests>>

OutputDone ==
  /\ pc \in {"output", "skip"}
  /\ \/ Count(buf) = 0
     \/ ~ (pc = "skip" /\ BottomIsDiscardable(buf)) /\ ~ NextPacketReady
  /\ pc' = "idle"
  /\ UNCHANGED <<buf, lastOutput, newestBlk, paused, pauseTempRetr, retrId, requests, flushed>>

(***************************************************************************)
(* checkAndRequestMissingPackets, called by the periodic loop.  Its early  *)
(* returns on settings, links and timers are free choices of the model.    *)
(***************************************************************************)
CheckMissing ==
  /\ pc = "idle"
  /\ Count(buf) # 0
  /\ ~ pauseTempRetr
  /\ pc' = "discard"
  /\ UNCHANGED <<buf, lastOutput, newestBlk, paused, pauseTempRetr, retrId, requests, flushed>>

\* discardOldBlocks: as many blocks from the bottom as are past the window.
DiscardOldBlock ==
  /\ pc = "discard"
  /\ BottomBlk(buf) <= TopBlk(buf)
  /\ Bottom(buf).seen
  /\ buf' = DropBottom(buf)
  /\ UNCHANGED <<pc, lastOutput, newestBlk, paused, pauseTempRetr, retrId, requests, flushed>>

CheckDone ==
  /\ pc = "discard"
  /\ pc' = "idle"
  /\ UNCHANGED <<buf, lastOutput, newestBlk, paused, pauseTempRetr, retrId, requests, flushed>>

\* No new packet for the whole window: everything is discarded.
NoVideoTimeout ==
  /\ pc = "discard"
  /\ Count(buf) # 0
  /\ ~ paused
  /\ pc' = "idle"
  /\ buf' = EmptyBuffers(buf)
  /\ lastOutput' = NoOutput
  /\ newestBlk' = 0
  /\ retrId' = 0
  /\ flushed' = FALSE
  /\ pauseTempRetr' = TRUE
  /\ UNCHANGED <<paused, requests>>

\* Mutant: EC packets still to come are counted in.
LackingAfterEC(block) == block.data - block.recvData - block.ec

\* How many more packets would complete the block.
Lacking(block) == block.data - block.recvData - block.recvEC

\* Mutant: the first n packets are asked for, there or not.
FirstOfBlock(block, n) ==
  {[blk |-> block.index, idx |-> k] : k \in {k \in 0 .. block.data - 1 : k < n}}

\* The first n missing data packets of a block, as request entries.
FirstMissing(block, n) ==
  {[blk |-> block.index, idx |-> k] :
     k \in {k \in Missing(block) : Cardinality({j \in Missing(block) : j < k}) < n}}

NothingReceived(block) == block.recvData + block.recvEC = 0

\* What is asked of a block once `count' packets are: all of it if nothing
\* was received, whatever the cap; else at least one packet, up to what it
\* lacks or to the cap.
WantedOf(block, count) ==
  LET room == IF count + 1 > RequestCap THEN 1 ELSE RequestCap - count
  IN  IF NothingReceived(block)
        THEN {[blk |-> block.index, idx |-> WholeBlock]}
        ELSE FirstMissing(block, IF Lacking(block) < room THEN Lacking(block) ELSE room)

\* The packets counted when the scan from the bottom comes to the d-th block,
\* and whether it ends there: only a block received in part looks at the cap.
CountedBefore(d) ==
  Cardinality(UNION {WantedOf(FromBottom(buf, e), 0) : e \in 0 .. d - 1})

ScanEndsAt(d) ==
  LET block == FromBottom(buf, d)
  IN  /\ ~ NothingReceived(block)
      /\ Lacking(block) > 0
      /\ CountedBefore(d) + Lacking(block) >= RequestCap

WantedBelowTop ==
  UNION {WantedOf(FromBottom(buf, d), CountedBefore(d)) :
           d \in {d \in 0 .. Count(buf) - 2 : \A e \in 0 .. d - 1 : ~ ScanEndsAt(e)}}

WantedOfTop ==
  LET block == FromBottom(buf, Count(buf) - 1)
  IN  IF block.data # 0 /\ block.maxIdx >= 0 /\ Lacking(block) > 0
        THEN WantedOf(block, Cardinality(WantedBelowTop))
        ELSE {}

Wanted == WantedBelowTop \cup WantedOfTop

RequestMissing ==
  /\ pc = "discard"
  /\ Count(buf) # 0
  /\ ~ paused
  /\ Wanted # {}
  /\ Len(requests) < MaxRequests
  /\ retrId' = retrId + 1
  /\ requests' = Append(requests, [id |-> retrId + 1, wanted |-> Wanted])
  /\ pc' = "idle"
  /\ UNCHANGED <<buf, lastOutput, newestBlk, paused, pauseTempRetr, flushed>>

(***************************************************************************)
(* Resets and pauses, called from other parts of the station.              *)
(***************************************************************************)
\* fullResetState: settings changed, or the radio layer saw a vehicle restart
FullReset ==
  /\ pc = "idle"
  /\ buf' = EmptyBuffers(buf)
  /\ lastOutput' = NoOutput
  /\ newestBlk' = 0
  /\ retrId' = 0
  /\ flushed' = FALSE
  /\ UNCHANGED <<pc, paused, pauseTempRetr, requests>>

\* discardRetransmissionsInfoAndBuffersOnLengthyOp: resetReceiveState only
LengthyOperation ==
  /\ pc = "idle"
  /\ buf' = EmptyBuffers(buf)
  /\ newestBlk' = 0
  /\ retrId' = 0
  /\ flushed' = (flushed \/ ~ buf.empty)
  /\ UNCHANGED <<pc, lastOutput, paused, pauseTempRetr, requests>>

PauseProcessing ==
  /\ pc = "idle"
  /\ paused' = TRUE
  /\ UNCHANGED <<pc, buf, lastOutput, newestBlk, pauseTempRetr, retrId, requests, flushed>>

ResumeProcessing ==
  /\ pc = "idle"
  /\ paused' = FALSE
  /\ UNCHANGED <<pc, buf, lastOutput, newestBlk, pauseTempRetr, retrId, requests, flushed>>

OutputLoop == OutputPacket \/ DiscardIncomplete \/ OutputDone

Next ==
  \/ \E blk \in Blocks, idx \in PacketIndex : \E s \in SchemesOf[blk] :
       /\ idx < s.data + s.ec
       /\ \/ ReceivePacket(PacketOf(blk, idx, s))
          \/ ReceiveRestart(PacketOf(blk, idx, s))
          \/ \E i \in 1 .. Len(requests) :
               ReceiveRetransmission(requests[i], PacketOf(blk, idx, s))
  \/ OutputLoop
  \/ CheckMissing
  \/ DiscardOldBlock
  \/ CheckDone
  \/ NoVideoTimeout
  \/ RequestMissing
  \/ FullReset
  \/ LengthyOperation
  \/ PauseProcessing
  \/ ResumeProcessing

Spec == Init /\ [][Next]_vars

\* Once in the output loop the router thread runs it to its end.
FairSpec == Spec /\ WF_vars(OutputLoop)

(***************************************************************************)
(* Properties.                                                             *)
(***************************************************************************)
BlockType ==
  [index : Nat, seen : BOOLEAN, data : Nat, ec : Nat, size : Nat,
   recvData : Nat, recvEC : Nat, maxIdx : Nat \cup {-1},
   pkts : [PacketIndex -> {"empty", "received", "rebuilt"}]]

BufferType ==
  [empty : BOOLEAN, top : Slot, bottom : Slot, bottomPkt : Nat,
   blocks : [Slot -> BlockType]]

TypeOK ==
  /\ pc \in {"idle", "output", "skip", "discard"}
  /\ buf \in BufferType
  /\ lastOutput \in [known : BOOLEAN, blk : Nat, idx : Nat]
  /\ newestBlk \in Nat
  /\ paused \in BOOLEAN
  /\ pauseTempRetr \in BOOLEAN
  /\ retrId \in Nat
  /\ requests \in Seq([id : Nat, wanted : SUBSET [blk : Nat, idx : Nat]])
  /\ flushed \in BOOLEAN

\* The ring of a buffer in use: block numbers follow each other from the
\* bottom slot to the top one, every slot between them was opened, and the
\* ring never closes on itself.  When everything was output the bottom
\* stands just past the top.
RingOK(b) ==
  LET d == TopBlk(b) - BottomBlk(b)
  IN  /\ d \in -1 .. MaxBlocks - 3
      /\ b.top = IF d = -1 THEN Back(b.bottom, 1) ELSE Ahead(b.bottom, d)
      /\ \A i \in 0 .. d : /\ FromBottom(b, i).index = BottomBlk(b) + i
                           /\ FromBottom(b, i).seen

\* An empty buffer is like new: no slot keeps anything of an older stream.
BufferConsistent == IF buf.empty THEN buf = EmptyBuffer ELSE RingOK(buf)

\* In every block the counters, which decide when to rebuild, to discard
\* and to request, agree with the packets held; and packets are rebuilt
\* only from enough received ones.  (Every block of its own scheme: one that
\* mixes the schemes of two streams has no such guarantee.)
CountersAgree ==
  \A s \in Slot :
    LET block   == buf.blocks[s]
        Held(S) == Cardinality({k \in S : HasPacket(block, k)})
    IN  /\ block.recvData = Held(0 .. block.data - 1)
        /\ block.recvEC = Held(block.data .. block.data + block.ec - 1)
        /\ (\E k \in PacketIndex : block.pkts[k] = "rebuilt") =>
              Cardinality({k \in PacketIndex : block.pkts[k] = "received"}) >= block.data

Precedes(o, blk, idx) == o.blk < blk \/ (o.blk = blk /\ o.idx < idx)

\* Where the output stands against the buffer.  The packets output before
\* stay behind its bottom; inside a block the next packet to output follows
\* the last one; and the buffer is never empty after an output without
\* having been emptied, so that only then may a block start again.
OutputPosition ==
  /\ lastOutput.known =>
       IF buf.empty THEN flushed
       ELSE IF flushed THEN lastOutput.blk <= BottomBlk(buf)
       ELSE Precedes(lastOutput, BottomBlk(buf), buf.bottomPkt)
  /\ buf.bottomPkt > 0 =>
       /\ ~ flushed
       /\ lastOutput = [known |-> TRUE, blk |-> BottomBlk(buf), idx |-> buf.bottomPkt - 1]

\* What the player gets between two full resets: packets in stream order, a
\* block from its first packet on and without holes, each packet once.  Only
\* when the buffer was emptied in the middle may a block start again.
OutputInOrder ==
  [][OutputPacket =>
       \/ /\ lastOutput'.idx = 0
          /\ lastOutput.known =>
               IF flushed THEN lastOutput.blk <= lastOutput'.blk
                          ELSE lastOutput.blk < lastOutput'.blk
       \/ /\ lastOutput.known
          /\ lastOutput' = [lastOutput EXCEPT !.idx = @ + 1]]_vars

\* With retransmissions off nothing waits: once a packet of a newer block
\* is there the output loop leaves no older block in the buffer.
SkippingHoldsNothingBack ==
  [][pc = "skip" /\ pc' = "idle" => Count(buf) <= 1]_vars

\* The loop of _checkAndOutputAvailablePackets ends.
OutputLoopEnds == pc \in {"output", "skip"} ~> pc = "idle"

\* A request names only packets of blocks in the buffer that are not there,
\* and none that was output before, unless the buffer was emptied since.
Requested == requests'[Len(requests')].wanted
RequestsNameMissing ==
  [][requests' # requests =>
       \A w \in Requested :
         /\ BottomBlk(buf) <= w.blk /\ w.blk <= TopBlk(buf)
         /\ LET block == FromBottom(buf, w.blk - BottomBlk(buf))
            IN  IF w.idx = WholeBlock
                  THEN \A k \in PacketIndex : ~ HasPacket(block, k)
                  ELSE w.idx < block.data /\ ~ HasPacket(block, w.idx)
         /\ lastOutput.known /\ ~ flushed => Precedes(lastOutput, w.blk, w.idx)]_vars

\* A request that stays under the cap asks for all it takes: answered in
\* full, it completes every block in the buffer.
RequestsSuffice ==
  [][requests' # requests /\ Cardinality(Requested) < RequestCap =>
       \A d \in 0 .. Count(buf) - 1 :
         LET block == FromBottom(buf, d)
             asked == {w \in Requested : w.blk = block.index}
         IN  \/ [blk |-> block.index, idx |-> WholeBlock] \in asked
             \/ block.recvData + block.recvEC + Cardinality(asked) >= block.data]_vars

\* processor_rx_video.cpp:471: "Discard retransmitted packets that: ... We
\* already received the original packet meanwhile".  A retransmitted packet
\* that is taken was not output before.
RetransmissionsTakenAreNew ==
  [][\A i \in 1 .. Len(requests), blk \in Blocks, idx \in PacketIndex :
       \A s \in SchemesOf[blk] :
         LET p == PacketOf(blk, idx, s)
         IN  ReceiveRetransmission(requests[i], p) /\ IsAdded(buf, p) =>
               ~ AlreadyOutput(p)]_vars
=============================================================================
