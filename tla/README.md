# RubyFPV in TLA+

RubyFPV is a digital radio link for drones: a *vehicle* (air unit) sends video,
telemetry and audio over one or more radio links to a *station* (ground unit,
also "controller"), which sends commands and retransmission requests back. Each
side is a handful of processes; the heart of both is the *router*
(`r_vehicle/ruby_rt_vehicle.cpp`, `r_station/ruby_rt_station.cpp`), whose main
loop drains the radio and serves everything else, next to a radio receive
thread and, on the station, a transmit thread. All paths below are under
`src/code/`.

This directory holds TLA+ modules of the parts where packets are kept, ordered,
repaired and repeated, and of two dialogues the ends hold over that radio; the TLC
configurations that check them on small instances; and TLAPS proofs for all sizes.

    tlc -workers 2 -config MCProcessorRxVideo.cfg MCProcessorRxVideo
    tlapm ProcessorRxVideoProofs.tla
    tlapm ProcessorRxVideoCounters.tla

## 1. Inventory

| Component | State it keeps | Operations | Hard behaviour | What makes it correct |
|---|---|---|---|---|
| Router packet queue `radio/radiopacketsqueue.c` | ring of 64 slots, two positions, time of first packet | init, add, inject first, pop, peek, count | full ring, popped packet read from a freed slot | a bounded deque; a popped packet keeps its bytes |
| Radio receive queue `radio/radio_rx.c` | ring per priority, mutex, semaphore | add (receive thread), wait and take (main loop) | slots accessed outside the mutex, overflow against the semaphore | packets whole, once, in order; none left behind |
| Station receive buffer `r_station/video_rx_buffers.cpp` | ring of 100/70 block slots, bottom, top, counters per block | add packet, rebuild by EC, discard, advance, empty | gaps, overflow, restart of numbers, change of scheme | ring numbered without holes; counters agree with packets |
| Station video processor `r_station/processor_rx_video.cpp` | last packet output, newest block, request id, pause flags | receive original / retransmission, output loop, request, discard, resets | loss, repetition, reordering, late answers, resets in between | output in stream order, no packet twice; requests name what is missing |
| Vehicle transmit buffer `r_vehicle/video_tx_buffers.cpp`, `processor_tx_video.cpp` | ring of block slots, fill and send positions, schemes | append frame, send available, resend, discard, change scheme | send position caught up, scheme change, short blocks, resend of old slots | blocks whole and in order; a resend is the packet asked for |
| Duplicate detection `radio/radio_duplicate_det.c` | per vehicle and stream: newest index, hash of 512 indexes, restart flag | is duplicate, remove vehicle, reset flag | shared by receive thread and router without a lock; restart of the vehicle | each packet accepted once, none lost |
| Radio transmit `radio/radio_tx.c` | queue to a thread | queue, send | as the receive queue | as the receive queue |
| Adaptive video `r_*/adaptive_video.cpp` | requested and acknowledged profile | request, acknowledge, time out | lost requests, stale acknowledgements | both ends settle on one profile |
| Link parameter test `r_*/test_link_params.cpp` | state, parameters and counts of a test at each end, threads that set the interfaces | start, apply, ping uplink and downlink, end, revert | either end times out alone; late threads and messages | same test at both ends, success is proved, it ends and leaves nothing paused |
| Radio negotiation `r_vehicle/negociate_radio.cpp` | parameters under test | apply, measure, keep, revert | link lost in the middle | the last working parameters come back |
| Software upload `r_vehicle/process_upload.cpp`, `r_central/menu/menu_objects.cpp` | segments received, segment and stretch being sent | segment, confirm, reject, cancel, time out, process | loss, repetition, late answers, cancel against timeout | what is confirmed is held; the upload ends and the video comes back |
| Commands `r_vehicle/ruby_rx_commands.cpp`, `r_central/handle_commands.cpp` | one command outstanding, counters | send, retry, reply | reply lost, retry arrives twice | at most one execution per command |
| Audio `r_*/processor_*_audio.cpp`, `generic_*_ecbuffers.cpp` | small EC rings | add, output | loss, restart | in order |
| Relay, telemetry, RC, IPC, settings, hardware, user interface, start-up | newest sample, files, menus | | I/O | not modelled |

How they interact on the way of a video frame:

    camera -> VideoTxPacketsBuffer (vehicle) -> radio (loses, repeats, reorders)
      -> receive thread -> duplicate detection -> receive queue -> station router
      -> ProcessorRxVideo -> VideoRxPacketsBuffer -> player
    ProcessorRxVideo -> router packet queue -> radio -> vehicle router
      -> process_data_tx_video_command -> resendVideoPacket -> radio -> ...

The test of link parameters runs between the two routers, with messages of its
own; an upload between the central process of the station, which blocks in a
menu, and the command receiver of the vehicle, over the numbered and
repeated commands of both.

Within a router everything but the receive and transmit threads runs in one
main loop: the handlers of a component never overlap. What interleaves is the
order of the calls, the radio between the two sides, and the two threads on the
receive queue and on the table of duplicate detection. Nothing of this is kept
on disk; after a crash a process starts with empty buffers, which its peer
sees as numbers that start again.

The hazards of this code, each at its line and with the properties that watch
it, are listed under `hazards` in `PROJECT.json`.

## 2. Modules

| Module | Models |
|---|---|
| `PacketsQueue` | the router's packet queue |
| `PacketsDeque` | what it promises: a bounded deque and the packet in the caller's hand |
| `PacketsQueueProofs` | its theorems |
| `RadioRxQueue` | one receive queue between the receive thread and the main loop |
| `RadioRxQueueProofs` | its theorems |
| `DuplicateDetection`, `DuplicateDetectionProofs` | the table of packet histories between the receive thread and the station's router |
| `VideoRxBuffer` | the station's receive buffer, as operators on its value |
| `ProcessorRxVideo` | the station's processor of a video stream over that buffer |
| `ProcessorRxVideoProofs` | theorems of both |
| `ProcessorRxVideoCounters` | theorems that need the counters of a block to be right |
| `VideoTxBuffer`, `VideoTxBufferProofs` | the vehicle's transmit buffer |
| `TestLink`, `TestLinkProofs` | the test of radio link parameters, both ends and the radio between; its theorems |
| `Upload`, `UploadProofs` | the software upload, both ends and the radio between; its theorems |
| `MC...` | definitions for the `.cfg` files |

Names in the modules are those of the code where TLA+ allows it; the others are
mapped, definition by definition, in `PROJECT.json` (`map`). Operators whose
comment starts with "Mutant" are deliberate mistakes; a run with one of them in
place of its original must fail (`mutants` in `PROJECT.json`).

**PacketsQueue.** A position is -1 before first use, as after
`packets_queue_init`. `held` is the slot of the last popped packet: the code
returns a pointer into the ring and gives the slot back in the same call.
Injecting in front gives up `held`, because the injected packet is written into
that slot; the routers inject from handlers that hold no packet of that queue. Injecting has no full
test; into a full ring it makes start equal to end and the ring look empty. The
abstract deque says so: `InjectFirst` at capacity loses everything.

**RadioRxQueue.** Two threads, one step per access: the two critical sections
are atomic, the write of a slot's fields, the two ends of each `memcpy`, and the
semaphore operations are steps of their own. A slot holds the number of the
packet its fields and its bytes belong to, so a torn read is visible as two
different numbers. The retry after 200 microseconds in the wait is just another
wait of the main loop. Both queues (regular, high priority) are instances.

**DuplicateDetection.** Vehicles number the packets of each stream; every
interface hears some of them and delivers them in order, but at most `MaxLag` behind
the others: the receive thread reads up to 5 packets of an interface in each of 5 rounds
before it looks whether another has any (`radio/radio_rx.c:1143-1236`), which makes about
25, fewer than the 50 that are the least distance of a restart and more than the 10 that do
after a silence. `ReceiveNew`, `ReceiveDuplicate` and `ReceiveNoRoom` are the
outcomes of the test the receive thread makes of a packet, with what they do to the
table; a new packet goes to the router, through a queue that gives up its oldest
packet when it is full. The router's reset of a restarted vehicle is two steps,
between which the entry has no vehicle. Of the clock, which counts from the start of the
system (`base/base.c:286-295`), only the 8 seconds of the restart test are told apart: `early`
until `EightSecondsPast`, when the time 8 seconds ago wraps below zero and every stream
counts as silent; and a stream that was heard becomes silent by `Silence`, when what the
interfaces had of it is read. `MaxDelta` is 2000 for audio and video streams and 50 (serial
radios: 200) for the others, `PauseDelta` is 10. Packets come from vehicles
the station is paired with; others leave the router's handler before it asks
about a restart. A vehicle takes seconds to start again, so that nothing of its
former life is on the way to the receive thread, though it may be in the queue.
`accepted`, `seen` and `restarted` are auxiliary. The
check of a packet is one step: races inside it, where the router clears the entry the
receive thread holds a pointer to, are left out.

**VideoRxBuffer.** A block is a record of its number, whether it was opened
(`uReceivedTime` other than 0), scheme, packet size, counters, highest packet
index and what is known of each packet (`bEmpty`, and whether EC rebuilt it).
`checkAddVideoPacket` is split into the choice of the slot (`IsTooOld`,
`IsFuture`, `Overflows`, `Extended`) and `AddToSlot`. EC is its contract: with as
many packets as the block has data packets, the missing data packets are there.
The code does not look at the result of `fec_decode`, and neither does the model.

**ProcessorRxVideo.** `ReceivePacket`, `ReceiveRestart` and
`ReceiveRetransmission` are the handlers up to the call of the output loop,
whose turns are `DiscardIncomplete`, `OutputPacket` and `OutputDone`; while `pc`
is not "idle" no other handler runs, as in the code. `CheckMissing` is
`checkAndRequestMissingPackets`: `DiscardOldBlock` turns, then one of
`NoVideoTimeout`, `RequestMissing`, `CheckDone`. Free choices of the model, which
cover whatever settings, link state and clock give: whether retransmissions are
on when the loop starts (`bSkipMissing`), when the windows and throttles pass,
how many old blocks are discarded. `FullReset`, `LengthyOperation`,
`PauseProcessing` and `ResumeProcessing` are the calls of the rest of the
station. Any packet of the stream may arrive at any time, any number of times,
under any of the schemes its block may have (`SchemesOf`: one, unless the vehicle starts
its numbers again): loss, repetition, reordering and a vehicle that started again
need no machinery of their own. `flushed` is auxiliary: the buffer was emptied
since the last output while the last output was kept. A request for a whole
block (packet number 0xFF) counts towards the cap of 10, but the cap is not tested
there.

**VideoTxBuffer.** A frame is the number of data packets it needs. `AddPacket`
is one turn of its loop with the EC packets that close a block; the last packet
of a frame cuts the block short, or the block was stretched at its start to take
the rest in. `nextPkt` stands for the two packet positions the code always moves
together. Allocation failures are left out. A request for several packets is as
many single requests; whole blocks are asked for only between two others, so
never block 0. Every packet carries the number of its frame and, written by
`Placed` when the frame is complete, its place in it; `RestRequest` asks for a frame from a place on
and is answered by the walk of `resendVideoPacketsFromFrameEnd`. Frames have at
most 255 packets; the code caps its count there. With `m_bVideoPaused` a packet is not handed to the radio, which
the model takes for a loss. A block of a stream without EC that is cut short
gets one EC packet (the share is rounded up from 0.001); the model has it.

**TestLink.** Each end is a record with the fields the two files keep in static
variables; the two have the same names and, but for the handlers, the same
functions, so that timeout, apply, revert and ping are actions of either side.
The parameters are model values: the ends hear each other when their radios are set
alike. The thread that sets the interfaces is a worker; it may come to its end late,
after the step it was for has timed out, and it may fail. The messages are a set that loses, delays and
reorders; copies of one message that are sent in a burst are one, lost together. A
message gets on its way only when the radios are set alike and no interface is paused,
or when the ends have another link (`OtherLinks`). A message tells the number of its test in one byte, the
station compares it with its own, wider count: after `TestNumbers` tests it
takes no answer any more, and every test fails. Timeouts may fire in every state. A new test
starts only when no message of the station is on its way (the user takes seconds to
start one), and no two threads of a kind run at one
end. `heard` (the tests in which the downlink pings got through to each end) is auxiliary.

**Upload.** The station's blocking loop with its two nested retries, and the
commands below it: numbers, resend counters, the vehicle's memory of the last command and of its
answer, by which a repeated command is answered and not executed again. Five
seconds without a segment may pass at any time (`TimesOut`). Processing of the
archive is a thread; it ends in a reboot. Copies of a command sent together are one
message; all archives have the same number of segments, and
the names and kinds of the files are left out. `dropped` (the vehicle gave up what it had of
this upload) and `whole` are auxiliary.

## 3. Runs

Bounds are the smallest at which the interesting cases occur; sizes of the code
are 100 or 70 blocks of up to 32 packets, a cap of 10, queues of 64, 500 or 2000.

| Run | Instance | States | Shows |
|---|---|---|---|
| `packets_queue` | 4 slots, 2 packet values | 544 | positions, time of the first packet, a popped packet keeps its bytes (`HeldPacketIntact`), the deque (`ImplementsDeque`) |
| `rx_queue` | 3 slots, 6 packets | 4,862 | no packet without a token (`TokensCoverPackets`), whole and in order until the first overflow, the ring drains |
| `rx_overflow` | the same | | *violated*, see 6 |
| `duplicates` | 2 vehicles, 1 entry, 2 interfaces, 4 packets, 2 hash slots | 851,291 | past the first 8 seconds lag and silence are no restart (`NoFalseRestart`), a packet passes once (`TakenOnce`), what is dropped did pass (`DroppedWasTaken`) |
| `restart` | 1 vehicle, 2 lives, clock pings | 1,545,052 | the router handles a restart that was noticed |
| `duplicate_accepted` | 1 vehicle, 2 lives | | *violated*, see 6 |
| `rx_output` | 4 slots, 5 blocks, each of its own scheme: 2+1, 1+0, 2+1, 3+0, 2+0 | 78,172 | ring (`BufferConsistent`), counters (`CountersAgree`), output (`OutputPosition`, `OutputInOrder`), the loop ends and holds nothing back |
| `retransmissions` | 5 slots, 3 blocks, each under three schemes of two packet sizes, 1 request | 1,572,658 | requests name what is missing and suffice; answers keep the order, also when the scheme changes or two streams clash |
| `output_twice` | 4 slots, 3 blocks without EC, 1 request | | *violated*, see 6 |
| `tx_buffer` | 4 slots, schemes 3+1 and 3+0, 3 frames of 1, 10 or 11 packets | 52,573 | slots numbered, blocks whole, frames end blocks, originals in order, resends right and available, the rest of a frame exactly (`FrameRestAvailable`) |
| `test_link` | 2 sets of parameters, 2 tests, 2 pings a step, 1 message in all | 611,695 | same test at both ends (`SameTest`), success is proved (`SuccessIsProved`), nothing is left paused or slowed (`NothingLeftBehind`), it ends (`TestEnds`) |
| `upload` | 4 segments, answers every 2, 2 uploads, 2 resends, 1 rejection, 1 message up and 2 down | 921,017 | what is confirmed is held (`ConfirmedIsHeld`), the upload ends and the vehicle does not stay without video (`UploadEnds`) |

With four block slots there are at most two whole blocks between bottom and top;
gaps of one, two and three blocks and an overflow all occur, and every slot is
used again. Three queue slots hold two packets; six arrivals go round twice.
A frame of one packet is a block of its own, sent twice; one of 10 takes three blocks, the
last of them stretched to 4; one of 11 takes four, the last of them cut to 2, and so fills the
ring of four slots before it ends: the fill position catches the send position, and all is
discarded in the middle of the frame. Three blocks are the least in which the rest of a frame
begins and ends in blocks of its own, and three such frames go round the ring.
Two tests let what was said in the first be heard in the second; the test numbers of
`test_link` stay below 4 and do not wrap; wrapped ones, another link
(`OtherLinks`) and every other number of tests, pings and messages are covered by the proof alone. Four segments with an answer to
every second give a stretch in the middle and the last one; a rejection and a repetition
each occur once and at their limit; the second upload meets what the first left behind.
In `rx_output` a cut and a stretched block and one without EC come between others, so that
a slot used again holds what is left of a block of another scheme.
Four packets of a stream go twice round the two hash slots, so that each takes the slot of
another. As in the code the lag stays within the restart distance of the stream and exceeds
the one that counts after a silence, `PauseDelta`: with 1 packet of lag the one is 1, the
other 0. In `duplicates` the two vehicles compete for one entry; vehicles and interfaces are
symmetric there, which is sound because nothing chooses among them and the run has no liveness.
In `rx_queue`, and in the runs of `DuplicateDetection`, only so many packets come, and
in `test_link` and `upload` only so many tests and uploads are started, so
that a run ends with everyone idle: deadlock is not checked there, and in no other
run is it switched off.

## 4. Fairness

`OutputLoopEnds`: weak fairness of the turns of the output loop. The router
thread is in that loop and does nothing else until it is through. `RingDrains`:
weak fairness of the main loop's steps, which calls the wait in every round, and
of the receive thread's steps inside an add; arrivals are not fair.
`RestartHandled`: weak fairness of the router's steps, which takes all that is
queued in every round of its loop. It is stated for one vehicle: with two, the
packets of the one may push those of the other out of the queue, and the restart
is handled when its vehicle is heard again. `TestEnds`: weak fairness of the
timeouts of either side, which the routers look at in every round while a test is in
progress, and of the ends of the threads that set the interfaces; all
else, messages included, may never happen. `UploadEnds`: weak fairness of the station's loop, which
sends and gives up by a clock, of the processing thread, of the vehicle's timeout once
no command is on its way, and of each command arriving or being lost: none stays on
its way for ever. No property needs a radio that delivers.

## 5. Proofs

For every value of the constants, from the assumptions named in the modules
(`MaxPacketsAssumption`, `BufferAssumption`, `ProcessorAssumption`,
`QueueAssumption`, `DetectionAssumption`,
`TestLinkAssumption`, `UploadAssumption`, `TxBufferAssumption`):

* `PacketsQueueProofs`: `TypeCorrect`, `PositionsCorrect`, `HeldCorrect`, `TimeCorrect`, and
  `Refinement`, that the ring implements the deque. The invariant is `TypeOK` and
  `PositionsOK`. The refinement shows for every operation what it does to
  `Contents`: the length by the arithmetic of positions, each element by the slot
  it stands in.
* `ProcessorRxVideoProofs`: `TypeCorrect`, `BufferCorrect`, `PositionCorrect`,
  `OutputCorrect`, `RequestsCorrect`. The invariant joins the types, `BufferConsistent` and
  `OutputPosition`. None is inductive alone: the order of the output follows
  from where the last output stands against the bottom of the ring, and that
  the bottom only moves forward follows from the numbering of its slots. The
  lemmas follow the code: adding inside the ring, opening slots up to a block,
  dropping the bottom and emptying each keep the ring, and what each does to the
  bottom block. For `RequestsCorrect`, also with streams of several schemes, the invariant
  adds that a block holds nothing while its counters are zero (`SoundBlocks`; it is then
  asked for as a whole) and that the packets output are still in the bottom block
  (`OutputHeld`). It assumes `NumbersFitEntry`: a block has at most 255 packets (32 in the
  code), else the number of one could be read as a request for the whole block.
* `ProcessorRxVideoCounters`: `CountersCorrect`, `SkippingCorrect`, `SufficeCorrect`, assuming
  `OneSchemePerBlock`, that all packets of a block tell the same scheme, whichever those of
  other blocks tell. The vehicle cuts or stretches a block before it sends any of it
  (`r_vehicle/video_tx_buffers.cpp:264-291`; `BlocksWhole` of `VideoTxBuffer`), so that it
  holds until block numbers start again. `CountedBlocks` says that each
  counter is the cardinality of the packets it counts, also after a rebuild, which takes
  place once and from enough packets received; `OwnBlocks`, that a slot holds packets of the block
  it is numbered for and hence of one scheme, but for the slot just past the top that the bottom
  steps on when all was output, which keeps an older block until the next one is opened there.
  A block counted complete then has its
  next packet to output, which is what the skipping output loop needs. `SufficeCorrect`
  adds up the request: the entries for a block are at least as many as it lacks or as
  the cap leaves room for, those of different blocks are different, so that a request
  under the cap was cut short at no block (`NoScanEnd`). Where a block comes under several
  schemes only TLC speaks, and of `RequestsSuffice` alone: run `retransmissions`.
* `RadioRxQueueProofs`: `TypeCorrect`, `TokensCorrect`, `OrderCorrect`. The
  invariant (`SlotsWritten`, `Tokens`, `Orderly`) says that every slot between the
  positions but the one being added has been written, that tokens never fall behind
  packets, and that until the ring overflows both numbers are equal and each slot
  holds the packet its distance from the reader's position says. An overflow breaks
  `Orderly` for good, which is what `rx_overflow` shows. `OrderCorrect` is about the
  step that hands a packet over; it follows because the slot taken stays alone until
  the ring is full again.
* `TestLinkProofs`: `TypeCorrect`, `NothingLeftCorrect`, `SameTestCorrect`,
  `SuccessCorrect`. Radio messages outlive the states they were sent in, so the
  invariant adds what is true of every message on its way (`MessagesTruthful`: it names a test
  and parameters its sender has or had, and a count says no more than
  was heard), that the vehicle is never ahead of the station and with the same number has the
  same parameters (`RunsAgree`), and what the station must have heard to be where it is
  (`StationHeard`). There is one lemma per action.
* `UploadProofs`: `TypeCorrect`, `ConfirmedCorrect`. An answer is taken for a stretch only by the
  number of its command; the invariant says that the number the station waits for
  is on its way with that segment only (`CommandsNumbered`), that the vehicle's note of its last command (`NotedRight`) and each
  answer on its way (`AnswersRight`) belong to the command so numbered, and where the
  confirmed segment may stand in its stretch (`Placed`). That a held stretch and a
  confirmed stretch before it join without a gap needs the arithmetic of
  multiples of the frequency, also when the station has halved it: for every number of
  segments and every frequency.
* `VideoTxBufferProofs`: `TypeCorrect`, `NumberingCorrect`, `WholeCorrect`,
  `FrameEndCorrect`, `AvailableCorrect`, `OrderCorrect`, `ResendCorrect`, `FrameRestCorrect`, for every ring
  and scheme and frames of up to 255 packets. That originals go out in order follows from where
  the send position stands (`SendRight`): on the packet after the last one sent, in a block
  whose number is the lag behind the next block's, never past the fill position. For this the
  block being filled must have its packets up to the fill position, with its present scheme
  (`FillingRight`), the counts in a header must be a scheme's (`HeadersRight`), the slots
  behind it must be numbered back from it (`SlotsNumbered`) and whole (`BlocksWhole`), and a
  frame's last packet ends its block (`FrameEndsBlock`).
  `FrameRestCorrect` has an invariant of its own on top of that one, `FInv`: a finished block is of one frame,
  and so is what is left of a block from before a discard (`BlocksFramed`); the blocks are in the
  order of their frames, and what a discard left behind is of none of the later ones
  (`FramesInOrder`); while a frame is added its packets have no places yet, those still in the
  buffer are `added`, or fewer once every slot was written (`FrameFilling`); and the
  places in a finished frame count up block by block, what is left of it from before a discard
  lying before them (`BlockLabelled`), unless the frame goes all around the ring (`Wrapped`), where
  the slot being filled names it too and the property does not speak of it (`Labelled`). That
  `Placed` writes such places is the heart of it (`PlacedLabels`): the walk back takes at least as
  many steps as there are packets in the row of the frame's blocks, meets each of them once
  (`WalkFacts`, by induction on the steps, which the well-foundedness of the natural numbers gives
  for a set of numbers), goes on behind the row only when more were counted (`WalkBehind`), and
  the place it writes is the number of data packets it has not met yet, so that what it writes
  behind the row are earlier places. `RestRight` then follows the walk that answers a request.
* `DuplicateDetectionProofs`: `TypeCorrect`, `NoFalseRestartCorrect`,
  `DroppedWasTakenCorrect`, `TakenOnceCorrect`, in three layers. The first invariant says what is
  sent and on its way (`World`): each index names one packet of a life (`NoTwoAlike`), and what is
  in the air is of the present life and at most `MaxLag` behind (`AirRight`). The second
  (`RestartInv`) says what a history of a vehicle that runs on remembers (`HistoriesRight`): only
  packets that were taken, none newer than what was sent, and after a silence nothing on its way
  is older; such a vehicle has one entry (`OneEntry`), and the router's reset is never under way
  for it (`ResetsReal`). `DroppedWasTakenCorrect` follows with no assumption on the lag.
  `NoFalseRestartCorrect` assumes `LagIsSmall`, that the lag is within the restart distance of
  the stream, and nothing about the distance after a silence. The third (`OnceInv`) assumes
  that the lag fits in the hash (`HashIsLarge`, 512 slots): then the slot of a packet that was
  taken holds it or a newer one (`SeenIsHeld`). In all of them other vehicles start again,
  histories are removed, and entries change hands.

Every invariant and action property of the runs is proved. Only model-checked:
`OutputLoopEnds`, `RingDrains`, `RestartHandled`, `TestEnds` and `UploadEnds`, which are
liveness and out of the prover's reach.

## 6. Disagreements found

* **A packet is output twice** (`output_twice`). `handleReceivedVideoRetrPacket`
  means to discard what was received already (`processor_rx_video.cpp:471-474`),
  but compares only block numbers with the last output (`:508`), where the
  handler of originals also compares packets (`:596-599`). After a lengthy router
  operation the buffer is empty and the last output is kept; the block is opened
  again by its next packet, and the request for "missing" packets fetches those
  already output.
* **A receive queue hands out a packet that is not ready** (`rx_overflow`).
  On overflow the token of the discarded packet stays in the semaphore, so the
  main loop may take the newest slot between its publication (`radio_rx.c:470`)
  and the end of the copy (`:477`).
* **A duplicate is taken after a restart** (`duplicate_accepted`).
  `radio_dup_detection_is_duplicate_on_stream` returns "1 if packet is duplicate, 0 if
  it's not duplicate" (`radio_duplicate_det.c:199`). On a restart it clears the history and enters the
  packet; the router, when it handles that packet, clears the history again (`:366`,
  where only the flag was to be reset), and a copy from a second interface passes.

Seen while modelling, without a run of its own:

* In the first 8 seconds of the clock every stream counts as silent
  (`radio/radio_duplicate_det.c:254-257`), so that a lag of more than 10 packets between
  interfaces is taken for a restart, which the router takes for indexes "starting again from
  zero or low value" (`r_station/process_radio_in_packets.cpp:1047`) and for which it resets the pairing.
  Without its exception for these seconds `NoFalseRestart` fails in `duplicates`.
* When all messages of the last step of a link test are lost, the station tells its user that the new
  parameters were applied while the vehicle's timeout puts the old ones back.
  `SuccessIsProved` says what a success does mean: that the other end was heard with the
  new parameters.
* When the vehicle cannot store an archive for lack of space it still answers that all is
  received; its status message tells otherwise, and the station takes any status for the
  end of the update (`r_central/menu/menu_objects.cpp:2387`).
* The vehicle looks for the rest of a frame from the slot being filled on
  (`video_tx_buffers.cpp:1051`). When that slot is the one of the frame's own first block, opened
  anew but not written yet, its header still names the frame: nothing in it matches, and the
  search ends (`:1070`) although later blocks of the frame are all there. `FrameRestAvailable` leaves out this
  case; without the exception it fails, for a frame of three blocks in a ring of four. A full ring
  discarded in the middle of a frame does no such harm, although blocks from before the discard
  may get places together with those from after it (`FrameRestCorrect`).
* A cancel that arrives while the processing thread runs drops the segments and
  resumes the video, but the thread goes on to the reboot.

## 7. Limits of the models

* A stream that starts again within its first 50 blocks is not seen as a
  restart; two lives of the stream can then mix in a block when their schemes
  agree. `CountersAgree` is checked, and proved, with one scheme for each block.
* A vehicle that starts again before it sent `MaxDelta` packets, within 8 seconds, is
  not seen as restarted, and its new packets count as duplicates of the old. The
  properties of `duplicates` are about a vehicle that runs on and, but for `NoFalseRestart` past
  the first 8 seconds, was not taken for one that started again.
* While the router resets an entry of one vehicle, the receive thread may give it to
  another, which loses its history again at the end of the reset. `TakenOnce` speaks of what
  was remembered since (`seen`).
* But for the 8 seconds of `DuplicateDetection`, time is not modelled; every timer may fire whenever its action is enabled.
* The discard of retransmissions older than a resolution change, the station's side of
  the request of the rest of a frame (`bMissingEnd`) and the end-of-frame counters are
  left out. The vehicle's side is there: `FrameRestAvailable` reckons the place as the
  station does.
* Contents of packets, FEC arithmetic, statistics, logs.

### Not modelled

Most of the repository's lines are not logic of this system: vendored code (MAVLink,
lodepng), camera programs, drivers, fonts, on-screen menus and displays, parsers of files
and command lines. There the state is a file or a screen, and no property relates two
steps. The parts that have a protocol or a concurrent structure and are not here yet:

* the transmit queue (`radio_tx.c`), a second copy of the pattern of `RadioRxQueue`;
* adaptive video and the negotiation of radio rates, request and acknowledge
  dialogues over the commands;
* the commands that `Upload` does not use: replies with data, the retries of other menus;
* the error-correcting rings of audio;
* `VideoLink`, the composition of transmit buffer and video processor. Each of the two is
  checked against any behaviour of the other (every request may come to the
  vehicle, every packet to the station), so that what the composition could add is what
  neither can see: a discard on the vehicle that the station does not take for a restart.

## 8. Plan

1. `VideoLink`: `VideoTxBuffer` and `ProcessorRxVideo` joined by a lossy radio, an
   abstract stream as the specification; discard on the vehicle against the
   restart test of the station, request ids that start again.
2. The EC rings of audio; the transmit queue; adaptive video.
