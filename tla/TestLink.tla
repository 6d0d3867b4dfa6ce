------------------------------ MODULE TestLink ------------------------------
(***************************************************************************)
(* The test of new parameters for a radio link, between the station        *)
(* (code/r_station/test_link_params.cpp) and the vehicle                   *)
(* (code/r_vehicle/test_link_params.cpp).                                  *)
(*                                                                         *)
(* Both ends set the parameters under test, then ping each other with      *)
(* them, first to confirm the uplink, then the downlink, and agree on the  *)
(* end.  Each step has a timeout of its own at each end; who gives up      *)
(* during the pings reverts.  The interfaces are set by a thread that the  *)
(* routers do not wait for: it clears `applying' when it is through.       *)
(*                                                                         *)
(* The radio may lose and delay everything.  A message is on its way only  *)
(* if the two ends could hear each other when it was sent.  Timeouts may   *)
(* fire in every state.  A message that is ignored is a message lost.      *)
(***************************************************************************)
EXTENDS Naturals, FiniteSets

CONSTANTS
  Params,       \* the parameters a radio link may have
  FirstParams,  \* those it has at first, at both ends
  TestNumbers,  \* 256: a message tells the number of its test in one byte
  OtherLinks,   \* do the ends hear each other over a link not under test?
  MaxTests,     \* bound of the model: tests started
  MaxPings,     \* bound of the model: pings the station sends in one step
  MaxInFlight   \* bound of the model: messages on their way

ASSUME TestLinkAssumption ==
  /\ FirstParams \in Params
  /\ OtherLinks \in BOOLEAN
  /\ TestNumbers \in Nat \ {0}
  /\ MaxTests \in Nat /\ MaxPings \in Nat /\ MaxInFlight \in Nat

Side == {"station", "vehicle"}

\* s_iTestLinkState; ENDED is left in the step that enters it.
State == {"NONE", "START", "APPLY", "PING_UPLINK", "PING_DOWNLINK", "END", "REVERT"}

VARIABLES
  test,     \* what the two routers know of the test: see TestRecord
  radio,    \* the parameters the interfaces of each end are set to
  workers,  \* the threads that set them: "apply", "revert"
  net,      \* the messages on their way
  told,     \* what the station told central last: "nothing", "succeeded", "failed"
  heard     \* auxiliary: tests in which the downlink pings got through to each end

vars == <<test, radio, workers, net, told, heard>>

TestRecord ==
  [state     : State,
   run       : Nat,      \* s_iTestLinkRunCount, s_iTestLinkCurrentRunCount
   original  : Params,   \* s_RadioLinksParamsOriginal
   toTest    : Params,   \* s_RadioLinksParamsToTest
   params    : Params,   \* g_pCurrentModel->radioLinksParams
   succeeded : BOOLEAN,  \* s_bTestLinkCurrentTestSucceeded
   applying  : BOOLEAN,  \* s_bApplyRadioParamsInProgress
   paused    : BOOLEAN,  \* s_bTestLinkPausedInterfaces
   slowed    : BOOLEAN,  \* s_uOriginalVideoBitrate # 0 (vehicle)
   sent      : Nat,      \* s_iTestLinkCurrentStepSendCount, pings only
   pings     : Nat]      \* s_uTestLinkCountPingsReceived

PingType == {"PING_UPLINK", "PING_DOWNLINK"}

Message ==
       [from : Side, type : {"START"}, run : Nat, params : Params]
  \cup [from : Side, type : PingType, run : Nat, sent : Nat, got : Nat]
  \cup [from : Side, type : {"END"}, run : Nat]

Init ==
  /\ test = [s \in Side |->
               [state |-> "NONE", run |-> 0, original |-> FirstParams,
                toTest |-> FirstParams, params |-> FirstParams,
                succeeded |-> FALSE, applying |-> FALSE, paused |-> FALSE,
                slowed |-> FALSE, sent |-> 0, pings |-> 0]]
  /\ radio = [s \in Side |-> FirstParams]
  /\ workers = [s \in Side |-> {}]
  /\ net = {}
  /\ told = "nothing"
  /\ heard = [s \in Side |-> {}]

(***************************************************************************)
(* Messages.                                                               *)
(***************************************************************************)
\* The number of a test in its messages.
Number(r) == r.run % TestNumbers

StartMsg(s) ==
  [from |-> s, type |-> "START", run |-> Number(test[s]), params |-> test[s].toTest]

PingMsg(s, r) ==
  [from |-> s, type |-> r.state, run |-> Number(r), sent |-> r.sent, got |-> r.pings]

EndMsg(s) == [from |-> s, type |-> "END", run |-> Number(test[s])]

\* Can a message get through from one end to the other?
Linked ==
  \/ OtherLinks
  \/ /\ radio["station"] = radio["vehicle"]
     /\ \A s \in Side : ~ test[s].paused

\* A message is sent, after one was taken.
SendAfter(taken, msg) ==
  /\ net' = (net \ taken) \cup (IF Linked THEN {msg} ELSE {})
  /\ Cardinality(net') <= MaxInFlight

Send(msg) == SendAfter({}, msg)

\* A message from end s of some type.
Arrives(s, type, m) == m \in net /\ m.from = s /\ m.type = type

\* Mutant: the number of the test is not looked at.
ReplyArrivesOfAny(type, m) == Arrives("vehicle", type, m)

\* The station drops what is not of the present test.
ReplyArrives(type, m) ==
  Arrives("vehicle", type, m) /\ m.run = test["station"].run

Lost(m) ==
  /\ m \in net
  /\ net' = net \ {m}
  /\ UNCHANGED <<test, radio, workers, told, heard>>

(***************************************************************************)
(* What _test_link_switch_to_state makes of the state of one end.          *)
(***************************************************************************)
Apply(r) ==
  [r EXCEPT !.state = "APPLY", !.sent = 0, !.applying = TRUE, !.paused = TRUE,
            !.params = r.toTest]

Revert(r) ==
  [r EXCEPT !.state = "REVERT", !.sent = 0, !.applying = TRUE, !.paused = TRUE,
            !.params = r.original]

Ping(r, state) == [r EXCEPT !.state = state, !.sent = 0, !.pings = 0]

Resume(r) == [r EXCEPT !.paused = FALSE]

Fail(r) == [r EXCEPT !.state = "NONE", !.succeeded = FALSE, !.slowed = FALSE, !.sent = 0]

\* _test_link_end_and_notify
EndAndNotify(r) ==
  [r EXCEPT !.state = "NONE", !.slowed = FALSE,
            !.params = IF r.original # r.toTest \/ r.succeeded THEN r.toTest ELSE @]

\* The station tells central how the test ended.
Tells(s, outcome) == told' = IF s = "station" THEN outcome ELSE told

\* The test of end s fails, with what it has become.
Fails(s, r) ==
  /\ test' = [test EXCEPT ![s] = Fail(r)]
  /\ Tells(s, "failed")

\* End s goes to APPLY or REVERT: the thread starts, or cannot be created.
\* (Bound of the model: no two threads of a kind at one end.)
StartsWorker(s, kind, r) ==
  /\ kind \notin workers[s]
  /\ \/ /\ test' = [test EXCEPT ![s] = r]
        /\ workers' = [workers EXCEPT ![s] = @ \cup {kind}]
        /\ UNCHANGED told
     \/ /\ Fails(s, [Resume(r) EXCEPT !.applying = FALSE])
        /\ UNCHANGED workers

Target(s, kind) == IF kind = "apply" THEN test[s].toTest ELSE test[s].original

\* _thread_test_link_worker_apply, _revert: the interfaces take the
\* parameters or refuse them, which nobody notices.
WorkerDone(s, kind) ==
  /\ kind \in workers[s]
  /\ workers' = [workers EXCEPT ![s] = @ \ {kind}]
  /\ \E p \in {radio[s], Target(s, kind)} : radio' = [radio EXCEPT ![s] = p]
  /\ test' = [test EXCEPT ![s].applying = FALSE]
  /\ UNCHANGED <<net, told, heard>>

(***************************************************************************)
(* Steps of test_link_loop that both ends have.                            *)
(***************************************************************************)
Applied(s) ==
  /\ test[s].state = "APPLY"
  /\ ~ test[s].applying
  /\ test' = [test EXCEPT ![s] = Ping(Resume(@), "PING_UPLINK")]
  /\ UNCHANGED <<radio, workers, net, told, heard>>

Reverted(s) ==
  /\ test[s].state = "REVERT"
  /\ ~ test[s].applying
  /\ Fails(s, Resume(test[s]))
  /\ UNCHANGED <<radio, workers, net, heard>>

\* Mutant: the interfaces stay paused.
GivesUpPaused(s) ==
  /\ test[s].state \in {"START", "APPLY", "REVERT"}
  /\ Fails(s, test[s])
  /\ UNCHANGED <<radio, workers, net, heard>>

\* No answer to START, or the thread takes too long.
GivesUp(s) ==
  /\ test[s].state \in {"START", "APPLY", "REVERT"}
  /\ Fails(s, Resume(test[s]))
  /\ UNCHANGED <<radio, workers, net, heard>>

\* The pings are not confirmed in time.
RevertsOnTimeout(s) ==
  /\ \/ test[s].state = "PING_UPLINK"
     \/ /\ test[s].state = "PING_DOWNLINK"
        /\ s = "vehicle" => test[s].pings = 0 \/ ~ test[s].succeeded
  /\ StartsWorker(s, "revert", Revert([test[s] EXCEPT !.succeeded = FALSE]))
  /\ UNCHANGED <<radio, net, heard>>

\* The end is not confirmed in time, or is known all the same.
KeepsOnTimeout(s) ==
  /\ \/ test[s].state = "END" /\ (s = "vehicle" => test[s].succeeded)
     \/ /\ s = "vehicle" /\ test[s].state = "PING_DOWNLINK"
        /\ test[s].pings > 0 /\ test[s].succeeded
  /\ test' = [test EXCEPT ![s] = EndAndNotify(@)]
  /\ Tells(s, IF test[s].succeeded THEN "succeeded" ELSE "failed")
  /\ UNCHANGED <<radio, workers, net, heard>>

Timeout(s) == GivesUp(s) \/ RevertsOnTimeout(s) \/ KeepsOnTimeout(s)

(***************************************************************************)
(* The station.                                                            *)
(***************************************************************************)
\* test_link_start.  The user takes longer to ask for another test than a
\* message of the last one stays on its way.
StartTest(p) ==
  /\ test["station"].state = "NONE"
  /\ test["station"].run < MaxTests
  /\ \A m \in net : m.from # "station"
  /\ test' = [test EXCEPT !["station"] =
                [test["station"] EXCEPT
                          !.state = "START", !.run = @ + 1, !.original = test["station"].params,
                          !.toTest = p, !.succeeded = FALSE, !.sent = 0]]
  /\ UNCHANGED <<radio, workers, net, told, heard>>

\* The same while a test is in progress.
StartRefused ==
  /\ test["station"].state # "NONE"
  /\ test' = [test EXCEPT !["station"].succeeded = FALSE]
  /\ told' = "failed"
  /\ UNCHANGED <<radio, workers, net, heard>>

SendStart ==
  /\ test["station"].state = "START"
  /\ Send(StartMsg("station"))
  /\ UNCHANGED <<test, radio, workers, told, heard>>

TakeStartReply(m) ==
  /\ ReplyArrives("START", m)
  /\ test["station"].state = "START"
  /\ StartsWorker("station", "apply", Apply(test["station"]))
  /\ net' = net \ {m}
  /\ UNCHANGED <<radio, heard>>

\* Mutant: in whatever state the test is.
SendPingAlways ==
  /\ test["station"].state # "NONE"
  /\ test["station"].sent < MaxPings
  /\ LET r == [test["station"] EXCEPT !.sent = @ + 1]
     IN  /\ test' = [test EXCEPT !["station"] = r]
         /\ Send(PingMsg("station", r))
  /\ UNCHANGED <<radio, workers, told, heard>>

SendPing ==
  /\ test["station"].state \in PingType
  /\ test["station"].sent < MaxPings
  /\ LET r == [test["station"] EXCEPT !.sent = @ + 1]
     IN  /\ test' = [test EXCEPT !["station"] = r]
         /\ Send(PingMsg("station", r))
  /\ UNCHANGED <<radio, workers, told, heard>>

TakeUplinkReply(m) ==
  /\ ReplyArrives("PING_UPLINK", m)
  /\ test["station"].state = "PING_UPLINK"
  /\ LET r == [test["station"] EXCEPT !.pings = @ + 1]
     IN  test' = [test EXCEPT !["station"] =
                    IF m.sent > 0 /\ m.got > 0 THEN Ping(r, "PING_DOWNLINK") ELSE r]
  /\ net' = net \ {m}
  /\ UNCHANGED <<radio, workers, told, heard>>

\* Mutant: one ping is enough.
ConfirmedByOne(m) == m.sent > 0 /\ m.got > 0

Confirmed(m) == m.sent > 1 /\ m.got > 1

TakeDownlinkReply(m) ==
  /\ ReplyArrives("PING_DOWNLINK", m)
  /\ test["station"].state = "PING_DOWNLINK"
  /\ LET r == [test["station"] EXCEPT !.pings = @ + 1]
     IN  test' = [test EXCEPT !["station"] =
                    IF Confirmed(m)
                      THEN [r EXCEPT !.state = "END", !.succeeded = TRUE, !.sent = 0]
                      ELSE r]
  /\ heard' = [heard EXCEPT !["station"] = @ \cup {test["station"].run}]
  /\ net' = net \ {m}
  /\ UNCHANGED <<radio, workers, told>>

SendEnd(s) ==
  /\ test[s].state = "END"
  /\ Send(EndMsg(s))
  /\ UNCHANGED <<test, radio, workers, told, heard>>

TakeEndReply(m) ==
  /\ ReplyArrives("END", m)
  /\ test["station"].state = "END"
  /\ test' = [test EXCEPT !["station"] = EndAndNotify(@)]
  /\ told' = IF test["station"].succeeded THEN "succeeded" ELSE "failed"
  /\ net' = net \ {m}
  /\ UNCHANGED <<radio, workers, heard>>

(***************************************************************************)
(* The vehicle.  It does not look at the number of the test.               *)
(***************************************************************************)
TakeStart(m) ==
  /\ Arrives("station", "START", m)
  /\ test["vehicle"].state = "NONE"
  /\ test' = [test EXCEPT !["vehicle"] =
                [@ EXCEPT !.state = "START", !.run = m.run, !.original = test["vehicle"].params,
                          !.toTest = m.params, !.succeeded = FALSE, !.slowed = TRUE, !.sent = 0]]
  /\ net' = net \ {m}
  /\ UNCHANGED <<radio, workers, told, heard>>

\* Every 50 ms while in START; once the station has been silent for 250 ms
\* it has gone on, and the vehicle follows.
ConfirmStart ==
  /\ test["vehicle"].state = "START"
  /\ Send(StartMsg("vehicle"))
  /\ \/ UNCHANGED <<test, workers, told>>
     \/ StartsWorker("vehicle", "apply", Apply(test["vehicle"]))
  /\ UNCHANGED <<radio, heard>>

TakeUplinkPing(m) ==
  /\ Arrives("station", "PING_UPLINK", m)
  /\ test["vehicle"].state = "PING_UPLINK"
  /\ LET r == [test["vehicle"] EXCEPT !.pings = @ + 1, !.sent = @ + 1]
     IN  /\ test' = [test EXCEPT !["vehicle"] = r]
         /\ SendAfter({m}, PingMsg("vehicle", r))
  /\ UNCHANGED <<radio, workers, told, heard>>

\* The first downlink ping ends the uplink step, if that was confirmed.
TakeDownlinkPing(m) ==
  /\ Arrives("station", "PING_DOWNLINK", m)
  /\ \/ test["vehicle"].state = "PING_UPLINK" /\ test["vehicle"].pings > 0
     \/ test["vehicle"].state = "PING_DOWNLINK"
  /\ LET v == test["vehicle"]
         w == IF v.state = "PING_UPLINK" THEN Ping(v, "PING_DOWNLINK") ELSE v
         r == [w EXCEPT !.pings = @ + 1, !.sent = @ + 1,
                        !.succeeded = m.got > 0 \/ w.succeeded]
     IN  /\ test' = [test EXCEPT !["vehicle"] = r]
         /\ SendAfter({m}, PingMsg("vehicle", r))
         /\ heard' = IF r.pings > 1 THEN [heard EXCEPT !["vehicle"] = @ \cup {r.run}] ELSE heard
  /\ UNCHANGED <<radio, workers, told>>

\* A downlink ping without a confirmed uplink ends the test: no revert.
TakeDownlinkPingTooEarly(m) ==
  /\ Arrives("station", "PING_DOWNLINK", m)
  /\ test["vehicle"].state = "PING_UPLINK" /\ test["vehicle"].pings = 0
  /\ Fails("vehicle", test["vehicle"])
  /\ net' = net \ {m}
  /\ UNCHANGED <<radio, workers, heard>>

\* In PING_DOWNLINK at least the ping that led there was received: the test
\* of the count is never true.  Mutant: the success is not noted.
EndWithoutSuccess(r) == [r EXCEPT !.state = "END", !.sent = 0]

EndOfVehicle(r) == [r EXCEPT !.state = "END", !.succeeded = TRUE, !.sent = 0]

TakeEnd(m) ==
  /\ Arrives("station", "END", m)
  /\ \/ /\ test["vehicle"].state = "PING_DOWNLINK" /\ test["vehicle"].pings > 0
        /\ test' = [test EXCEPT !["vehicle"] = EndOfVehicle(@)]
        /\ SendAfter({m}, EndMsg("vehicle"))
     \/ /\ test["vehicle"].state = "NONE"
        /\ SendAfter({m}, EndMsg("vehicle"))
        /\ UNCHANGED test
     \/ /\ test["vehicle"].state = "END"
        /\ test' = [test EXCEPT !["vehicle"] = EndAndNotify([@ EXCEPT !.succeeded = TRUE])]
        /\ net' = net \ {m}
  /\ UNCHANGED <<radio, workers, told, heard>>

Next ==
  \/ \E s \in Side : \/ Timeout(s) \/ Applied(s) \/ Reverted(s) \/ SendEnd(s)
                     \/ \E kind \in {"apply", "revert"} : WorkerDone(s, kind)
  \/ \E p \in Params : StartTest(p)
  \/ StartRefused \/ SendStart \/ SendPing \/ ConfirmStart
  \/ \E m \in net : \/ Lost(m)
                    \/ TakeStartReply(m) \/ TakeUplinkReply(m) \/ TakeDownlinkReply(m)
                    \/ TakeEndReply(m)
                    \/ TakeStart(m) \/ TakeUplinkPing(m) \/ TakeDownlinkPing(m)
                    \/ TakeDownlinkPingTooEarly(m) \/ TakeEnd(m)

Spec == Init /\ [][Next]_vars

\* The routers call test_link_loop in every round while a test is in
\* progress, and a thread comes to its end.
FairSpec ==
  /\ Spec
  /\ \A s \in Side : /\ WF_vars(Timeout(s))
                     /\ \A kind \in {"apply", "revert"} : WF_vars(WorkerDone(s, kind))

(***************************************************************************)
(* Properties.                                                             *)
(***************************************************************************)
TypeOK ==
  /\ test \in [Side -> TestRecord]
  /\ radio \in [Side -> Params]
  /\ workers \in [Side -> SUBSET {"apply", "revert"}]
  /\ net \subseteq Message
  /\ told \in {"nothing", "succeeded", "failed"}
  /\ heard \in [Side -> SUBSET Nat]

\* However a test ends, on whatever path, it leaves no interface paused and
\* the video bitrate as it was; and outside APPLY and REVERT the link works.
NothingLeftBehind ==
  \A s \in Side : /\ test[s].paused <=> test[s].state \in {"APPLY", "REVERT"}
                  /\ test[s].slowed => test[s].state # "NONE"

\* Once the station has left START the vehicle is, or was last, in the very
\* same test: the number and the parameters are the same at both ends.
SameTest ==
  test["station"].state \notin {"NONE", "START"} =>
    /\ test["vehicle"].run = test["station"].run
    /\ test["vehicle"].toTest = test["station"].toTest

\* No end believes in success on its own: the station only after the vehicle
\* took two downlink pings in this test, the vehicle only after the station
\* took the answer to one.
SuccessIsProved ==
  /\ test["station"].succeeded => test["station"].run \in heard["vehicle"]
  /\ test["vehicle"].succeeded => test["vehicle"].run \in heard["station"]

\* Whatever is lost, the test ends at both ends.
TestEnds == \A s \in Side : test[s].state # "NONE" ~> test[s].state = "NONE"
=============================================================================
