--------------------------- MODULE TestLinkProofs ---------------------------
(***************************************************************************)
(* Proofs about TestLink, for any parameters, any number of tests, pings   *)
(* and messages: that the ends are in the same test, that no end believes  *)
(* in success on its own, and that nothing is left paused or slowed.       *)
(***************************************************************************)
EXTENDS TestLink, TLAPS

S == test["station"]
V == test["vehicle"]

\* The vehicle's test is the station's or an earlier one.
RunsAgree ==
  /\ V.run < TestNumbers /\ V.run <= S.run
  /\ V.run = S.run => V.toTest = S.toTest

\* The station has had the answer to a downlink ping.
StationHeard ==
  S.state = "END" \/ (S.state = "PING_DOWNLINK" /\ S.pings > 0) => S.run \in heard["station"]

\* What a message tells of the test it was sent in.
OfVehicle(m) ==
  /\ m.run <= S.run
  /\ m.run = S.run => V.run = S.run
  /\ m.type = "PING_DOWNLINK" => (m.got > 1 => m.run \in heard["vehicle"])

OfStation(m) ==
  /\ m.run = S.run % TestNumbers
  /\ m.type = "START" => m.params = S.toTest
  /\ m.type # "START" => V.run = S.run
  /\ m.type = "PING_DOWNLINK" => (m.got > 0 => S.run \in heard["station"])
  /\ m.type = "END" => S.run \in heard["station"]

Truthful(m) == IF m.from = "station" THEN OfStation(m) ELSE OfVehicle(m)

MessagesTruthful == \A m \in net : Truthful(m)

IInv ==
  /\ TypeOK /\ NothingLeftBehind /\ SameTest /\ SuccessIsProved
  /\ RunsAgree /\ StationHeard /\ MessagesTruthful

-----------------------------------------------------------------------------
(***************************************************************************)
(* Messages.                                                               *)
(***************************************************************************)
StartMessage == [from : Side, type : {"START"}, run : Nat, params : Params]
PingMessage  == [from : Side, type : PingType, run : Nat, sent : Nat, got : Nat]
EndMessage   == [from : Side, type : {"END"}, run : Nat]

LEMMA MessageKinds == Message = StartMessage \cup PingMessage \cup EndMessage
BY DEF Message, StartMessage, PingMessage, EndMessage

LEMMA MessageFacts ==
  ASSUME NEW m \in Message
  PROVE  /\ m.from \in Side /\ m.run \in Nat
         /\ m.type = "START" => m.params \in Params
         /\ m.type \in PingType => m.sent \in Nat /\ m.got \in Nat
<1>1. CASE m \in StartMessage
  BY <1>1 DEF StartMessage, PingType
<1>2. CASE m \in PingMessage
  BY <1>2 DEF PingMessage, PingType
<1>3. CASE m \in EndMessage
  BY <1>3 DEF EndMessage, PingType
<1> QED
  BY <1>1, <1>2, <1>3, MessageKinds

LEMMA Remainder ==
  ASSUME NEW n \in Nat
  PROVE  /\ n % TestNumbers \in Nat /\ n % TestNumbers < TestNumbers
         /\ n % TestNumbers <= n
         /\ n < TestNumbers => n % TestNumbers = n
BY TestLinkAssumption

LEMMA StartMsgFacts ==
  ASSUME NEW s \in Side, test[s] \in TestRecord
  PROVE  /\ StartMsg(s) \in Message /\ StartMsg(s).from = s /\ StartMsg(s).type = "START"
         /\ StartMsg(s).run = test[s].run % TestNumbers
         /\ StartMsg(s).params = test[s].toTest
<1>1. test[s].run % TestNumbers \in Nat /\ test[s].toTest \in Params
  BY Remainder DEF TestRecord
<1>2. StartMsg(s) \in StartMessage
  BY <1>1 DEF StartMsg, StartMessage, Number
<1> QED
  BY <1>2, MessageKinds DEF StartMsg, Number

LEMMA PingMsgFacts ==
  ASSUME NEW s \in Side, NEW r \in TestRecord, r.state \in PingType
  PROVE  /\ PingMsg(s, r) \in Message /\ PingMsg(s, r).from = s
         /\ PingMsg(s, r).type = r.state
         /\ PingMsg(s, r).run = r.run % TestNumbers /\ PingMsg(s, r).got = r.pings
<1>1. r.run % TestNumbers \in Nat /\ r.sent \in Nat /\ r.pings \in Nat
  BY Remainder DEF TestRecord
<1>2. PingMsg(s, r) \in PingMessage
  BY <1>1 DEF PingMsg, PingMessage, Number
<1> QED
  BY <1>2, MessageKinds DEF PingMsg, Number

LEMMA EndMsgFacts ==
  ASSUME NEW s \in Side, test[s] \in TestRecord
  PROVE  /\ EndMsg(s) \in Message /\ EndMsg(s).from = s /\ EndMsg(s).type = "END"
         /\ EndMsg(s).run = test[s].run % TestNumbers
<1>1. test[s].run % TestNumbers \in Nat
  BY Remainder DEF TestRecord
<1>2. EndMsg(s) \in EndMessage
  BY <1>1 DEF EndMsg, EndMessage, Number
<1> QED
  BY <1>2, MessageKinds DEF EndMsg, Number

-----------------------------------------------------------------------------
(***************************************************************************)
(* The record of one end.                                                  *)
(***************************************************************************)
\* What NothingLeftBehind asks of one end.
Clean(r) ==
  /\ r.paused <=> r.state \in {"APPLY", "REVERT"}
  /\ r.slowed => r.state # "NONE"

\* Record r is of the same test as q.
SameRun(q, r) == r.run = q.run /\ r.toTest = q.toTest

LEMMA Applying ==
  ASSUME NEW r \in TestRecord
  PROVE  /\ Apply(r) \in TestRecord /\ Clean(Apply(r)) /\ SameRun(r, Apply(r))
         /\ Apply(r).succeeded = r.succeeded /\ Apply(r).state = "APPLY"
BY DEF Apply, TestRecord, State, Clean, SameRun

LEMMA Reverting ==
  ASSUME NEW r \in TestRecord
  PROVE  /\ Revert(r) \in TestRecord /\ Clean(Revert(r)) /\ SameRun(r, Revert(r))
         /\ Revert(r).succeeded = r.succeeded /\ Revert(r).state = "REVERT"
BY DEF Revert, TestRecord, State, Clean, SameRun

LEMMA Pinging ==
  ASSUME NEW r \in TestRecord, NEW state \in PingType
  PROVE  /\ Ping(r, state) \in TestRecord /\ SameRun(r, Ping(r, state))
         /\ ~ r.paused => Clean(Ping(r, state))
         /\ Ping(r, state).succeeded = r.succeeded /\ Ping(r, state).state = state
         /\ Ping(r, state).pings = 0 /\ Ping(r, state).paused = r.paused
BY DEF Ping, TestRecord, State, PingType, Clean, SameRun

LEMMA Resuming ==
  ASSUME NEW r \in TestRecord
  PROVE  /\ Resume(r) \in TestRecord /\ SameRun(r, Resume(r)) /\ ~ Resume(r).paused
         /\ Resume(r).succeeded = r.succeeded /\ Resume(r).state = r.state
BY DEF Resume, TestRecord, SameRun

LEMMA Failing ==
  ASSUME NEW r \in TestRecord
  PROVE  /\ Fail(r) \in TestRecord /\ SameRun(r, Fail(r))
         /\ ~ r.paused => Clean(Fail(r))
         /\ ~ Fail(r).succeeded /\ Fail(r).state = "NONE"
BY DEF Fail, TestRecord, State, SameRun, Clean

LEMMA Ending ==
  ASSUME NEW r \in TestRecord
  PROVE  /\ EndAndNotify(r) \in TestRecord /\ SameRun(r, EndAndNotify(r))
         /\ ~ r.paused => Clean(EndAndNotify(r))
         /\ EndAndNotify(r).succeeded = r.succeeded /\ EndAndNotify(r).state = "NONE"
BY DEF EndAndNotify, TestRecord, State, SameRun, Clean

LEMMA Update ==
  ASSUME test \in [Side -> TestRecord], NEW s \in Side, NEW r \in TestRecord,
         test' = [test EXCEPT ![s] = r]
  PROVE  /\ test' \in [Side -> TestRecord] /\ test'[s] = r
         /\ \A o \in Side \ {s} : test'[o] = test[o]
OBVIOUS

-----------------------------------------------------------------------------
(***************************************************************************)
(* Steps that start no test.                                               *)
(***************************************************************************)
\* Everything but the records of the two ends.
RestOK ==
  /\ radio' \in [Side -> Params]
  /\ workers' \in [Side -> SUBSET {"apply", "revert"}]
  /\ told' \in {"nothing", "succeeded", "failed"}
  /\ heard' \in [Side -> SUBSET Nat]
  /\ \A s \in Side : heard[s] \subseteq heard'[s]
  /\ \A m \in net' : m \in net \/ (m \in Message /\ Truthful(m)')

LEMMA Typed ==
  ASSUME IInv
  PROVE  /\ test \in [Side -> TestRecord] /\ S \in TestRecord /\ V \in TestRecord
         /\ S.run \in Nat /\ V.run \in Nat /\ S.state \in State /\ V.state \in State
         /\ S.pings \in Nat /\ V.pings \in Nat
         /\ S.succeeded \in BOOLEAN /\ V.succeeded \in BOOLEAN
         /\ Clean(S) /\ Clean(V)
<1>1. test \in [Side -> TestRecord] /\ NothingLeftBehind
  BY DEF IInv, TypeOK
<1>2. S \in TestRecord /\ V \in TestRecord /\ Clean(S) /\ Clean(V)
  BY <1>1 DEF S, V, Side, NothingLeftBehind, Clean
<1> QED
  BY <1>1, <1>2 DEF TestRecord

LEMMA WithinTest ==
  ASSUME IInv, RestOK, test' \in [Side -> TestRecord],
         SameRun(S, S'), SameRun(V, V'), Clean(S'), Clean(V'),
         SameTest', StationHeard', SuccessIsProved'
  PROVE  IInv'
<1>1. TypeOK'
  BY DEF IInv, TypeOK, RestOK
<1>2. NothingLeftBehind'
  BY DEF NothingLeftBehind, Clean, Side, S, V
<1>3. S'.run = S.run /\ S'.toTest = S.toTest /\ V'.run = V.run /\ V'.toTest = V.toTest
  BY DEF SameRun
<1>4. RunsAgree'
  BY <1>3 DEF IInv, RunsAgree
<1>5. ASSUME NEW m \in net PROVE Truthful(m)'
  <2>1. Truthful(m)
    BY DEF IInv, MessagesTruthful
  <2>2. heard["station"] \subseteq heard'["station"] /\ heard["vehicle"] \subseteq heard'["vehicle"]
    BY DEF RestOK, Side
  <2> QED
    BY <1>3, <2>1, <2>2 DEF Truthful, OfStation, OfVehicle
<1>6. MessagesTruthful'
  BY <1>5 DEF MessagesTruthful, RestOK
<1> QED
  BY <1>1, <1>2, <1>4, <1>6 DEF IInv

LEMMA StationStep ==
  ASSUME IInv, RestOK, NEW r \in TestRecord, test' = [test EXCEPT !["station"] = r],
         SameRun(S, r), Clean(r),
         r.state \notin {"NONE", "START"} => V.run = S.run,
         r.state = "END" \/ (r.state = "PING_DOWNLINK" /\ r.pings > 0) =>
           S.run \in heard'["station"],
         r.succeeded => S.run \in heard'["vehicle"]
  PROVE  IInv'
<1>1. test' \in [Side -> TestRecord] /\ S' = r /\ V' = V
  BY Typed, Update DEF Side, S, V
<1>2. SameRun(S, S') /\ SameRun(V, V') /\ Clean(S') /\ Clean(V')
  BY <1>1, Typed DEF SameRun
<1>3. SameTest'
  <2>1. r.run = S.run /\ r.toTest = S.toTest
    BY DEF SameRun
  <2> QED
    BY <1>1, <2>1 DEF SameTest, IInv, RunsAgree, S, V
<1>4. StationHeard'
  BY <1>1 DEF StationHeard, SameRun
<1>5. SuccessIsProved'
  <2>1. heard["station"] \subseteq heard'["station"]
    BY DEF RestOK, Side
  <2>2. V.succeeded => V.run \in heard["station"]
    BY DEF IInv, SuccessIsProved, V
  <2> QED
    BY <1>1, <2>1, <2>2 DEF SuccessIsProved, SameRun, S, V
<1> QED
  BY <1>1, <1>2, <1>3, <1>4, <1>5, WithinTest

LEMMA VehicleStep ==
  ASSUME IInv, RestOK, NEW r \in TestRecord, test' = [test EXCEPT !["vehicle"] = r],
         SameRun(V, r), Clean(r),
         r.succeeded => V.run \in heard'["station"]
  PROVE  IInv'
<1>1. test' \in [Side -> TestRecord] /\ V' = r /\ S' = S
  BY Typed, Update DEF Side, S, V
<1>2. SameRun(S, S') /\ SameRun(V, V') /\ Clean(S') /\ Clean(V')
  BY <1>1, Typed DEF SameRun
<1>3. SameTest'
  <2>1. r.run = V.run /\ r.toTest = V.toTest
    BY DEF SameRun
  <2> QED
    BY <1>1, <2>1 DEF SameTest, IInv, S, V
<1>4. heard["station"] \subseteq heard'["station"] /\ heard["vehicle"] \subseteq heard'["vehicle"]
  BY DEF RestOK, Side
<1>5. StationHeard'
  BY <1>1, <1>4 DEF StationHeard, IInv
<1>6. SuccessIsProved'
  <2>1. S.succeeded => S.run \in heard["vehicle"]
    BY DEF IInv, SuccessIsProved, S
  <2> QED
    BY <1>1, <1>4, <2>1 DEF SuccessIsProved, SameRun, S, V
<1> QED
  BY <1>1, <1>2, <1>3, <1>5, <1>6, WithinTest

\* Nothing is sent and nothing new is heard.
LEMMA Silent ==
  ASSUME IInv, radio' \in [Side -> Params],
         workers' \in [Side -> SUBSET {"apply", "revert"}],
         told' \in {"nothing", "succeeded", "failed"}, heard' = heard, net' \subseteq net
  PROVE  RestOK
BY DEF RestOK, IInv, TypeOK

\* A step of either end in which it comes to know nothing new.
LEMMA EndStep ==
  ASSUME IInv, RestOK, NEW s \in Side, NEW r \in TestRecord, test' = [test EXCEPT ![s] = r],
         SameRun(test[s], r), Clean(r),
         r.state = "NONE" \/ test[s].state \notin {"NONE", "START"},
         r.state \in {"END", "PING_DOWNLINK"} =>
           r.state = test[s].state /\ r.pings = test[s].pings,
         r.succeeded => test[s].succeeded
  PROVE  IInv'
<1>1. heard["station"] \subseteq heard'["station"] /\ heard["vehicle"] \subseteq heard'["vehicle"]
  BY DEF RestOK, Side
<1>2. CASE s = "station"
  <2>1. r.state \notin {"NONE", "START"} => V.run = S.run
    BY <1>2 DEF IInv, SameTest, S, V
  <2>2. r.state = "END" \/ (r.state = "PING_DOWNLINK" /\ r.pings > 0) =>
          S.run \in heard'["station"]
    BY <1>1, <1>2 DEF IInv, StationHeard, S
  <2>3. r.succeeded => S.run \in heard'["vehicle"]
    BY <1>1, <1>2 DEF IInv, SuccessIsProved, S
  <2> QED
    BY <1>2, <2>1, <2>2, <2>3, StationStep DEF S
<1>3. CASE s = "vehicle"
  <2>1. r.succeeded => V.run \in heard'["station"]
    BY <1>1, <1>3 DEF IInv, SuccessIsProved, V
  <2> QED
    BY <1>3, <2>1, VehicleStep DEF V
<1> QED
  BY <1>2, <1>3 DEF Side

LEMMA Keep ==
  ASSUME IInv, RestOK, test' = test
  PROVE  IInv'
<1>1. heard["station"] \subseteq heard'["station"] /\ heard["vehicle"] \subseteq heard'["vehicle"]
  BY DEF RestOK, Side
<1>2. SameTest' /\ StationHeard' /\ SuccessIsProved'
  BY <1>1 DEF IInv, SameTest, StationHeard, SuccessIsProved, S, V
<1>3. S' = S /\ V' = V
  BY DEF S, V
<1> QED
  BY <1>2, <1>3, Typed, WithinTest DEF SameRun

LEMMA Record ==
  ASSUME IInv, NEW s \in Side
  PROVE  /\ test[s] \in TestRecord /\ Clean(test[s])
         /\ test[s].state \in State /\ test[s].pings \in Nat
BY Typed DEF S, V, Side, TestRecord

LEMMA StartingWorker ==
  ASSUME IInv, NEW s \in Side, NEW kind \in {"apply", "revert"}, NEW q \in TestRecord,
         StartsWorker(s, kind, q)
  PROVE  /\ \E r \in TestRecord : /\ test' = [test EXCEPT ![s] = r]
                                  /\ r = q \/ (SameRun(q, r) /\ Clean(r) /\ ~ r.succeeded /\ r.state = "NONE")
         /\ workers' \in [Side -> SUBSET {"apply", "revert"}]
         /\ told' \in {"nothing", "succeeded", "failed"}
<1>1. workers \in [Side -> SUBSET {"apply", "revert"}] /\ told \in {"nothing", "succeeded", "failed"}
  BY DEF IInv, TypeOK
<1>2. CASE /\ test' = [test EXCEPT ![s] = q]
           /\ workers' = [workers EXCEPT ![s] = @ \cup {kind}]
           /\ UNCHANGED told
  BY <1>1, <1>2
<1>3. CASE /\ Fails(s, [Resume(q) EXCEPT !.applying = FALSE])
           /\ UNCHANGED workers
  <2> DEFINE w == [Resume(q) EXCEPT !.applying = FALSE]
  <2>1. w \in TestRecord /\ SameRun(q, w) /\ ~ w.paused
    BY Resuming DEF TestRecord, SameRun
  <2>2. Fail(w) \in TestRecord /\ SameRun(w, Fail(w)) /\ Clean(Fail(w))
        /\ ~ Fail(w).succeeded /\ Fail(w).state = "NONE"
    BY <2>1, Failing
  <2>3. test' = [test EXCEPT ![s] = Fail(w)] /\ told' \in {"nothing", "succeeded", "failed"}
    BY <1>1, <1>3 DEF Fails, Tells
  <2> HIDE DEF w
  <2>4. SameRun(q, Fail(w))
    BY <2>1, <2>2 DEF SameRun
  <2> QED
    BY <1>1, <1>3, <2>2, <2>3, <2>4
<1> QED
  BY <1>2, <1>3 DEF StartsWorker

\* Message m is sent.
LEMMA Sending ==
  ASSUME IInv, NEW m \in Message, Truthful(m)', net' \subseteq net \cup {m},
         radio' = radio, workers' \in [Side -> SUBSET {"apply", "revert"}],
         told' \in {"nothing", "succeeded", "failed"}, heard' \in [Side -> SUBSET Nat],
         \A s \in Side : heard[s] \subseteq heard'[s]
  PROVE  RestOK
<1>1. radio' \in [Side -> Params]
  BY DEF IInv, TypeOK
<1>2. \A k \in net' : k \in net \/ (k \in Message /\ Truthful(k)')
  OBVIOUS
<1> QED
  BY <1>1, <1>2 DEF RestOK

-----------------------------------------------------------------------------
(***************************************************************************)
(* The steps of both ends.                                                 *)
(***************************************************************************)
LEMMA FailsStep ==
  ASSUME IInv, NEW s \in Side, NEW q \in TestRecord, SameRun(test[s], q), ~ q.paused,
         Fails(s, q), net' \subseteq net, UNCHANGED <<radio, workers, heard>>
  PROVE  IInv'
<1>1. /\ Fail(q) \in TestRecord /\ SameRun(test[s], Fail(q)) /\ Clean(Fail(q))
      /\ ~ Fail(q).succeeded /\ Fail(q).state = "NONE"
  BY Failing DEF SameRun
<1>2. test' = [test EXCEPT ![s] = Fail(q)]
  BY DEF Fails
<1>3. RestOK
  BY Silent DEF Fails, Tells, IInv, TypeOK
<1> QED
  BY <1>1, <1>2, <1>3, EndStep

LEMMA GivesUpStep ==
  ASSUME IInv, NEW s \in Side, GivesUp(s) \/ Reverted(s)
  PROVE  IInv'
<1>1. /\ Resume(test[s]) \in TestRecord /\ SameRun(test[s], Resume(test[s]))
      /\ ~ Resume(test[s]).paused
  BY Record, Resuming
<1> QED
  BY <1>1, FailsStep DEF GivesUp, Reverted

LEMMA AppliedStep ==
  ASSUME IInv, NEW s \in Side, Applied(s)
  PROVE  IInv'
<1> DEFINE r == Ping(Resume(test[s]), "PING_UPLINK")
<1>1. /\ r \in TestRecord /\ SameRun(test[s], r) /\ Clean(r) /\ r.state = "PING_UPLINK"
      /\ r.succeeded = test[s].succeeded
  BY Record, Resuming, Pinging DEF SameRun, PingType
<1>2. test' = [test EXCEPT ![s] = r] /\ test[s].state = "APPLY"
  BY DEF Applied
<1>3. RestOK
  BY Silent DEF Applied, IInv, TypeOK
<1> HIDE DEF r
<1> QED
  BY <1>1, <1>2, <1>3, EndStep

LEMMA RevertsOnTimeoutStep ==
  ASSUME IInv, NEW s \in Side, RevertsOnTimeout(s)
  PROVE  IInv'
<1> DEFINE q == [test[s] EXCEPT !.succeeded = FALSE]
<1>1. q \in TestRecord /\ SameRun(test[s], q) /\ ~ q.succeeded
  BY Record DEF TestRecord, SameRun
<1>2. /\ Revert(q) \in TestRecord /\ Clean(Revert(q)) /\ SameRun(test[s], Revert(q))
      /\ ~ Revert(q).succeeded /\ Revert(q).state = "REVERT"
  BY <1>1, Reverting DEF SameRun
<1>3. StartsWorker(s, "revert", Revert(q)) /\ test[s].state \in {"PING_UPLINK", "PING_DOWNLINK"}
  BY DEF RevertsOnTimeout
<1> HIDE DEF q
<1>4. PICK r \in TestRecord : /\ test' = [test EXCEPT ![s] = r]
                              /\ \/ r = Revert(q)
                                 \/ SameRun(Revert(q), r) /\ Clean(r) /\ ~ r.succeeded /\ r.state = "NONE"
  BY <1>2, <1>3, StartingWorker
<1>5. RestOK
  <2>1. /\ workers' \in [Side -> SUBSET {"apply", "revert"}]
        /\ told' \in {"nothing", "succeeded", "failed"}
    BY <1>2, <1>3, StartingWorker
  <2> QED
    BY <2>1, Silent, Zenon DEF RevertsOnTimeout, IInv, TypeOK
<1>6. SameRun(test[s], r) /\ Clean(r) /\ ~ r.succeeded /\ r.state \in {"NONE", "REVERT"}
  BY <1>2, <1>4 DEF SameRun
<1> QED
  BY <1>3, <1>4, <1>5, <1>6, EndStep

LEMMA KeepsOnTimeoutStep ==
  ASSUME IInv, NEW s \in Side, KeepsOnTimeout(s)
  PROVE  IInv'
<1>1. test[s].state \in {"END", "PING_DOWNLINK"} /\ test' = [test EXCEPT ![s] = EndAndNotify(test[s])]
  BY DEF KeepsOnTimeout
<1>2. /\ EndAndNotify(test[s]) \in TestRecord /\ SameRun(test[s], EndAndNotify(test[s]))
      /\ Clean(EndAndNotify(test[s])) /\ EndAndNotify(test[s]).state = "NONE"
      /\ EndAndNotify(test[s]).succeeded = test[s].succeeded
  <2>1. ~ test[s].paused
    BY <1>1, Record DEF Clean
  <2> QED
    BY <2>1, Record, Ending
<1>3. RestOK
  BY Silent DEF KeepsOnTimeout, Tells, IInv, TypeOK
<1> QED
  BY <1>1, <1>2, <1>3, EndStep

LEMMA WorkerDoneStep ==
  ASSUME IInv, NEW s \in Side, NEW kind \in {"apply", "revert"}, WorkerDone(s, kind)
  PROVE  IInv'
<1> DEFINE r == [test[s] EXCEPT !.applying = FALSE]
<1>1. /\ r \in TestRecord /\ SameRun(test[s], r) /\ Clean(r) /\ r.state = test[s].state
      /\ r.succeeded = test[s].succeeded /\ r.pings = test[s].pings
  BY Record DEF TestRecord, SameRun, Clean
<1>2. test' = [test EXCEPT ![s] = r]
  BY DEF WorkerDone
<1>3. RestOK
  <2>1. Target(s, kind) \in Params
    BY Record DEF Target, TestRecord
  <2>2. radio' \in [Side -> Params] /\ workers' \in [Side -> SUBSET {"apply", "revert"}]
    BY <2>1 DEF WorkerDone, IInv, TypeOK
  <2> QED
    BY <2>2, Silent DEF WorkerDone, IInv, TypeOK
<1> HIDE DEF r
<1>4. CASE s = "station"
  <2>1. r.state \notin {"NONE", "START"} => V.run = S.run
    BY <1>1, <1>4 DEF IInv, SameTest, S, V
  <2>2. heard' = heard
    BY DEF WorkerDone
  <2> QED
    BY <1>1, <1>2, <1>3, <1>4, <2>1, <2>2, StationStep DEF IInv, StationHeard, SuccessIsProved, S
<1>5. CASE s = "vehicle"
  <2>1. heard' = heard
    BY DEF WorkerDone
  <2> QED
    BY <1>1, <1>2, <1>3, <1>5, <2>1, VehicleStep DEF IInv, SuccessIsProved, V
<1> QED
  BY <1>4, <1>5 DEF Side

LEMMA SendEndStep ==
  ASSUME IInv, NEW s \in Side, SendEnd(s)
  PROVE  IInv'
<1> PICK m : m = EndMsg(s)
  OBVIOUS
<1>1. /\ m \in Message /\ m.from = s /\ m.type = "END"
      /\ m.run = test[s].run % TestNumbers
  BY Record, EndMsgFacts
<1>2. /\ test' = test /\ heard' = heard /\ test[s].state = "END" /\ net' \subseteq net \cup {m}
      /\ radio' = radio /\ workers' = workers /\ told' = told
  BY DEF SendEnd, Send, SendAfter
<1>3. Truthful(m)
  <2>1. CASE s = "station"
    BY <1>1, <1>2, <2>1 DEF Truthful, OfStation, IInv, SameTest, StationHeard, S, V
  <2>2. CASE s = "vehicle"
    <3>1. V.run % TestNumbers = V.run /\ V.run <= S.run
      BY Typed, Remainder DEF IInv, RunsAgree
    <3> QED
      BY <1>1, <2>2, <3>1 DEF Truthful, OfVehicle, V
  <2> QED
    BY <2>1, <2>2 DEF Side
<1>4. Truthful(m)'
  BY <1>2, <1>3 DEF Truthful, OfStation, OfVehicle, S, V
<1>5. RestOK
  BY <1>1, <1>2, <1>4, Sending DEF IInv, TypeOK
<1> QED
  BY <1>2, <1>5, Keep

LEMMA LostStep ==
  ASSUME IInv, NEW m \in net, Lost(m)
  PROVE  IInv'
<1>1. RestOK /\ test' = test
  BY Silent DEF Lost, IInv, TypeOK
<1> QED
  BY <1>1, Keep

-----------------------------------------------------------------------------
(***************************************************************************)
(* The steps of the station.                                               *)
(***************************************************************************)
LEMMA FromVehicle ==
  ASSUME IInv, NEW type, NEW m, ReplyArrives(type, m)
  PROVE  /\ m \in Message /\ m.type = type /\ m.run = S.run /\ V.run = S.run
         /\ type = "PING_DOWNLINK" => (m.got > 1 => S.run \in heard["vehicle"])
<1>1. m \in net /\ m.from = "vehicle" /\ m.type = type /\ m.run = S.run
  BY DEF ReplyArrives, Arrives, S
<1>2. m \in Message /\ OfVehicle(m)
  BY <1>1 DEF IInv, TypeOK, MessagesTruthful, Truthful
<1> QED
  BY <1>1, <1>2 DEF OfVehicle

LEMMA StartTestStep ==
  ASSUME IInv, NEW p \in Params, StartTest(p)
  PROVE  IInv'
<1> DEFINE r == [S EXCEPT !.state = "START", !.run = @ + 1, !.original = S.params,
                          !.toTest = p, !.succeeded = FALSE, !.sent = 0]
<1>1. S.run + 1 \in Nat /\ S.params \in Params /\ S.state = "NONE" /\ ~ S.paused
  BY Typed DEF TestRecord, StartTest, Clean, S
<1>2. /\ r \in TestRecord /\ Clean(r) /\ r.run = S.run + 1 /\ r.state = "START"
      /\ ~ r.succeeded
  BY <1>1, Typed DEF TestRecord, State, Clean
<1>3. test' = [test EXCEPT !["station"] = r]
  BY DEF StartTest, S
<1> HIDE DEF r
<1>4. test' \in [Side -> TestRecord] /\ S' = r /\ V' = V
  BY <1>2, <1>3, Typed, Update DEF Side, S, V
<1>5. radio' = radio /\ workers' = workers /\ net' = net /\ told' = told /\ heard' = heard
  BY DEF StartTest
<1>6. TypeOK'
  BY <1>4, <1>5 DEF IInv, TypeOK
<1>7. NothingLeftBehind'
  BY <1>2, <1>4, Typed DEF NothingLeftBehind, Clean, Side, S, V
<1>8. SameTest' /\ StationHeard' /\ SuccessIsProved'
  BY <1>2, <1>4, <1>5 DEF IInv, SameTest, StationHeard, SuccessIsProved, S, V
<1>9. RunsAgree'
  BY <1>2, <1>4, Typed DEF IInv, RunsAgree
<1>10. MessagesTruthful'
  <2> SUFFICES ASSUME NEW m \in net PROVE Truthful(m)'
    BY <1>5 DEF MessagesTruthful
  <2>1. m.from # "station" /\ m.run \in Nat
    BY MessageFacts DEF StartTest, IInv, TypeOK
  <2>2. OfVehicle(m)
    BY <2>1 DEF IInv, MessagesTruthful, Truthful
  <2>3. m.run <= S.run + 1 /\ m.run # S.run + 1
    BY <2>1, <2>2, Typed DEF OfVehicle
  <2> QED
    BY <1>2, <1>4, <1>5, <2>1, <2>2, <2>3 DEF Truthful, OfVehicle
<1> QED
  BY <1>6, <1>7, <1>8, <1>9, <1>10 DEF IInv

LEMMA StartRefusedStep == IInv /\ StartRefused => IInv'
<1> SUFFICES ASSUME IInv, StartRefused PROVE IInv'
  OBVIOUS
<1> DEFINE r == [S EXCEPT !.succeeded = FALSE]
<1>1. /\ r \in TestRecord /\ SameRun(S, r) /\ Clean(r) /\ r.state = S.state
      /\ ~ r.succeeded /\ r.pings = S.pings
  BY Typed DEF TestRecord, SameRun, Clean
<1>2. test' = [test EXCEPT !["station"] = r]
  BY DEF StartRefused, S
<1>3. RestOK /\ heard' = heard
  BY Silent DEF StartRefused, IInv, TypeOK
<1> HIDE DEF r
<1> QED
  BY <1>1, <1>2, <1>3, StationStep DEF IInv, SameTest, StationHeard, S, V

LEMMA SendStartStep == IInv /\ SendStart => IInv'
<1> SUFFICES ASSUME IInv, SendStart PROVE IInv'
  OBVIOUS
<1> PICK m : m = StartMsg("station")
  OBVIOUS
<1>1. /\ m \in Message /\ m.from = "station" /\ m.type = "START"
      /\ m.run = S.run % TestNumbers /\ m.params = S.toTest
  BY Record, StartMsgFacts DEF Side, S
<1>2. /\ test' = test /\ heard' = heard /\ net' \subseteq net \cup {m}
      /\ radio' = radio /\ workers' = workers /\ told' = told
  BY DEF SendStart, Send, SendAfter
<1>3. S' = S /\ V' = V
  BY <1>2 DEF S, V
<1>4. Truthful(m)'
  <2> SUFFICES OfStation(m)'
    BY <1>1 DEF Truthful
  <2> QED
    BY <1>1, <1>3 DEF OfStation
<1>5. RestOK
  BY <1>1, <1>2, <1>4, Sending DEF IInv, TypeOK
<1> QED
  BY <1>2, <1>5, Keep

LEMMA TakeStartReplyStep ==
  ASSUME IInv, NEW m, TakeStartReply(m)
  PROVE  IInv'
<1>1. V.run = S.run /\ StartsWorker("station", "apply", Apply(S)) /\ S.state = "START"
  BY FromVehicle DEF TakeStartReply, S
<1>2. /\ Apply(S) \in TestRecord /\ Clean(Apply(S)) /\ SameRun(S, Apply(S))
      /\ Apply(S).succeeded = S.succeeded /\ Apply(S).state = "APPLY"
  BY Typed, Applying
<1>3. PICK r \in TestRecord : /\ test' = [test EXCEPT !["station"] = r]
                              /\ \/ r = Apply(S)
                                 \/ SameRun(Apply(S), r) /\ Clean(r) /\ ~ r.succeeded /\ r.state = "NONE"
  BY <1>1, <1>2, StartingWorker DEF Side
<1>4. RestOK /\ heard' = heard
  <2>1. /\ workers' \in [Side -> SUBSET {"apply", "revert"}]
        /\ told' \in {"nothing", "succeeded", "failed"}
    BY <1>1, <1>2, StartingWorker DEF Side
  <2>2. radio' \in [Side -> Params] /\ heard' = heard /\ net' \subseteq net
    BY DEF TakeStartReply, IInv, TypeOK
  <2> QED
    BY <2>1, <2>2, Silent
<1>5. /\ SameRun(S, r) /\ Clean(r) /\ r.state \in {"NONE", "APPLY"}
      /\ r.succeeded => S.succeeded
  BY <1>2, <1>3 DEF SameRun
<1> QED
  BY <1>1, <1>3, <1>4, <1>5, StationStep DEF IInv, SuccessIsProved, S

LEMMA SendPingStep == IInv /\ SendPing => IInv'
<1> SUFFICES ASSUME IInv, SendPing PROVE IInv'
  OBVIOUS
<1> PICK r : r = [S EXCEPT !.sent = @ + 1]
  OBVIOUS
<1> PICK m : m = PingMsg("station", r)
  OBVIOUS
<1>1. /\ r \in TestRecord /\ SameRun(S, r) /\ Clean(r) /\ r.state = S.state
      /\ r.succeeded = S.succeeded /\ r.pings = S.pings
  <2>1. S.sent + 1 \in Nat
    BY Typed DEF TestRecord
  <2> QED
    BY <2>1, Typed DEF TestRecord, SameRun, Clean
<1>2. /\ test' = [test EXCEPT !["station"] = r] /\ net' \subseteq net \cup {m}
      /\ S.state \in PingType
      /\ heard' = heard /\ radio' = radio /\ workers' = workers /\ told' = told
  BY DEF SendPing, Send, SendAfter, S
<1>3. /\ m \in Message /\ m.from = "station" /\ m.type = S.state
      /\ m.run = S.run % TestNumbers /\ m.got = S.pings
  BY <1>1, <1>2, PingMsgFacts DEF Side, SameRun
<1>4. V.run = S.run
  BY <1>2 DEF IInv, SameTest, PingType, S, V
<1>5. S' = r /\ V' = V
  BY <1>1, <1>2, Typed, Update DEF Side, S, V
<1>6. Truthful(m)'
  <2> SUFFICES OfStation(m)'
    BY <1>3 DEF Truthful
  <2>1. m.type = "PING_DOWNLINK" => (m.got > 0 => S.run \in heard["station"])
    BY <1>3 DEF IInv, StationHeard
  <2> QED
    BY <1>1, <1>2, <1>3, <1>4, <1>5, <2>1 DEF OfStation, SameRun, PingType
<1>7. RestOK
  BY <1>2, <1>3, <1>6, Sending DEF IInv, TypeOK
<1> QED
  BY <1>1, <1>2, <1>4, <1>7, StationStep DEF IInv, StationHeard, SuccessIsProved, S

LEMMA Counted ==
  ASSUME NEW q \in TestRecord
  PROVE  LET r == [q EXCEPT !.pings = @ + 1]
         IN  /\ r \in TestRecord /\ SameRun(q, r) /\ (Clean(q) => Clean(r)) /\ r.state = q.state
             /\ r.succeeded = q.succeeded /\ r.paused = q.paused /\ r.pings = q.pings + 1
             /\ r.slowed = q.slowed
<1>1. q.pings + 1 \in Nat
  BY DEF TestRecord
<1> QED
  BY <1>1 DEF TestRecord, SameRun, Clean

LEMMA TakeUplinkReplyStep ==
  ASSUME IInv, NEW m, TakeUplinkReply(m)
  PROVE  IInv'
<1> DEFINE q == [S EXCEPT !.pings = @ + 1]
<1>1. /\ q \in TestRecord /\ SameRun(S, q) /\ Clean(q) /\ q.state = "PING_UPLINK"
      /\ q.succeeded = S.succeeded /\ ~ q.paused
  <2>1. S.state = "PING_UPLINK" /\ Clean(S) /\ S \in TestRecord
    BY Typed DEF TakeUplinkReply, S
  <2> QED
    BY <2>1, Counted DEF Clean
<1>2. V.run = S.run
  BY FromVehicle DEF TakeUplinkReply
<1>3. \E r \in {q, Ping(q, "PING_DOWNLINK")} : test' = [test EXCEPT !["station"] = r]
  BY DEF TakeUplinkReply, S
<1>4. RestOK /\ heard' = heard
  BY Silent DEF TakeUplinkReply, IInv, TypeOK
<1> HIDE DEF q
<1>5. \A r \in {q, Ping(q, "PING_DOWNLINK")} :
        /\ r \in TestRecord /\ SameRun(S, r) /\ Clean(r) /\ r.succeeded = S.succeeded
        /\ r.state = "PING_UPLINK" \/ (r.state = "PING_DOWNLINK" /\ r.pings = 0)
  BY <1>1, Pinging DEF SameRun, PingType
<1>6. PICK r \in TestRecord :
        /\ test' = [test EXCEPT !["station"] = r]
        /\ SameRun(S, r) /\ Clean(r) /\ r.succeeded = S.succeeded
        /\ r.state = "PING_UPLINK" \/ (r.state = "PING_DOWNLINK" /\ r.pings = 0)
  BY <1>3, <1>5
<1>7. r.succeeded => S.run \in heard'["vehicle"]
  BY <1>4, <1>6 DEF IInv, SuccessIsProved, S
<1>8. ~ (r.state = "END" \/ (r.state = "PING_DOWNLINK" /\ r.pings > 0))
  BY <1>6
<1> QED
  BY <1>2, <1>4, <1>6, <1>7, <1>8, StationStep

LEMMA TakeDownlinkReplyStep ==
  ASSUME IInv, NEW m, TakeDownlinkReply(m)
  PROVE  IInv'
<1> DEFINE q == [S EXCEPT !.pings = @ + 1]
           e == [q EXCEPT !.state = "END", !.succeeded = TRUE, !.sent = 0]
<1>1. /\ q \in TestRecord /\ SameRun(S, q) /\ Clean(q) /\ q.succeeded = S.succeeded
      /\ q.state = "PING_DOWNLINK" /\ ~ q.paused
  <2>1. S.state = "PING_DOWNLINK" /\ Clean(S) /\ S \in TestRecord
    BY Typed DEF TakeDownlinkReply, S
  <2> QED
    BY <2>1, Counted DEF Clean
<1>2. /\ V.run = S.run /\ m.type = "PING_DOWNLINK" /\ m \in Message
      /\ m.got > 1 => S.run \in heard["vehicle"]
  BY FromVehicle DEF TakeDownlinkReply
<1>3. test' = [test EXCEPT !["station"] = IF Confirmed(m) THEN e ELSE q]
  BY DEF TakeDownlinkReply, S
<1> HIDE DEF q
<1>4. e \in TestRecord /\ SameRun(S, e) /\ Clean(e)
  BY <1>1 DEF TestRecord, State, SameRun, Clean
<1> HIDE DEF e
<1>5. /\ heard' \in [Side -> SUBSET Nat] /\ \A s \in Side : heard[s] \subseteq heard'[s]
      /\ S.run \in heard'["station"] /\ heard'["vehicle"] = heard["vehicle"]
  BY Typed DEF TakeDownlinkReply, IInv, TypeOK, Side, S
<1>6. RestOK
  BY <1>5 DEF TakeDownlinkReply, IInv, TypeOK, RestOK
<1>7. CASE Confirmed(m)
  <2>1. m.got > 1 /\ test' = [test EXCEPT !["station"] = e]
    BY <1>3, <1>7 DEF Confirmed
  <2> QED
    BY <1>2, <1>4, <1>5, <1>6, <2>1, StationStep
<1>8. CASE ~ Confirmed(m)
  <2>1. test' = [test EXCEPT !["station"] = q]
    BY <1>3, <1>8
  <2> QED
    BY <1>1, <1>2, <1>5, <1>6, <2>1, StationStep DEF IInv, SuccessIsProved, S
<1> QED
  BY <1>7, <1>8

LEMMA TakeEndReplyStep ==
  ASSUME IInv, NEW m, TakeEndReply(m)
  PROVE  IInv'
<1> DEFINE r == EndAndNotify(S)
<1>1. /\ r \in TestRecord /\ SameRun(S, r) /\ Clean(r) /\ r.state = "NONE"
      /\ r.succeeded = S.succeeded
  <2>1. ~ S.paused
    BY Typed DEF TakeEndReply, S, Clean
  <2> QED
    BY <2>1, Typed, Ending
<1>2. test' = [test EXCEPT !["station"] = r]
  BY DEF TakeEndReply, S
<1>3. RestOK /\ heard' = heard
  BY Silent DEF TakeEndReply, IInv, TypeOK
<1> HIDE DEF r
<1> QED
  BY <1>1, <1>2, <1>3, EndStep DEF Side, S

-----------------------------------------------------------------------------
(***************************************************************************)
(* The steps of the vehicle.                                               *)
(***************************************************************************)
LEMMA FromStation ==
  ASSUME IInv, NEW type, NEW m, Arrives("station", type, m)
  PROVE  /\ m \in net /\ m \in Message /\ m.type = type /\ m.run = S.run % TestNumbers
         /\ type = "START" => m.params = S.toTest /\ m.params \in Params
         /\ type # "START" => V.run = S.run
         /\ type = "PING_DOWNLINK" => (m.got > 0 => V.run \in heard["station"])
         /\ type = "END" => V.run \in heard["station"]
<1>1. m \in net /\ m.from = "station" /\ m.type = type
  BY DEF Arrives
<1>2. m \in Message /\ OfStation(m)
  BY <1>1 DEF IInv, TypeOK, MessagesTruthful, Truthful
<1> QED
  BY <1>1, <1>2, MessageFacts DEF OfStation

LEMMA TakeStartStep ==
  ASSUME IInv, NEW m, TakeStart(m)
  PROVE  IInv'
<1> DEFINE r == [V EXCEPT !.state = "START", !.run = m.run, !.original = V.params,
                          !.toTest = m.params, !.succeeded = FALSE, !.slowed = TRUE, !.sent = 0]
<1>1. /\ m \in net /\ m.run = S.run % TestNumbers /\ m.params = S.toTest /\ m.params \in Params
      /\ m.run \in Nat /\ m.run < TestNumbers /\ m.run <= S.run
      /\ V.run = S.run => m.run = S.run
  <2>1. /\ m \in net /\ m.run = S.run % TestNumbers /\ m.params = S.toTest /\ m.params \in Params
    BY FromStation DEF TakeStart
  <2> QED
    BY <2>1, Typed, Remainder DEF IInv, RunsAgree
<1>2. V.state = "NONE" /\ ~ V.paused /\ V.params \in Params
  BY Typed DEF TakeStart, V, Clean, TestRecord
<1>3. /\ r \in TestRecord /\ Clean(r) /\ r.run = m.run /\ r.toTest = m.params
      /\ r.state = "START" /\ ~ r.succeeded
  BY <1>1, <1>2, Typed DEF TestRecord, State, Clean
<1>4. test' = [test EXCEPT !["vehicle"] = r]
  BY DEF TakeStart, V
<1> HIDE DEF r
<1>5. test' \in [Side -> TestRecord] /\ V' = r /\ S' = S
  BY <1>3, <1>4, Typed, Update DEF Side, S, V
<1>6. /\ radio' = radio /\ workers' = workers /\ told' = told /\ heard' = heard
      /\ net' \subseteq net
  BY DEF TakeStart
<1>7. TypeOK'
  BY <1>5, <1>6 DEF IInv, TypeOK
<1>8. NothingLeftBehind'
  BY <1>3, <1>5, Typed DEF NothingLeftBehind, Clean, Side, S, V
<1>9. V.run = S.run => V'.run = S'.run
  BY <1>1, <1>3, <1>5
<1>10. SameTest' /\ StationHeard' /\ SuccessIsProved'
  BY <1>1, <1>3, <1>5, <1>6 DEF IInv, SameTest, StationHeard, SuccessIsProved, S, V
<1>11. RunsAgree'
  BY <1>1, <1>3, <1>5 DEF IInv, RunsAgree
<1>12. MessagesTruthful'
  <2> SUFFICES ASSUME NEW k \in net PROVE Truthful(k)'
    BY <1>6 DEF MessagesTruthful
  <2>1. Truthful(k)
    BY DEF IInv, MessagesTruthful
  <2> QED
    BY <1>5, <1>6, <1>9, <2>1 DEF Truthful, OfStation, OfVehicle
<1> QED
  BY <1>7, <1>8, <1>10, <1>11, <1>12 DEF IInv

\* What the vehicle may say of its test.
LEMMA VehicleSays ==
  ASSUME IInv, NEW m \in Message, m.from = "vehicle", m.run = V.run % TestNumbers,
         S'.run = S.run, V'.run = V.run,
         m.type = "PING_DOWNLINK" => (m.got > 1 => V.run \in heard'["vehicle"])
  PROVE  Truthful(m)'
<1>1. m.run = V.run /\ V.run <= S.run
  BY Typed, Remainder DEF IInv, RunsAgree
<1> QED
  BY <1>1 DEF Truthful, OfVehicle

LEMMA ConfirmStartStep == IInv /\ ConfirmStart => IInv'
<1> SUFFICES ASSUME IInv, ConfirmStart PROVE IInv'
  OBVIOUS
<1> PICK m : m = StartMsg("vehicle")
  OBVIOUS
<1>1. /\ m \in Message /\ m.from = "vehicle" /\ m.type = "START"
      /\ m.run = V.run % TestNumbers
  BY Record, StartMsgFacts DEF Side, V
<1>2. /\ net' \subseteq net \cup {m} /\ heard' = heard /\ radio' = radio
  BY DEF ConfirmStart, Send, SendAfter
<1>3. CASE UNCHANGED <<test, workers, told>>
  <2>1. S' = S /\ V' = V /\ test' = test
    BY <1>3 DEF S, V
  <2>2. Truthful(m)'
    BY <1>1, <2>1, VehicleSays
  <2>3. RestOK
    BY <1>1, <1>2, <1>3, <2>2, Sending DEF IInv, TypeOK
  <2> QED
    BY <2>1, <2>3, Keep
<1>4. CASE StartsWorker("vehicle", "apply", Apply(V))
  <2>1. /\ Apply(V) \in TestRecord /\ Clean(Apply(V)) /\ SameRun(V, Apply(V))
        /\ Apply(V).succeeded = V.succeeded
    BY Typed, Applying
  <2>2. PICK r \in TestRecord : /\ test' = [test EXCEPT !["vehicle"] = r]
                                /\ \/ r = Apply(V)
                                   \/ SameRun(Apply(V), r) /\ Clean(r) /\ ~ r.succeeded /\ r.state = "NONE"
    BY <1>4, <2>1, StartingWorker DEF Side
  <2>3. SameRun(V, r) /\ Clean(r) /\ (r.succeeded => V.succeeded)
    BY <2>1, <2>2 DEF SameRun
  <2>4. S' = S /\ V' = r
    BY <2>2, Typed, Update DEF Side, S, V
  <2>5. Truthful(m)'
    BY <1>1, <2>3, <2>4, VehicleSays DEF SameRun
  <2>6. /\ workers' \in [Side -> SUBSET {"apply", "revert"}]
        /\ told' \in {"nothing", "succeeded", "failed"}
    BY <1>4, <2>1, StartingWorker DEF Side
  <2>7. RestOK
    BY <1>1, <1>2, <2>5, <2>6, Sending DEF IInv, TypeOK
  <2> QED
    BY <1>2, <2>2, <2>3, <2>7, VehicleStep DEF IInv, SuccessIsProved, V
<1> QED
  BY <1>3, <1>4 DEF ConfirmStart, V

LEMMA Answering ==
  ASSUME NEW q \in TestRecord
  PROVE  LET r == [q EXCEPT !.pings = @ + 1, !.sent = @ + 1]
         IN  /\ r \in TestRecord /\ SameRun(q, r) /\ (Clean(q) => Clean(r)) /\ r.state = q.state
             /\ r.succeeded = q.succeeded
<1>1. q.pings + 1 \in Nat /\ q.sent + 1 \in Nat
  BY DEF TestRecord
<1> QED
  BY <1>1 DEF TestRecord, SameRun, Clean

LEMMA TakeUplinkPingStep ==
  ASSUME IInv, NEW k, TakeUplinkPing(k)
  PROVE  IInv'
<1> PICK r : r = [V EXCEPT !.pings = @ + 1, !.sent = @ + 1]
  OBVIOUS
<1> PICK m : m = PingMsg("vehicle", r)
  OBVIOUS
<1>1. /\ r \in TestRecord /\ SameRun(V, r) /\ Clean(r) /\ r.state = "PING_UPLINK"
      /\ r.succeeded = V.succeeded
  <2>1. V.state = "PING_UPLINK" /\ V \in TestRecord /\ Clean(V)
    BY Typed DEF TakeUplinkPing, V
  <2> QED
    BY <2>1, Answering
<1>2. /\ test' = [test EXCEPT !["vehicle"] = r] /\ net' \subseteq net \cup {m}
      /\ heard' = heard /\ radio' = radio /\ workers' = workers /\ told' = told
  BY DEF TakeUplinkPing, SendAfter, V
<1>3. /\ m \in Message /\ m.from = "vehicle" /\ m.type = "PING_UPLINK"
      /\ m.run = V.run % TestNumbers
  BY <1>1, PingMsgFacts DEF Side, SameRun, PingType
<1>4. S' = S /\ V' = r
  BY <1>1, <1>2, Typed, Update DEF Side, S, V
<1>5. Truthful(m)'
  BY <1>1, <1>3, <1>4, VehicleSays DEF SameRun
<1>6. RestOK
  BY <1>2, <1>3, <1>5, Sending DEF IInv, TypeOK
<1> QED
  BY <1>1, <1>2, <1>6, VehicleStep DEF IInv, SuccessIsProved, V

LEMMA TakeDownlinkPingStep ==
  ASSUME IInv, NEW k, TakeDownlinkPing(k)
  PROVE  IInv'
<1> PICK w : w = IF V.state = "PING_UPLINK" THEN Ping(V, "PING_DOWNLINK") ELSE V
  OBVIOUS
<1> PICK a : a = [w EXCEPT !.pings = @ + 1, !.sent = @ + 1]
  OBVIOUS
<1> PICK r : r = [w EXCEPT !.pings = @ + 1, !.sent = @ + 1, !.succeeded = k.got > 0 \/ w.succeeded]
  OBVIOUS
<1> PICK m : m = PingMsg("vehicle", r)
  OBVIOUS
<1>1. /\ w \in TestRecord /\ SameRun(V, w) /\ Clean(w) /\ w.state = "PING_DOWNLINK"
      /\ w.succeeded = V.succeeded
  <2>1. V.state \in {"PING_UPLINK", "PING_DOWNLINK"} /\ V \in TestRecord /\ Clean(V)
    BY Typed DEF TakeDownlinkPing, V
  <2>2. ~ V.paused
    BY <2>1 DEF Clean
  <2> QED
    BY <2>1, <2>2, Pinging DEF PingType, SameRun
<1>2. /\ r \in TestRecord /\ SameRun(V, r) /\ Clean(r) /\ r.state = "PING_DOWNLINK"
      /\ r.succeeded => k.got > 0 \/ V.succeeded
  <2>1. /\ a \in TestRecord /\ SameRun(w, a) /\ Clean(a) /\ a.state = "PING_DOWNLINK"
    BY <1>1, Answering
  <2>2. (k.got > 0 \/ w.succeeded) \in BOOLEAN
    BY Zenon
  <2>3. r = [a EXCEPT !.succeeded = k.got > 0 \/ w.succeeded]
    BY <1>1 DEF TestRecord
  <2>4. r \in TestRecord /\ SameRun(a, r) /\ Clean(r) /\ r.state = "PING_DOWNLINK"
    BY <2>1, <2>2, <2>3 DEF TestRecord, SameRun, Clean
  <2>5. r.succeeded = (k.got > 0 \/ w.succeeded)
    BY <2>1, <2>3 DEF TestRecord
  <2> QED
    BY <1>1, <2>1, <2>4, <2>5 DEF SameRun
<1>3. /\ test' = [test EXCEPT !["vehicle"] = r] /\ net' \subseteq net \cup {m}
      /\ radio' = radio /\ workers' = workers /\ told' = told
      /\ heard' = IF r.pings > 1 THEN [heard EXCEPT !["vehicle"] = @ \cup {r.run}] ELSE heard
  BY DEF TakeDownlinkPing, SendAfter, V
<1>4. /\ m \in Message /\ m.from = "vehicle" /\ m.type = "PING_DOWNLINK"
      /\ m.run = V.run % TestNumbers /\ m.got = r.pings
  <2>1. r \in TestRecord /\ r.run = V.run /\ r.state = "PING_DOWNLINK"
    BY <1>2 DEF SameRun
  <2>2. /\ PingMsg("vehicle", r) \in Message /\ PingMsg("vehicle", r).from = "vehicle"
        /\ PingMsg("vehicle", r).type = r.state /\ PingMsg("vehicle", r).got = r.pings
        /\ PingMsg("vehicle", r).run = r.run % TestNumbers
    BY <2>1, PingMsgFacts, Zenon DEF Side, PingType
  <2> QED
    BY <2>1, <2>2, Zenon
<1>5. S' = S /\ V' = r
  BY <1>2, <1>3, Typed, Update DEF Side, S, V
<1>6. /\ heard' \in [Side -> SUBSET Nat] /\ \A s \in Side : heard[s] \subseteq heard'[s]
      /\ r.pings > 1 => V.run \in heard'["vehicle"]
  <2>1. r.run = V.run /\ V.run \in Nat /\ heard \in [Side -> SUBSET Nat]
    BY <1>2, Typed DEF SameRun, IInv, TypeOK
  <2> QED
    BY <1>3, <2>1 DEF Side
<1>7. Truthful(m)'
  BY <1>2, <1>4, <1>5, <1>6, VehicleSays DEF SameRun
<1>8. RestOK
  BY <1>3, <1>4, <1>6, <1>7, Sending DEF IInv, TypeOK
<1>9. r.succeeded => V.run \in heard'["station"]
  <2>1. k.got > 0 => V.run \in heard["station"]
    BY FromStation DEF TakeDownlinkPing
  <2>2. V.succeeded => V.run \in heard["station"]
    BY DEF IInv, SuccessIsProved, V
  <2> QED
    BY <1>2, <1>6, <2>1, <2>2 DEF Side
<1> QED
  BY <1>2, <1>3, <1>8, <1>9, VehicleStep

LEMMA TakeDownlinkPingTooEarlyStep ==
  ASSUME IInv, NEW m, TakeDownlinkPingTooEarly(m)
  PROVE  IInv'
<1>1. test["vehicle"] \in TestRecord /\ ~ test["vehicle"].paused
  BY Record DEF TakeDownlinkPingTooEarly, Side, Clean
<1> QED
  BY <1>1, FailsStep DEF TakeDownlinkPingTooEarly, Side, SameRun

LEMMA TakeEndStep ==
  ASSUME IInv, NEW k, TakeEnd(k)
  PROVE  IInv'
<1>1. V.run \in heard["station"]
  BY FromStation DEF TakeEnd
<1>2. heard' = heard /\ radio' = radio /\ workers' = workers /\ told' = told
  BY DEF TakeEnd
<1> PICK m : m = EndMsg("vehicle")
  OBVIOUS
<1>3. /\ m \in Message /\ m.from = "vehicle" /\ m.type = "END"
      /\ m.run = V.run % TestNumbers
  BY Record, EndMsgFacts DEF Side, V
<1>4. CASE /\ V.state = "PING_DOWNLINK"
           /\ test' = [test EXCEPT !["vehicle"] = EndOfVehicle(V)]
           /\ SendAfter({k}, EndMsg("vehicle"))
  <2> DEFINE r == EndOfVehicle(V)
  <2>1. r \in TestRecord /\ SameRun(V, r) /\ Clean(r)
    BY <1>4, Typed DEF EndOfVehicle, TestRecord, State, SameRun, Clean
  <2>2. test' = [test EXCEPT !["vehicle"] = r] /\ net' \subseteq net \cup {m}
    BY <1>4 DEF SendAfter
  <2> HIDE DEF r
  <2>3. S' = S /\ V' = r
    BY <2>1, <2>2, Typed, Update DEF Side, S, V
  <2>4. Truthful(m)'
    BY <1>3, <2>1, <2>3, VehicleSays DEF SameRun
  <2>5. RestOK
    BY <1>2, <1>3, <2>2, <2>4, Sending DEF IInv, TypeOK
  <2> QED
    BY <1>1, <1>2, <2>1, <2>2, <2>5, VehicleStep
<1>5. CASE SendAfter({k}, EndMsg("vehicle")) /\ test' = test
  <2>1. S' = S /\ V' = V /\ net' \subseteq net \cup {m}
    BY <1>5 DEF S, V, SendAfter
  <2>2. Truthful(m)'
    BY <1>3, <2>1, VehicleSays
  <2>3. RestOK
    BY <1>2, <1>3, <2>1, <2>2, Sending DEF IInv, TypeOK
  <2> QED
    BY <1>5, <2>3, Keep
<1>6. CASE /\ V.state = "END"
           /\ test' = [test EXCEPT !["vehicle"] = EndAndNotify([V EXCEPT !.succeeded = TRUE])]
           /\ net' = net \ {k}
  <2> DEFINE q == [V EXCEPT !.succeeded = TRUE]
             r == EndAndNotify(q)
  <2>1. q \in TestRecord /\ SameRun(V, q) /\ ~ q.paused
    BY <1>6, Typed DEF TestRecord, SameRun, Clean
  <2>2. test' = [test EXCEPT !["vehicle"] = r]
    BY <1>6
  <2> HIDE DEF q
  <2>3. r \in TestRecord /\ SameRun(V, r) /\ Clean(r)
    BY <2>1, Ending DEF SameRun
  <2> HIDE DEF r
  <2>4. RestOK
    BY <1>2, <1>6, Silent DEF IInv, TypeOK
  <2> QED
    BY <1>1, <1>2, <2>2, <2>3, <2>4, VehicleStep
<1> QED
  BY <1>4, <1>5, <1>6 DEF TakeEnd, V

-----------------------------------------------------------------------------
(***************************************************************************)
(* The theorems.                                                           *)
(***************************************************************************)
LEMMA InitInvariant == Init => IInv
<1> SUFFICES ASSUME Init PROVE IInv
  OBVIOUS
<1> USE TestLinkAssumption DEF Init
<1>1. TypeOK
  BY DEF TypeOK, TestRecord, State
<1>2. NothingLeftBehind /\ SameTest /\ SuccessIsProved
  BY DEF NothingLeftBehind, SameTest, SuccessIsProved, Side
<1>3. RunsAgree /\ StationHeard /\ MessagesTruthful
  BY DEF RunsAgree, StationHeard, MessagesTruthful, S, V, Side
<1> QED
  BY <1>1, <1>2, <1>3 DEF IInv

\* The invariant holds in every state that can be reached, for any parameters,
\* any number of tests and pings, whatever the radio loses and delays.
THEOREM Invariant == Spec => []IInv
<1>1. ASSUME IInv, [Next]_vars PROVE IInv'
  <2> USE <1>1
  <2>1. CASE \E s \in Side : \/ Timeout(s) \/ Applied(s) \/ Reverted(s) \/ SendEnd(s)
                             \/ \E kind \in {"apply", "revert"} : WorkerDone(s, kind)
    BY <2>1, GivesUpStep, RevertsOnTimeoutStep, KeepsOnTimeoutStep, AppliedStep, SendEndStep,
       WorkerDoneStep DEF Timeout
  <2>2. CASE \/ \E p \in Params : StartTest(p)
             \/ StartRefused \/ SendStart \/ SendPing \/ ConfirmStart
    BY <2>2, StartTestStep, StartRefusedStep, SendStartStep, SendPingStep, ConfirmStartStep
  <2>3. CASE \E m \in net : \/ Lost(m)
                            \/ TakeStartReply(m) \/ TakeUplinkReply(m) \/ TakeDownlinkReply(m)
                            \/ TakeEndReply(m)
                            \/ TakeStart(m) \/ TakeUplinkPing(m) \/ TakeDownlinkPing(m)
                            \/ TakeDownlinkPingTooEarly(m) \/ TakeEnd(m)
    BY <2>3, LostStep, TakeStartReplyStep, TakeUplinkReplyStep, TakeDownlinkReplyStep,
       TakeEndReplyStep, TakeStartStep, TakeUplinkPingStep, TakeDownlinkPingStep,
       TakeDownlinkPingTooEarlyStep, TakeEndStep
  <2>4. CASE UNCHANGED vars
    BY <2>4 DEF vars, IInv, TypeOK, NothingLeftBehind, SameTest, SuccessIsProved, RunsAgree,
      StationHeard, MessagesTruthful, Truthful, OfStation, OfVehicle, S, V
  <2> QED
    BY <2>1, <2>2, <2>3, <2>4 DEF Next
<1> QED
  BY <1>1, InitInvariant, PTL DEF Spec

\* Every record and message of the test stays in its range.
THEOREM TypeCorrect == Spec => []TypeOK
BY Invariant, PTL DEF IInv

\* However a test ends, no interface stays paused and the bitrate is restored.
THEOREM NothingLeftCorrect == Spec => []NothingLeftBehind
BY Invariant, PTL DEF IInv

\* Past START the two ends are in the same test, with the same parameters.
THEOREM SameTestCorrect == Spec => []SameTest
BY Invariant, PTL DEF IInv

\* No end believes in success that the other has not proved to it.
THEOREM SuccessCorrect == Spec => []SuccessIsProved
BY Invariant, PTL DEF IInv
=============================================================================
