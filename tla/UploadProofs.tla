---------------------------- MODULE UploadProofs ----------------------------
(***************************************************************************)
(* Proofs about Upload, for every number of segments and every frequency   *)
(* of the answers.                                                         *)
(***************************************************************************)
EXTENDS Upload, TLAPS

\* Where the station is in the archive: between the segment confirmed last
\* and the next one it must ask an answer for.
Placed ==
  LET f == station.frequency  a == station.acked  n == station.next
  IN  /\ f <= AckFrequency
      /\ station.state \in {"sending", "waiting"} =>
           \/ a = -1 /\ n = 0
           \/ 0 <= a /\ a < n /\ n <= a + f /\ a % f = 0
      /\ station.state = "waiting" => WantsAnswer

\* What an OK to the segment the station waits for must mean.
Held ==
  /\ ~ dropped => 0 .. station.next \subseteq vehicle.received
  /\ IsLast(station.next) => whole

CommandsNumbered ==
  \A m \in up :
    /\ m.number <= station.counter
    /\ station.state = "waiting" /\ m.number = station.counter =>
         m.type = "segment" /\ m.index = station.next

NotedRight ==
  /\ vehicle.number <= station.counter
  /\ station.state = "waiting" /\ vehicle.number = station.counter /\ vehicle.answer => Held

AnswersRight ==
  \A m \in down : m.type = "reply" =>
    /\ m.number <= station.counter
    /\ IsAnswer(m) /\ m.ok => Held

IInv ==
  /\ TypeOK /\ Placed /\ CommandsNumbered /\ NotedRight /\ AnswersRight
  /\ ConfirmedIsHeld

LEMMA NextMultiple ==
  ASSUME NEW a \in Nat, NEW f \in Nat \ {0}, a % f = 0
  PROVE  (a + f) % f = 0
<1>1. PICK q \in Nat : a = f * q
  BY SMT
<1>2. a + f = f * (q + 1)
  BY <1>1, SMT
<1>3. (f * (q + 1)) % f = 0
  BY SMT
<1> QED
  BY <1>2, <1>3

LEMMA CommandFacts ==
  ASSUME NEW m \in Command
  PROVE  /\ m.number \in Nat /\ m.type \in {"segment", "cancel"}
         /\ m.type = "segment" => m.index \in Segment /\ m.ack \in BOOLEAN /\ m.resend \in Nat
<1>1. CASE m \in [type : {"segment"}, index : Segment, ack : BOOLEAN, number : Nat, resend : Nat]
  BY <1>1
<1>2. CASE m \in [type : {"cancel"}, number : Nat, resend : {0}]
  BY <1>2
<1> QED
  BY <1>1, <1>2 DEF Command

LEMMA SegmentIsCommand ==
  ASSUME NEW s \in StationRecord, NEW a \in BOOLEAN
  PROVE  /\ SegmentCommand(s, a) \in Command
         /\ SegmentCommand(s, a).number = s.counter
         /\ SegmentCommand(s, a).type = "segment"
         /\ SegmentCommand(s, a).index = s.next
BY DEF SegmentCommand, Command, StationRecord

LEMMA AnswerFacts ==
  ASSUME NEW m \in Answer
  PROVE  m.type \in {"reply", "status"} /\ (m.type = "reply" => m.number \in Nat /\ m.ok \in BOOLEAN)
<1>1. CASE m \in [type : {"reply"}, number : Nat, ok : BOOLEAN]
  BY <1>1
<1>2. CASE m \in [type : {"status"}, status : {"completed", "failed", "no space"}]
  BY <1>2
<1> QED
  BY <1>1, <1>2 DEF Answer

LEMMA InitInvariant == Init => IInv
<1> SUFFICES ASSUME Init PROVE IInv
  OBVIOUS
<1> USE UploadAssumption DEF Init
<1>1. station \in StationRecord
  BY DEF StationRecord, Segment
<1>2. vehicle \in VehicleRecord
  BY DEF VehicleRecord
<1>3. TypeOK
  BY <1>1, <1>2 DEF TypeOK
<1>4. Placed /\ CommandsNumbered /\ AnswersRight /\ ConfirmedIsHeld
  BY DEF Placed, CommandsNumbered, AnswersRight, ConfirmedIsHeld
<1>5. NotedRight
  BY DEF NotedRight
<1> QED
  BY <1>3, <1>4, <1>5 DEF IInv

-----------------------------------------------------------------------------
\* The station goes on and may send a command.
LEMMA StationGoesOn ==
  ASSUME IInv, NEW s \in StationRecord, station' = s, s.counter >= station.counter,
         s.state = "waiting" => \/ s.counter > station.counter
                                \/ /\ station.state = "waiting" /\ s.next = station.next
                                   /\ s.counter = station.counter,
         up' \subseteq Command,
         \A c \in up' \ up : /\ c.number = s.counter
                             /\ s.state = "waiting" => c.type = "segment" /\ c.index = s.next,
         down' \subseteq down, uploads' \in Nat, vehicle' = vehicle,
         dropped' = dropped, whole' = whole
  PROVE  TypeOK' /\ CommandsNumbered' /\ NotedRight' /\ AnswersRight'
<1> USE DEF IInv
<1>0. station.counter \in Nat /\ s.counter \in Nat /\ vehicle.number \in Nat
  BY DEF TypeOK, StationRecord, VehicleRecord
<1>1. TypeOK'
  BY DEF TypeOK
<1>2. CommandsNumbered'
  <2> SUFFICES ASSUME NEW m \in up'
               PROVE  /\ m.number <= s.counter
                      /\ s.state = "waiting" /\ m.number = s.counter =>
                           m.type = "segment" /\ m.index = s.next
    BY DEF CommandsNumbered
  <2>1. m.number \in Nat
    BY CommandFacts
  <2>2. CASE m \in up
    BY <1>0, <2>1, <2>2 DEF CommandsNumbered
  <2>3. CASE m \notin up
    BY <1>0, <2>1, <2>3
  <2> QED
    BY <2>2, <2>3
<1>3. (s.state = "waiting" /\ s.counter = station.counter) => (Held => Held')
  BY <1>0 DEF Held
<1>4. NotedRight'
  BY <1>0, <1>3 DEF NotedRight
<1>5. AnswersRight'
  <2> SUFFICES ASSUME NEW m \in down', m.type = "reply"
               PROVE  /\ m.number <= s.counter
                      /\ s.state = "waiting" /\ m.number = s.counter /\ m.ok => Held'
    BY DEF AnswersRight, IsAnswer
  <2>1. m.number \in Nat
    BY AnswerFacts DEF TypeOK
  <2> QED
    BY <1>0, <1>3, <2>1 DEF AnswersRight, IsAnswer
<1> QED
  BY <1>1, <1>2, <1>4, <1>5

\* What the vehicle's steps keep.
LEMMA VehicleGoesOn ==
  ASSUME IInv, vehicle' \in VehicleRecord, station' = station, uploads' = uploads,
         dropped' \in BOOLEAN, whole' \in BOOLEAN,
         ~ dropped' => ~ dropped /\ vehicle.received \subseteq vehicle'.received,
         whole => whole',
         vehicle'.number <= station.counter,
         station.state = "waiting" /\ vehicle'.number = station.counter /\ vehicle'.answer =>
           Held',
         up' \subseteq up, down' \subseteq Answer,
         \A m \in down' \ down : m.type = "reply" =>
           m.number = vehicle'.number /\ m.ok = vehicle'.answer
  PROVE  IInv'
<1> USE DEF IInv
<1>1. TypeOK'
  BY DEF TypeOK
<1>2. Placed' /\ CommandsNumbered'
  BY DEF Placed, WantsAnswer, CommandsNumbered
<1>3. Held => Held'
  BY DEF Held
<1>4. NotedRight'
  BY DEF NotedRight
<1>5. AnswersRight'
  BY <1>3 DEF AnswersRight, IsAnswer
<1>6. ConfirmedIsHeld'
  BY DEF ConfirmedIsHeld
<1> QED
  BY <1>1, <1>2, <1>4, <1>5, <1>6

-----------------------------------------------------------------------------
\* The steps of the station.
LEMMA BeginInvariant == IInv /\ Begin => IInv'
<1> SUFFICES ASSUME IInv, Begin PROVE IInv'
  OBVIOUS
<1> USE UploadAssumption DEF IInv, Begin
<1>0. station \in StationRecord /\ 0 \in Segment
  BY DEF TypeOK, Segment
<1>1. station' \in StationRecord /\ station'.counter = station.counter
  BY <1>0 DEF StationRecord
<1>2. TypeOK'
  <2>1. dropped' \in BOOLEAN /\ whole' \in BOOLEAN
    BY Zenon
  <2> QED
    BY <1>1, <2>1 DEF TypeOK
<1>3. station'.state = "sending" /\ station'.acked = -1 /\ station'.next = 0
      /\ station'.frequency = station.frequency
  BY DEF TypeOK, StationRecord
<1>4. Placed'
  BY <1>3 DEF Placed
<1>5. CommandsNumbered'
  BY <1>1, <1>3 DEF CommandsNumbered
<1>6. NotedRight' /\ AnswersRight'
  BY <1>1, <1>3 DEF NotedRight, AnswersRight, IsAnswer
<1>7. ConfirmedIsHeld'
  BY <1>3 DEF ConfirmedIsHeld
<1> QED
  BY <1>2, <1>4, <1>5, <1>6, <1>7

LEMMA SendSegmentInvariant == IInv /\ SendSegment => IInv'
<1> SUFFICES ASSUME IInv, SendSegment PROVE IInv'
  OBVIOUS
<1> DEFINE s == [station EXCEPT !.counter = @ + 1, !.resend = 0]
           c == SegmentCommand(s, FALSE)
<1>0. /\ station \in StationRecord /\ station.state = "sending"
      /\ ~ IsLast(station.next) /\ station.next % station.frequency # 0
      /\ station' = [s EXCEPT !.next = @ + 1]
      /\ up' = up \cup {c}
      /\ UNCHANGED <<vehicle, down, uploads, dropped, whole>>
  BY DEF IInv, TypeOK, SendSegment, WantsAnswer, Send, Sent
<1>1. /\ s \in StationRecord /\ s.counter = station.counter + 1
      /\ station' \in StationRecord /\ station'.counter = station.counter + 1
      /\ station'.state = "sending" /\ station'.next = station.next + 1
      /\ station'.acked = station.acked /\ station'.frequency = station.frequency
  <2>1. station.counter + 1 \in Nat /\ station.next + 1 \in Segment
    BY <1>0, UploadAssumption DEF StationRecord, Segment, IsLast
  <2>2. s \in StationRecord /\ s.counter = station.counter + 1 /\ s.next = station.next
    BY <1>0, <2>1 DEF StationRecord
  <2> QED
    BY <1>0, <2>1, <2>2 DEF StationRecord
<1>2. c \in Command /\ c.number = station.counter + 1
  BY <1>1, SegmentIsCommand
<1> HIDE DEF s, c
<1>3. TypeOK' /\ CommandsNumbered' /\ NotedRight' /\ AnswersRight'
  <2>1. station.counter \in Nat /\ uploads \in Nat /\ up \subseteq Command
    BY DEF IInv, TypeOK, StationRecord
  <2>2. station'.counter >= station.counter /\ uploads' \in Nat /\ up' \subseteq Command
    BY <1>0, <1>1, <1>2, <2>1
  <2>3. \A d \in up' \ up : d.number = station'.counter
    BY <1>0, <1>1, <1>2
  <2>4. station'.state # "waiting"
    BY <1>1
  <2> QED
    BY <1>0, <1>1, <2>2, <2>3, <2>4, StationGoesOn
<1>4. Placed'
  <2> USE DEF IInv, Placed
  <2>1. /\ station.next \in Nat /\ station.acked \in Int /\ station.frequency \in Nat \ {0}
    BY <1>0, UploadAssumption DEF StationRecord, Segment
  <2>2. station.acked >= 0 /\ station.acked % station.frequency = 0
    BY <1>0, <2>1
  <2>3. station.next # station.acked + station.frequency
    BY <1>0, <2>1, <2>2, NextMultiple
  <2> QED
    BY <1>0, <1>1, <2>1, <2>2, <2>3
<1>5. ConfirmedIsHeld'
  BY <1>0, <1>1 DEF IInv, ConfirmedIsHeld
<1> QED
  BY <1>3, <1>4, <1>5 DEF IInv

LEMMA SendAndWaitInvariant == IInv /\ SendAndWait => IInv'
<1> SUFFICES ASSUME IInv, SendAndWait PROVE IInv'
  OBVIOUS
<1> DEFINE s == [station EXCEPT !.counter = @ + 1, !.resend = 0]
           c == SegmentCommand(s, TRUE)
<1>0. /\ station \in StationRecord /\ station.state = "sending" /\ WantsAnswer
      /\ station' = [s EXCEPT !.state = "waiting", !.resend = 1]
      /\ up' = up \cup {c}
      /\ UNCHANGED <<vehicle, down, uploads, dropped, whole>>
  BY DEF IInv, TypeOK, SendAndWait, Send, Sent
<1>1. /\ s \in StationRecord /\ s.counter = station.counter + 1 /\ s.next = station.next
      /\ station' \in StationRecord /\ station'.counter = station.counter + 1
      /\ station'.state = "waiting" /\ station'.next = station.next
      /\ station'.acked = station.acked /\ station'.frequency = station.frequency
  <2>1. station.counter + 1 \in Nat
    BY <1>0 DEF StationRecord
  <2>2. s \in StationRecord /\ s.counter = station.counter + 1 /\ s.next = station.next
    BY <1>0, <2>1 DEF StationRecord
  <2> QED
    BY <1>0, <2>1, <2>2 DEF StationRecord
<1>2. /\ c \in Command /\ c.number = station.counter + 1
      /\ c.type = "segment" /\ c.index = station.next
  BY <1>1, SegmentIsCommand
<1> HIDE DEF s, c
<1>3. TypeOK' /\ CommandsNumbered' /\ NotedRight' /\ AnswersRight'
  <2>1. station.counter \in Nat /\ uploads \in Nat /\ up \subseteq Command
    BY DEF IInv, TypeOK, StationRecord
  <2>2. /\ station'.counter > station.counter /\ station'.counter >= station.counter
        /\ uploads' \in Nat /\ up' \subseteq Command
    BY <1>0, <1>1, <1>2, <2>1
  <2>3. \A d \in up' \ up : /\ d.number = station'.counter
                            /\ d.type = "segment" /\ d.index = station'.next
    BY <1>0, <1>1, <1>2
  <2> QED
    BY <1>0, <1>1, <2>2, <2>3, StationGoesOn
<1>4. Placed' /\ ConfirmedIsHeld'
  BY <1>0, <1>1 DEF IInv, Placed, WantsAnswer, ConfirmedIsHeld
<1> QED
  BY <1>3, <1>4 DEF IInv

LEMMA SendAgainInvariant == IInv /\ SendAgain => IInv'
<1> SUFFICES ASSUME IInv, SendAgain PROVE IInv'
  OBVIOUS
<1> DEFINE c == SegmentCommand(station, TRUE)
<1>0. /\ station \in StationRecord /\ station.state = "waiting"
      /\ station' = [station EXCEPT !.resend = @ + 1]
      /\ up' = up \cup {c}
      /\ UNCHANGED <<vehicle, down, uploads, dropped, whole>>
  BY DEF IInv, TypeOK, SendAgain, Send, Sent
<1>1. /\ station' \in StationRecord /\ station'.counter = station.counter
      /\ station'.state = "waiting" /\ station'.next = station.next
      /\ station'.acked = station.acked /\ station'.frequency = station.frequency
  <2>1. station.resend + 1 \in Nat
    BY <1>0 DEF StationRecord
  <2> QED
    BY <1>0, <2>1 DEF StationRecord
<1>2. /\ c \in Command /\ c.number = station.counter
      /\ c.type = "segment" /\ c.index = station.next
  BY <1>0, SegmentIsCommand
<1> HIDE DEF c
<1>3. TypeOK' /\ CommandsNumbered' /\ NotedRight' /\ AnswersRight'
  <2>1. station.counter \in Nat /\ uploads \in Nat /\ up \subseteq Command
    BY DEF IInv, TypeOK, StationRecord
  <2>2. /\ station'.counter >= station.counter
        /\ uploads' \in Nat /\ up' \subseteq Command
    BY <1>0, <1>1, <1>2, <2>1
  <2>3. \A d \in up' \ up : /\ d.number = station'.counter
                            /\ d.type = "segment" /\ d.index = station'.next
    BY <1>0, <1>1, <1>2
  <2> QED
    BY <1>0, <1>1, <2>2, <2>3, StationGoesOn
<1>4. Placed' /\ ConfirmedIsHeld'
  BY <1>0, <1>1 DEF IInv, Placed, WantsAnswer, ConfirmedIsHeld
<1> QED
  BY <1>3, <1>4 DEF IInv

LEMMA HalvedIsLess ==
  ASSUME station \in StationRecord
  PROVE  Halved \in Nat \ {0} /\ Halved <= station.frequency
BY DEF Halved, StationRecord

LEMMA GivesUpInvariant ==
  ASSUME IInv, NEW f \in Nat \ {0}, f <= station.frequency, GivesUp(f), down' \subseteq down
  PROVE  IInv'
<1> DEFINE s == [station EXCEPT !.state = "idle", !.counter = @ + 1, !.frequency = f]
           c == [type |-> "cancel", number |-> s.counter, resend |-> 0]
<1>0. /\ station \in StationRecord /\ station' = s
      /\ up' = up \cup {c}
      /\ UNCHANGED <<vehicle, uploads, dropped, whole>>
  BY DEF IInv, TypeOK, GivesUp, Send, Sent
<1>1. /\ s \in StationRecord /\ s.counter = station.counter + 1
      /\ s.state = "idle" /\ s.frequency = f
  <2>1. station.counter + 1 \in Nat
    BY <1>0 DEF StationRecord
  <2> QED
    BY <1>0, <2>1 DEF StationRecord
<1>2. c \in Command /\ c.number = s.counter
  BY <1>1 DEF Command, StationRecord
<1> HIDE DEF s, c
<1>3. TypeOK' /\ CommandsNumbered' /\ NotedRight' /\ AnswersRight'
  <2>1. station.counter \in Nat /\ uploads \in Nat /\ up \subseteq Command
    BY DEF IInv, TypeOK, StationRecord
  <2>2. /\ s.counter >= station.counter
        /\ uploads' \in Nat /\ up' \subseteq Command
    BY <1>0, <1>1, <1>2, <2>1
  <2>3. \A d \in up' \ up : d.number = s.counter
    BY <1>0, <1>2
  <2> QED
    BY <1>0, <1>1, <2>2, <2>3, StationGoesOn
<1>4. Placed' /\ ConfirmedIsHeld'
  <2>1. station.frequency \in Nat /\ station.frequency <= AckFrequency
    BY DEF IInv, TypeOK, StationRecord, Placed
  <2> QED
    BY <1>0, <1>1, <2>1, UploadAssumption DEF Placed, ConfirmedIsHeld
<1> QED
  BY <1>3, <1>4 DEF IInv

LEMMA StationGivesUpInvariant == IInv /\ (NoAnswer \/ UserCancels) => IInv'
<1> SUFFICES ASSUME IInv, NoAnswer \/ UserCancels PROVE IInv'
  OBVIOUS
<1>1. station \in StationRecord /\ station.frequency \in Nat \ {0}
  BY DEF IInv, TypeOK, StationRecord
<1> QED
  BY <1>1, HalvedIsLess, GivesUpInvariant DEF NoAnswer, UserCancels

LEMMA UpdateEndsInvariant == IInv /\ UpdateEnds => IInv'
<1> SUFFICES ASSUME IInv, UpdateEnds PROVE IInv'
  OBVIOUS
<1>0. /\ station \in StationRecord /\ station' = [station EXCEPT !.state = "idle"]
      /\ down' \subseteq down
      /\ UNCHANGED <<vehicle, up, uploads, dropped, whole>>
  BY DEF IInv, TypeOK, UpdateEnds
<1>1. /\ station' \in StationRecord /\ station'.counter = station.counter
      /\ station'.state = "idle" /\ station'.frequency = station.frequency
  BY <1>0 DEF StationRecord
<1>3. TypeOK' /\ CommandsNumbered' /\ NotedRight' /\ AnswersRight'
  <2>1. station.counter \in Nat /\ uploads \in Nat /\ up \subseteq Command
    BY DEF IInv, TypeOK, StationRecord
  <2>2. /\ station'.counter >= station.counter
        /\ uploads' \in Nat /\ up' \subseteq Command
    BY <1>0, <1>1, <2>1
  <2>3. up' \ up = {}
    BY <1>0
  <2> QED
    BY <1>0, <1>1, <2>2, <2>3, StationGoesOn
<1>4. Placed' /\ ConfirmedIsHeld'
  BY <1>0, <1>1 DEF IInv, Placed, ConfirmedIsHeld
<1> QED
  BY <1>3, <1>4 DEF IInv

LEMMA TakeConfirmationInvariant ==
  ASSUME IInv, NEW m \in down, TakeConfirmation(m)
  PROVE  IInv'
<1>0. /\ station \in StationRecord /\ station.state = "waiting" /\ WantsAnswer
      /\ station' = Confirmed(station) /\ down' \subseteq down
      /\ vehicle' = vehicle /\ up' = up /\ uploads' = uploads
      /\ dropped' = dropped /\ whole' = whole
  BY DEF IInv, TypeOK, Placed, TakeConfirmation, IsAnswer
<1>1. Held
  <2>1. m.type = "reply" /\ IsAnswer(m) /\ m.ok
    BY DEF TakeConfirmation, IsAnswer
  <2> QED
    BY <2>1 DEF IInv, AnswersRight
<1>2. /\ station' \in StationRecord /\ station'.counter = station.counter
      /\ station'.state # "waiting" /\ station'.acked = station.next
      /\ station'.frequency = station.frequency
      /\ IsLast(station.next) => station'.state = "processing"
      /\ ~ IsLast(station.next) => station'.state = "sending" /\ station'.next = station.next + 1
  <2>1. station.next \in Segment /\ (~ IsLast(station.next) => station.next + 1 \in Segment)
    BY <1>0, UploadAssumption DEF StationRecord, Segment, IsLast
  <2>2. CASE IsLast(station.next)
    BY <1>0, <2>1, <2>2 DEF Confirmed, StationRecord
  <2>3. CASE ~ IsLast(station.next)
    BY <1>0, <2>1, <2>3 DEF Confirmed, StationRecord
  <2> QED
    BY <2>2, <2>3
<1>3. TypeOK' /\ CommandsNumbered' /\ NotedRight' /\ AnswersRight'
  <2>1. station.counter \in Nat /\ uploads' \in Nat /\ up' \subseteq Command /\ up' \ up = {}
    BY <1>0 DEF IInv, TypeOK, StationRecord
  <2>2. station'.counter >= station.counter
    BY <1>2, <2>1
  <2> QED
    BY <1>0, <1>2, <2>1, <2>2, StationGoesOn
<1>4. Placed'
  <2>1. station.next \in Nat /\ station.frequency \in Nat \ {0}
    BY <1>0 DEF StationRecord, Segment
  <2>2. station.frequency <= AckFrequency
    BY DEF IInv, Placed
  <2>3. ~ IsLast(station.next) => station.next % station.frequency = 0
    BY <1>0 DEF WantsAnswer
  <2> QED
    BY <1>2, <2>1, <2>2, <2>3 DEF Placed
<1>5. ConfirmedIsHeld'
  BY <1>0, <1>1, <1>2 DEF ConfirmedIsHeld, Held
<1> QED
  BY <1>3, <1>4, <1>5 DEF IInv

LEMMA TakeRejectionInvariant ==
  ASSUME IInv, NEW m \in down, TakeRejection(m)
  PROVE  IInv'
<1>0. /\ station \in StationRecord /\ station.state = "waiting" /\ down' \subseteq down
  BY DEF IInv, TypeOK, TakeRejection, IsAnswer
<1>1. CASE GivesUp(Halved)
  BY <1>0, <1>1, HalvedIsLess, GivesUpInvariant
<1>2. CASE /\ station' = [station EXCEPT !.state = "sending", !.next = station.acked + 1,
                                         !.rejections = @ + 1]
           /\ UNCHANGED <<vehicle, up, uploads, dropped, whole>>
  <2>1. /\ station' \in StationRecord /\ station'.counter = station.counter
        /\ station'.state = "sending" /\ station'.next = station.acked + 1
        /\ station'.acked = station.acked /\ station'.frequency = station.frequency
    <3>1. station.acked + 1 \in Segment
      <4>1. station.next \in Segment /\ station.acked \in Segment \cup {-1}
        BY <1>0 DEF StationRecord
      <4>2. station.acked < station.next
        BY <1>0, <4>1 DEF IInv, Placed, Segment
      <4> QED
        BY <4>1, <4>2, UploadAssumption DEF Segment
    <3>2. station.rejections + 1 \in Nat
      BY <1>0 DEF StationRecord
    <3> QED
      BY <1>0, <1>2, <3>1, <3>2 DEF StationRecord
  <2>2. TypeOK' /\ CommandsNumbered' /\ NotedRight' /\ AnswersRight'
    <3>1. station.counter \in Nat /\ uploads' \in Nat /\ up' \subseteq Command /\ up' \ up = {}
      BY <1>0, <1>2 DEF IInv, TypeOK, StationRecord
    <3>2. station'.counter >= station.counter
      BY <2>1, <3>1
    <3> QED
      BY <1>0, <1>2, <2>1, <3>1, <3>2, StationGoesOn
  <2>3. Placed'
    BY <1>0, <2>1, UploadAssumption DEF IInv, Placed, StationRecord, Segment
  <2>4. ConfirmedIsHeld'
    BY <1>0, <1>2, <2>1 DEF IInv, ConfirmedIsHeld
  <2> QED
    BY <2>2, <2>3, <2>4 DEF IInv
<1> QED
  BY <1>1, <1>2 DEF TakeRejection

-----------------------------------------------------------------------------
\* The steps of the vehicle and of the radio.
LEMMA LostInvariant == IInv /\ Lost => IInv'
<1> SUFFICES ASSUME IInv, Lost PROVE IInv'
  OBVIOUS
<1>1. /\ vehicle' = vehicle /\ station' = station /\ uploads' = uploads
      /\ dropped' = dropped /\ whole' = whole /\ up' \subseteq up /\ down' \subseteq down
  BY DEF Lost
<1>2. Held' <=> Held
  BY <1>1 DEF Held
<1> QED
  BY <1>1, <1>2, VehicleGoesOn DEF IInv, TypeOK, NotedRight

LEMMA ReplyFacts ==
  ASSUME NEW m, m.number \in Nat, NEW ok \in BOOLEAN
  PROVE  /\ Reply(m, ok) \in Answer
         /\ Reply(m, ok).number = m.number /\ Reply(m, ok).ok = ok
BY DEF Reply, Answer

LEMMA StatusFacts ==
  ASSUME NEW status \in {"completed", "failed", "no space"}
  PROVE  /\ [type |-> "status", status |-> status] \in Answer
         /\ [type |-> "status", status |-> status].type = "status"
BY DEF Answer

\* A command as it arrives.
LEMMA Arriving ==
  ASSUME IInv, NEW m \in up
  PROVE  /\ m \in Command /\ m.number \in Nat /\ m.number <= station.counter
         /\ station.state = "waiting" /\ m.number = station.counter =>
              m.type = "segment" /\ m.index = station.next
         /\ vehicle \in VehicleRecord /\ station \in StationRecord
         /\ vehicle.answer \in BOOLEAN /\ down \subseteq Answer
BY CommandFacts DEF IInv, TypeOK, CommandsNumbered, VehicleRecord

LEMMA TakeRepetitionInvariant ==
  ASSUME IInv, NEW m \in up, TakeRepetition(m)
  PROVE  IInv'
<1>0. /\ m.number = vehicle.number /\ vehicle' = [vehicle EXCEPT !.resend = m.resend]
      /\ m.resend > vehicle.resend
      /\ up' \subseteq up /\ down' = down \cup {Reply(m, vehicle.answer)}
      /\ station' = station /\ uploads' = uploads /\ dropped' = dropped /\ whole' = whole
  BY DEF TakeRepetition, Sent
<1>1. /\ vehicle' \in VehicleRecord /\ vehicle'.number = vehicle.number
      /\ vehicle'.answer = vehicle.answer /\ vehicle'.received = vehicle.received
  <2>1. m.resend \in Nat
    BY Arriving DEF Command
  <2> QED
    BY <1>0, <2>1, Arriving DEF VehicleRecord
<1>2. Reply(m, vehicle.answer) \in Answer /\ Reply(m, vehicle.answer).number = m.number
      /\ Reply(m, vehicle.answer).ok = vehicle.answer
  BY Arriving, ReplyFacts
<1>3. Held' <=> Held
  BY <1>0, <1>1 DEF Held
<1>4. /\ dropped' \in BOOLEAN /\ whole' \in BOOLEAN /\ vehicle'.number <= station.counter
      /\ station.state = "waiting" /\ vehicle'.number = station.counter /\ vehicle'.answer =>
           Held'
  BY <1>0, <1>1, <1>3 DEF IInv, TypeOK, NotedRight
<1>5. /\ down' \subseteq Answer
      /\ \A d \in down' \ down : d.number = vehicle'.number /\ d.ok = vehicle'.answer
  BY <1>0, <1>1, <1>2, Arriving
<1> QED
  BY <1>0, <1>1, <1>4, <1>5, VehicleGoesOn

LEMMA CleaningUp ==
  ASSUME NEW v \in VehicleRecord
  PROVE  /\ CleanedUp(v) \in VehicleRecord /\ CleanedUp(v).number = v.number
         /\ CleanedUp(v).answer = v.answer
<1>1. (v.stopped /\ v.rebooting) \in BOOLEAN
  BY Zenon
<1> QED
  BY <1>1 DEF CleanedUp, VehicleRecord

LEMMA NotedFacts ==
  ASSUME IInv, NEW m \in up
  PROVE  /\ Noted(m) \in VehicleRecord /\ Noted(m).number = m.number
         /\ Noted(m).received = vehicle.received
<1>1. m.resend \in Nat
  BY Arriving DEF Command
<1> QED
  BY <1>1, Arriving DEF Noted, VehicleRecord

LEMMA TakeCancelInvariant ==
  ASSUME IInv, NEW m \in up, TakeCancel(m)
  PROVE  IInv'
<1> DEFINE v == [Noted(m) EXCEPT !.answer = TRUE]
<1>0. /\ m.type = "cancel" /\ vehicle' = CleanedUp(v)
      /\ up' \subseteq up /\ down' = down \cup {Reply(m, TRUE)}
      /\ station' = station /\ uploads' = uploads /\ dropped' = TRUE /\ whole' = whole
  BY DEF TakeCancel, Sent
<1>1. v \in VehicleRecord /\ v.number = m.number /\ v.answer = TRUE
  BY NotedFacts DEF VehicleRecord
<1> HIDE DEF v
<1>2. vehicle' \in VehicleRecord /\ vehicle'.number = m.number /\ vehicle'.answer = TRUE
  BY <1>0, <1>1, CleaningUp
<1>3. /\ Reply(m, TRUE) \in Answer /\ Reply(m, TRUE).number = m.number
      /\ Reply(m, TRUE).ok = TRUE
  BY Arriving, ReplyFacts
<1>4. /\ whole' \in BOOLEAN /\ vehicle'.number <= station.counter
      /\ ~ (station.state = "waiting" /\ vehicle'.number = station.counter)
  BY <1>0, <1>2, Arriving DEF IInv, TypeOK
<1>5. /\ down' \subseteq Answer
      /\ \A d \in down' \ down : d.number = vehicle'.number /\ d.ok = vehicle'.answer
  BY <1>0, <1>2, <1>3, Arriving
<1>6. dropped' \in BOOLEAN /\ dropped'
  BY <1>0
<1> QED
  BY <1>0, <1>2, <1>4, <1>5, <1>6, VehicleGoesOn

\* What a segment does to the record of the vehicle.
LEMMA WithSegmentFacts ==
  ASSUME IInv, NEW m \in up, m.type = "segment"
  PROVE  /\ WithSegment(m) \in VehicleRecord /\ WithSegment(m).number = m.number
         /\ WithSegment(m).received = vehicle.received \cup {m.index}
         /\ WithSegment(m).answer => IsHeld(vehicle.received \cup {m.index}, m.index)
<1>1. m.index \in Segment /\ m.ack \in BOOLEAN
  BY Arriving, CommandFacts
<1>2. (m.ack /\ IsHeld(vehicle.received \cup {m.index}, m.index)) \in BOOLEAN
  BY Zenon
<1>3. vehicle.received \subseteq Segment
  BY Arriving DEF VehicleRecord
<1> QED
  BY <1>1, <1>2, <1>3, NotedFacts DEF WithSegment, VehicleRecord

\* An answer OK is true: with what was confirmed before, the stretch that was
\* looked at reaches back to the start of the archive.
LEMMA StretchIsHeld ==
  ASSUME IInv, station.state = "waiting", ~ dropped,
         NEW received, vehicle.received \subseteq received, IsHeld(received, station.next)
  PROVE  0 .. station.next \subseteq received
<1>1. /\ station.next \in 0 .. Total - 1 /\ station.acked \in Int
      /\ station.frequency \in Nat \ {0} /\ station.frequency <= AckFrequency
  BY UploadAssumption DEF IInv, TypeOK, StationRecord, Segment, Placed
<1>2. 0 .. station.acked \subseteq received
  BY DEF IInv, ConfirmedIsHeld
<1>3. CASE IsLast(station.next)
  BY <1>1, <1>3, UploadAssumption DEF IsHeld, Segment, IsLast
<1>4. CASE ~ IsLast(station.next)
  <2> SUFFICES ASSUME NEW j \in 0 .. station.next, j \notin 0 .. station.acked
               PROVE  j \in received
    BY <1>2
  <2>1. j \in Segment /\ station.next - AckFrequency <= j
    BY <1>1, UploadAssumption DEF IInv, Placed, Segment
  <2> QED
    BY <1>1, <1>4, <2>1 DEF IsHeld
<1> QED
  BY <1>3, <1>4

LEMMA TakeSegmentInvariant ==
  ASSUME IInv, NEW m \in up, TakeSegment(m)
  PROVE  IInv'
<1> DEFINE v == WithSegment(m)
<1>0. /\ m.type = "segment" /\ vehicle' = v /\ ~ (v.answer /\ IsLast(m.index))
      /\ up' \subseteq up /\ (down' = down \/ down' = down \cup {Reply(m, v.answer)})
      /\ station' = station /\ uploads' = uploads /\ dropped' = dropped /\ whole' = whole
  BY DEF TakeSegment, Sent
<1>1. /\ v \in VehicleRecord /\ v.number = m.number /\ v.answer \in BOOLEAN
      /\ v.received = vehicle.received \cup {m.index}
      /\ v.answer => IsHeld(v.received, m.index)
  BY <1>0, WithSegmentFacts DEF VehicleRecord
<1> HIDE DEF v
<1>2. Reply(m, v.answer) \in Answer /\ Reply(m, v.answer).number = m.number
      /\ Reply(m, v.answer).ok = v.answer
  BY <1>1, Arriving, ReplyFacts
<1>3. /\ dropped' \in BOOLEAN /\ whole' \in BOOLEAN /\ vehicle'.number <= station.counter
  BY <1>0, <1>1, Arriving DEF IInv, TypeOK
<1>4. station.state = "waiting" /\ vehicle'.number = station.counter /\ vehicle'.answer => Held'
  <2> SUFFICES ASSUME station.state = "waiting", m.number = station.counter, v.answer
               PROVE  Held'
    BY <1>0, <1>1
  <2>1. m.index = station.next /\ ~ IsLast(station.next) /\ IsHeld(v.received, station.next)
    BY <1>0, <1>1, Arriving
  <2>2. ~ dropped => 0 .. station.next \subseteq v.received
    BY <1>1, <2>1, StretchIsHeld
  <2> QED
    BY <1>0, <2>1, <2>2 DEF Held
<1>5. /\ down' \subseteq Answer
      /\ \A d \in down' \ down : d.number = vehicle'.number /\ d.ok = vehicle'.answer
  BY <1>0, <1>1, <1>2, Arriving
<1> QED
  BY <1>0, <1>1, <1>3, <1>4, <1>5, VehicleGoesOn

LEMMA TakeLastSegmentInvariant ==
  ASSUME IInv, NEW m \in up, TakeLastSegment(m)
  PROVE  IInv'
<1> DEFINE v == WithSegment(m)
           reply == Reply(m, TRUE)
           noSpace == [type |-> "status", status |-> "no space"]
           failed == [type |-> "status", status |-> "failed"]
<1>0. /\ m.type = "segment" /\ v.answer /\ IsLast(m.index)
      /\ up' \subseteq up /\ whole' = TRUE
      /\ station' = station /\ uploads' = uploads
  BY DEF TakeLastSegment
<1>1. /\ v \in VehicleRecord /\ v.number = m.number /\ v.answer = TRUE
      /\ v.received = vehicle.received \cup {m.index}
      /\ IsHeld(v.received, m.index)
  BY <1>0, WithSegmentFacts DEF VehicleRecord
<1>2. /\ reply \in Answer /\ reply.number = m.number /\ reply.ok = TRUE
      /\ noSpace \in Answer /\ noSpace.type # "reply"
      /\ failed \in Answer /\ failed.type # "reply"
  BY Arriving, ReplyFacts, StatusFacts
<1>3. /\ vehicle' \in VehicleRecord /\ vehicle'.number = m.number /\ vehicle'.answer = TRUE
      /\ down' \in {down \cup {reply}, down \cup {reply, noSpace}, down \cup {reply, failed}}
      /\ \/ dropped' = dropped /\ vehicle'.received = v.received
         \/ dropped' = TRUE
  <2>1. CASE vehicle' = v /\ down' = Sent(down, {reply}) /\ dropped' = dropped
    BY <1>1, <2>1 DEF Sent
  <2>2. CASE /\ vehicle' = [v EXCEPT !.updating = TRUE, !.thread = "created"]
             /\ down' = Sent(down, {reply}) /\ dropped' = dropped
    BY <1>1, <2>2 DEF Sent, VehicleRecord
  <2>3. CASE vehicle' = CleanedUp(v) /\ down' = Sent(down, {reply, noSpace}) /\ dropped' = TRUE
    BY <1>1, <2>3, CleaningUp DEF Sent
  <2>4. CASE /\ vehicle' = [v EXCEPT !.processing = FALSE]
             /\ down' = Sent(down, {reply, failed}) /\ dropped' = dropped
    BY <1>1, <2>4 DEF Sent, VehicleRecord
  <2> QED
    BY <2>1, <2>2, <2>3, <2>4 DEF TakeLastSegment
<1> HIDE DEF v, reply, noSpace, failed
<1>4. dropped' \in BOOLEAN /\ whole' \in BOOLEAN /\ vehicle'.number <= station.counter
  BY <1>0, <1>3, Arriving DEF IInv, TypeOK
<1>5. station.state = "waiting" /\ vehicle'.number = station.counter /\ vehicle'.answer => Held'
  <2> SUFFICES ASSUME station.state = "waiting", m.number = station.counter
               PROVE  Held'
    BY <1>3
  <2>1. m.index = station.next /\ IsHeld(v.received, station.next)
    BY <1>0, <1>1, Arriving
  <2>2. ~ dropped => 0 .. station.next \subseteq v.received
    BY <1>1, <2>1, StretchIsHeld
  <2> QED
    BY <1>0, <1>3, <2>1, <2>2 DEF Held
<1>6. /\ down' \subseteq Answer
      /\ \A d \in down' \ down : d.type = "reply" =>
           d.number = vehicle'.number /\ d.ok = vehicle'.answer
  BY <1>2, <1>3, Arriving
<1>7. ~ dropped' => ~ dropped /\ vehicle.received \subseteq vehicle'.received
  BY <1>1, <1>3
<1> QED
  BY <1>0, <1>3, <1>4, <1>5, <1>6, <1>7, VehicleGoesOn

LEMMA TimesOutInvariant == IInv /\ TimesOut => IInv'
<1> SUFFICES ASSUME IInv, TimesOut PROVE IInv'
  OBVIOUS
<1>0. /\ vehicle \in VehicleRecord /\ vehicle' = CleanedUp(vehicle)
      /\ station' = station /\ uploads' = uploads /\ dropped' = TRUE /\ whole' = whole
      /\ up' = up /\ down' = down /\ down \subseteq Answer
  BY DEF IInv, TypeOK, TimesOut
<1>1. /\ vehicle' \in VehicleRecord /\ vehicle'.number = vehicle.number
      /\ vehicle'.answer = vehicle.answer
  BY <1>0, CleaningUp
<1>2. /\ whole' \in BOOLEAN /\ dropped' \in BOOLEAN /\ dropped'
      /\ vehicle'.number <= station.counter
      /\ station.state = "waiting" /\ vehicle'.number = station.counter /\ vehicle'.answer =>
           Held'
  BY <1>0, <1>1 DEF IInv, TypeOK, NotedRight, Held
<1> QED
  BY <1>0, <1>1, <1>2, VehicleGoesOn

LEMMA ThreadInvariant == IInv /\ Thread => IInv'
<1> SUFFICES ASSUME IInv, Thread PROVE IInv'
  OBVIOUS
<1>0. /\ vehicle \in VehicleRecord /\ down \subseteq Answer
      /\ station' = station /\ uploads' = uploads /\ whole' = whole /\ up' = up
  BY DEF IInv, TypeOK, Thread, ThreadStarts, ThreadEnds
<1>1. CASE ThreadStarts
  <2>1. /\ vehicle' \in VehicleRecord /\ vehicle'.number = vehicle.number
        /\ vehicle'.answer = vehicle.answer /\ vehicle'.received = vehicle.received
        /\ dropped' = dropped /\ down' = down
    BY <1>0, <1>1 DEF ThreadStarts, VehicleRecord
  <2>2. Held' <=> Held
    BY <1>0, <2>1 DEF Held
  <2>3. /\ dropped' \in BOOLEAN /\ whole' \in BOOLEAN /\ vehicle'.number <= station.counter
        /\ station.state = "waiting" /\ vehicle'.number = station.counter /\ vehicle'.answer =>
             Held'
    BY <1>0, <2>1, <2>2 DEF IInv, TypeOK, NotedRight
  <2> QED
    BY <1>0, <2>1, <2>3, VehicleGoesOn
<1>2. CASE ThreadEnds
  <2> DEFINE v == [vehicle EXCEPT !.rebooting = TRUE]
             completed == [type |-> "status", status |-> "completed"]
  <2>1. v \in VehicleRecord /\ v.number = vehicle.number /\ v.answer = vehicle.answer
    BY <1>0 DEF VehicleRecord
  <2>2. /\ CleanedUp(v) \in VehicleRecord /\ CleanedUp(v).number = vehicle.number
        /\ CleanedUp(v).answer = vehicle.answer
    BY <2>1, CleaningUp
  <2>3. /\ vehicle' = [CleanedUp(v) EXCEPT !.stopped = FALSE, !.thread = "none"]
        /\ down' = down \cup {completed} /\ dropped' = TRUE
    BY <1>2 DEF ThreadEnds, Sent
  <2>4. completed \in Answer /\ completed.type # "reply"
    BY StatusFacts
  <2> HIDE DEF v, completed
  <2>5. /\ vehicle' \in VehicleRecord /\ vehicle'.number = vehicle.number
        /\ vehicle'.answer = vehicle.answer
    BY <2>2, <2>3 DEF VehicleRecord
  <2>6. /\ whole' \in BOOLEAN /\ dropped' \in BOOLEAN /\ dropped'
        /\ vehicle'.number <= station.counter
        /\ station.state = "waiting" /\ vehicle'.number = station.counter /\ vehicle'.answer =>
             Held'
    BY <1>0, <2>3, <2>5 DEF IInv, TypeOK, NotedRight, Held
  <2>7. down' \subseteq Answer /\ \A d \in down' \ down : d.type # "reply"
    BY <1>0, <2>3, <2>4
  <2> QED
    BY <1>0, <2>3, <2>5, <2>6, <2>7, VehicleGoesOn
<1> QED
  BY <1>1, <1>2 DEF Thread

-----------------------------------------------------------------------------
\* The invariant holds in every state that can be reached, whatever the radio
\* loses and delays.
THEOREM Invariant == Spec => []IInv
<1>1. ASSUME IInv, [Next]_vars PROVE IInv'
  <2> USE <1>1
  <2>1. CASE Next
    <3>1. CASE \E m \in down : TakeConfirmation(m) \/ TakeRejection(m)
      BY <3>1, TakeConfirmationInvariant, TakeRejectionInvariant
    <3>2. CASE Arrives
      BY <3>2, TakeRepetitionInvariant, TakeCancelInvariant, TakeSegmentInvariant,
         TakeLastSegmentInvariant DEF Arrives
    <3>3. CASE Begin \/ Station \/ UserCancels
      BY <3>3, BeginInvariant, SendSegmentInvariant, SendAndWaitInvariant, SendAgainInvariant,
         StationGivesUpInvariant, UpdateEndsInvariant DEF Station
    <3>4. CASE TimesOut \/ Thread \/ Lost
      BY <3>4, TimesOutInvariant, ThreadInvariant, LostInvariant
    <3> QED
      BY <2>1, <3>1, <3>2, <3>3, <3>4 DEF Next
  <2>2. CASE UNCHANGED vars
    BY <2>2 DEF vars, IInv, TypeOK, Placed, WantsAnswer, CommandsNumbered, NotedRight, Held,
      AnswersRight, IsAnswer, ConfirmedIsHeld
  <2> QED
    BY <2>1, <2>2
<1> QED
  BY <1>1, InitInvariant, PTL DEF Spec

\* Every record, message and number of the upload stays in its range.
THEOREM TypeCorrect == Spec => []TypeOK
BY Invariant, PTL DEF IInv

\* What the station counts as confirmed, up to the whole archive, the vehicle
\* has or had: for every size of the archive, every frequency of the answers,
\* and whatever is lost, late or repeated.
THEOREM ConfirmedCorrect == Spec => []ConfirmedIsHeld
BY Invariant, PTL DEF IInv
=============================================================================
