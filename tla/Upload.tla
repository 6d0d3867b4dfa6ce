------------------------------- MODULE Upload -------------------------------
(***************************************************************************)
(* The upload of a software update from the station                        *)
(* (Menu::_uploadVehicleUpdate, code/r_central/menu/menu_objects.cpp) to   *)
(* the vehicle (code/r_vehicle/process_upload.cpp), over the commands of   *)
(* code/r_central/handle_commands.cpp and code/r_vehicle/ruby_rx_commands. *)
(*                                                                         *)
(* The archive is cut into segments.  Most are sent blindly; every so many *)
(* segments, and for the last one, the station waits for an answer: does   *)
(* the vehicle have all segments of the stretch?  If not, the stretch is   *)
(* sent again.  With the last answer the vehicle begins to update.         *)
(*                                                                         *)
(* The radio may lose, delay and reorder everything.  Copies of a message  *)
(* that are sent together are one message here, lost when all are lost.    *)
(* All archives have the same number of segments.                          *)
(***************************************************************************)
EXTENDS Integers, FiniteSets

CONSTANTS
  Total,          \* segments of the archive
  AckFrequency,   \* DEFAULT_UPLOAD_PACKET_CONFIRMATION_FREQUENCY
  MaxResends,     \* 15: times the station asks for an answer
  MaxRejections,  \* 10: times in a row a stretch is sent again
  MaxUploads,     \* bound of the model: uploads the user starts
  MaxUp, MaxDown  \* bounds of the model: messages on their way, per direction

ASSUME UploadAssumption ==
  /\ Total \in Nat \ {0} /\ AckFrequency \in Nat \ {0}
  /\ MaxResends \in Nat \ {0} /\ MaxRejections \in Nat
  /\ MaxUploads \in Nat /\ MaxUp \in Nat /\ MaxDown \in Nat

Segment == 0 .. Total - 1
IsLast(k) == k = Total - 1

VARIABLES
  station,  \* the station's upload: see StationRecord
  vehicle,  \* the vehicle's: see VehicleRecord
  up,       \* commands on their way to the vehicle
  down,     \* replies and states of the update on their way to the station
  uploads,  \* uploads started
  dropped,  \* auxiliary: did the vehicle give up what it had of this upload?
  whole     \* auxiliary: did the vehicle ever have all of this upload?

vars == <<station, vehicle, up, down, uploads, dropped, whole>>

StationRecord ==
  [state      : {"idle", "sending", "waiting", "processing"},
   next       : Segment,              \* iPacketToSend
   acked      : Segment \cup {-1},    \* iLastAcknowledgedPacket
   frequency  : Nat \ {0},            \* s_iAckFrequency
   resend     : Nat,                  \* resendCounter
   rejections : Nat,                  \* 10 - iCountMaxRetriesForCurrentSegments
   counter    : Nat]                  \* s_CommandCounter

VehicleRecord ==
  [received   : SUBSET Segment,       \* s_pSWPacketsReceived
   stopped    : BOOLEAN,              \* s_bSoftwareUpdateStoppedVideoPipeline
   updating   : BOOLEAN,              \* s_bUpdateInProgress
   processing : BOOLEAN,              \* s_bProcessUploadInProgress
   rebooting  : BOOLEAN,              \* s_bUpdateAppliedRebooting
   thread     : {"none", "created", "running"},
   number     : Nat,                  \* lastRecvCommandNumber
   resend     : Nat,                  \* lastRecvCommandResendCounter
   answer     : BOOLEAN]              \* lastRecvCommandResponseFlags

Command ==
       [type : {"segment"}, index : Segment, ack : BOOLEAN, number : Nat, resend : Nat]
  \cup [type : {"cancel"}, number : Nat, resend : {0}]

Answer ==
  [type : {"reply"}, number : Nat, ok : BOOLEAN]
  \cup [type : {"status"}, status : {"completed", "failed", "no space"}]

Init ==
  /\ station = [state |-> "idle", next |-> 0, acked |-> -1, frequency |-> AckFrequency,
                resend |-> 0, rejections |-> 0, counter |-> 0]
  /\ vehicle = [received |-> {}, stopped |-> FALSE, updating |-> FALSE, processing |-> FALSE,
                rebooting |-> FALSE, thread |-> "none", number |-> 0, resend |-> 0,
                answer |-> FALSE]
  /\ up = {} /\ down = {}
  /\ uploads = 0
  /\ dropped = FALSE /\ whole = FALSE

Sent(net, messages) == net \cup messages
Fits(net, bound) == Cardinality(net) <= bound

Lost ==
  \/ \E m \in up : up' = up \ {m} /\ UNCHANGED <<station, vehicle, down, uploads, dropped, whole>>
  \/ \E m \in down : down' = down \ {m} /\ UNCHANGED <<station, vehicle, up, uploads, dropped, whole>>

(***************************************************************************)
(* The station.                                                            *)
(***************************************************************************)
Begin ==
  /\ station.state = "idle" /\ uploads < MaxUploads
  /\ station' = [station EXCEPT !.state = "sending", !.next = 0, !.acked = -1, !.rejections = 0]
  /\ uploads' = uploads + 1
  /\ dropped' = FALSE /\ whole' = FALSE
  /\ UNCHANGED <<vehicle, up, down>>

WantsAnswer == IsLast(station.next) \/ station.next % station.frequency = 0

SegmentCommand(s, ack) ==
  [type |-> "segment", index |-> s.next, ack |-> ack, number |-> s.counter, resend |-> s.resend]

Send(s, command) ==
  /\ station' = s
  /\ up' = Sent(up, {command}) /\ Fits(up', MaxUp)
  /\ UNCHANGED <<vehicle, uploads, dropped, whole>>

SendSegment ==
  /\ station.state = "sending" /\ ~ WantsAnswer
  /\ LET s == [station EXCEPT !.counter = @ + 1, !.resend = 0]
     IN  Send([s EXCEPT !.next = @ + 1], SegmentCommand(s, FALSE))
  /\ UNCHANGED down

SendAndWait ==
  /\ station.state = "sending" /\ WantsAnswer
  /\ LET s == [station EXCEPT !.counter = @ + 1, !.resend = 0]
     IN  Send([s EXCEPT !.state = "waiting", !.resend = 1], SegmentCommand(s, TRUE))
  /\ UNCHANGED down

SendAgain ==
  /\ station.state = "waiting" /\ station.resend < MaxResends
  /\ Send([station EXCEPT !.resend = @ + 1], SegmentCommand(station, TRUE))
  /\ UNCHANGED down

\* The upload is given up and the vehicle told so; the next one may ask for
\* answers more often.
GivesUp(frequency) ==
  LET s == [station EXCEPT !.state = "idle", !.counter = @ + 1, !.frequency = frequency]
  IN  Send(s, [type |-> "cancel", number |-> s.counter, resend |-> 0])

Halved == IF station.frequency >= 2 THEN station.frequency \div 2 ELSE station.frequency

NoAnswer ==
  /\ station.state = "waiting" /\ station.resend = MaxResends
  /\ GivesUp(station.frequency)
  /\ UNCHANGED down

\* The user cancels, while the station waits or just after an answer.
UserCancels ==
  /\ \/ station.state \in {"waiting", "processing"}
     \/ station.state = "sending" /\ station.next > 0 /\ station.next = station.acked + 1
  /\ GivesUp(Halved)
  /\ UNCHANGED down

\* Mutant: an answer to any command.
AnyAnswer(m) == station.state = "waiting" /\ m.type = "reply"

IsAnswer(m) ==
  station.state = "waiting" /\ m.type = "reply" /\ m.number = station.counter

\* Mutant: the end of the archive is missed.
ConfirmedEndlessly(s) ==
  [s EXCEPT !.acked = s.next, !.rejections = 0, !.state = "sending", !.next = @ + 1]

Confirmed(s) ==
  IF IsLast(s.next)
    THEN [s EXCEPT !.acked = s.next, !.rejections = 0, !.state = "processing"]
    ELSE [s EXCEPT !.acked = s.next, !.rejections = 0, !.state = "sending", !.next = @ + 1]

TakeConfirmation(m) ==
  /\ IsAnswer(m) /\ m.ok
  /\ station' = Confirmed(station)
  /\ down' = down \ {m}
  /\ UNCHANGED <<vehicle, up, uploads, dropped, whole>>

\* The stretch is sent again from the last segment confirmed.
TakeRejection(m) ==
  /\ IsAnswer(m) /\ ~ m.ok
  /\ down' = down \ {m}
  /\ \/ /\ station.rejections < MaxRejections
        /\ station' = [station EXCEPT !.state = "sending", !.next = station.acked + 1,
                                      !.rejections = @ + 1]
        /\ UNCHANGED <<vehicle, up, uploads, dropped, whole>>
     \/ /\ station.rejections = MaxRejections
        /\ GivesUp(Halved)

\* The vehicle tells how its update goes, or the station waits no longer.
UpdateEnds ==
  /\ station.state = "processing"
  /\ station' = [station EXCEPT !.state = "idle"]
  /\ \/ \E m \in down : m.type = "status" /\ down' = down \ {m}
     \/ UNCHANGED down
  /\ UNCHANGED <<vehicle, up, uploads, dropped, whole>>

(***************************************************************************)
(* The vehicle.                                                            *)
(***************************************************************************)
\* Mutant: the video is not resumed.
CleanedUpSilently(v) == [v EXCEPT !.received = {}, !.processing = FALSE]

\* _sw_update_close_remove_temp_files
CleanedUp(v) ==
  [v EXCEPT !.received = {}, !.processing = FALSE, !.stopped = @ /\ v.rebooting]

\* Is the stretch that ends with segment k there, and with the last segment all?
IsHeld(received, k) ==
  (IF IsLast(k) THEN Segment ELSE {j \in Segment : k - AckFrequency <= j /\ j <= k})
    \subseteq received

\* A command as on_received_command notes it.
Noted(m) == [vehicle EXCEPT !.number = m.number, !.resend = m.resend, !.answer = FALSE]

Reply(m, ok) == [type |-> "reply", number |-> m.number, ok |-> ok]

\* The same command again, within 4 seconds: the same answer again.
TakeRepetition(m) ==
  /\ m \in up /\ ~ vehicle.rebooting
  /\ m.number = vehicle.number /\ m.resend > vehicle.resend
  /\ vehicle' = [vehicle EXCEPT !.resend = m.resend]
  /\ up' = up \ {m}
  /\ down' = Sent(down, {Reply(m, vehicle.answer)}) /\ Fits(down', MaxDown)
  /\ UNCHANGED <<station, uploads, dropped, whole>>

TakeCancel(m) ==
  /\ m \in up /\ ~ vehicle.rebooting
  /\ m.type = "cancel"
  /\ vehicle' = CleanedUp([Noted(m) EXCEPT !.answer = TRUE])
  /\ dropped' = TRUE
  /\ up' = up \ {m}
  /\ down' = Sent(down, {Reply(m, TRUE)}) /\ Fits(down', MaxDown)
  /\ UNCHANGED <<station, uploads, whole>>

\* The segment is taken, and answered if the station wants it.
WithSegment(m) ==
  [Noted(m) EXCEPT !.stopped = TRUE, !.received = @ \cup {m.index},
                   !.answer = m.ack /\ IsHeld(vehicle.received \cup {m.index}, m.index)]

TakeSegment(m) ==
  /\ m \in up /\ ~ vehicle.rebooting
  /\ m.type = "segment"
  /\ ~ (WithSegment(m).answer /\ IsLast(m.index))
  /\ vehicle' = WithSegment(m)
  /\ up' = up \ {m}
  /\ down' = (IF m.ack THEN Sent(down, {Reply(m, WithSegment(m).answer)}) ELSE down) /\ Fits(down', MaxDown)
  /\ UNCHANGED <<station, uploads, dropped, whole>>

\* The last one: the archive is written and a thread is to process it,
\* unless there is one already.  The disk may be full, the thread may fail.
TakeLastSegment(m) ==
  /\ m \in up /\ ~ vehicle.rebooting
  /\ m.type = "segment"
  /\ WithSegment(m).answer /\ IsLast(m.index)
  /\ whole' = TRUE
  /\ up' = up \ {m}
  /\ LET v == WithSegment(m)
         reply == Reply(m, TRUE)
     IN  \/ /\ v.updating
            /\ vehicle' = v
            /\ down' = Sent(down, {reply})
            /\ UNCHANGED dropped
         \/ /\ ~ v.updating
            /\ vehicle' = [v EXCEPT !.updating = TRUE, !.thread = "created"]
            /\ down' = Sent(down, {reply})
            /\ UNCHANGED dropped
         \/ /\ ~ v.updating
            /\ vehicle' = CleanedUp(v)
            /\ down' = Sent(down, {reply, [type |-> "status", status |-> "no space"]})
            /\ dropped' = TRUE
         \/ /\ ~ v.updating
            /\ vehicle' = [v EXCEPT !.processing = FALSE]
            /\ down' = Sent(down, {reply, [type |-> "status", status |-> "failed"]})
            /\ UNCHANGED dropped
  /\ Fits(down', MaxDown)
  /\ UNCHANGED <<station, uploads>>

\* 5 seconds without a segment, be they lost or late.
TimesOut ==
  /\ vehicle.stopped /\ ~ vehicle.processing /\ ~ vehicle.rebooting
  /\ vehicle' = CleanedUp(vehicle)
  /\ dropped' = TRUE
  /\ UNCHANGED <<station, up, down, uploads, whole>>

\* _thread_process_upload
ThreadStarts ==
  /\ vehicle.thread = "created"
  /\ vehicle' = [vehicle EXCEPT !.thread = "running", !.processing = TRUE]
  /\ UNCHANGED <<station, up, down, uploads, dropped, whole>>

ThreadEnds ==
  /\ vehicle.thread = "running"
  /\ vehicle' = [CleanedUp([vehicle EXCEPT !.rebooting = TRUE])
                   EXCEPT !.stopped = FALSE, !.thread = "none"]
  /\ down' = Sent(down, {[type |-> "status", status |-> "completed"]}) /\ Fits(down', MaxDown)
  /\ dropped' = TRUE
  /\ UNCHANGED <<station, up, uploads, whole>>

(***************************************************************************)
(* The system.                                                             *)
(***************************************************************************)
Station == SendSegment \/ SendAndWait \/ SendAgain \/ NoAnswer \/ UpdateEnds
Thread  == ThreadStarts \/ ThreadEnds
Arrives == \E m \in up : TakeRepetition(m) \/ TakeCancel(m) \/ TakeSegment(m) \/ TakeLastSegment(m)

Next ==
  \/ Begin \/ Station \/ UserCancels
  \/ \E m \in down : TakeConfirmation(m) \/ TakeRejection(m)
  \/ Arrives \/ TimesOut \/ Thread
  \/ Lost

Spec == Init /\ [][Next]_vars

\* The station's loop and the thread go on, the vehicle looks for the
\* timeout in every round, and no message stays on its way for ever.
FairSpec ==
  /\ Spec
  /\ WF_vars(Station) /\ WF_vars(Thread) /\ WF_vars(TimesOut /\ up = {})
  /\ WF_vars(Arrives \/ Lost)

(***************************************************************************)
(* Properties.                                                             *)
(***************************************************************************)
TypeOK ==
  /\ station \in StationRecord /\ vehicle \in VehicleRecord
  /\ up \subseteq Command /\ down \subseteq Answer
  /\ uploads \in Nat
  /\ dropped \in BOOLEAN /\ whole \in BOOLEAN

\* The station counts a segment as confirmed only when the vehicle has it and
\* all before it, whatever was lost, repeated or answered late; the upload is
\* over for the station only when the vehicle had all of the archive.
ConfirmedIsHeld ==
  /\ station.state \in {"sending", "waiting"} /\ ~ dropped =>
       0 .. station.acked \subseteq vehicle.received
  /\ station.state = "processing" => whole

\* Whatever is lost, the upload ends for the station, and the vehicle does not
\* stay without video: it is resumed, or the vehicle reboots.
UploadEnds ==
  /\ station.state # "idle" ~> station.state = "idle"
  /\ vehicle.stopped ~> ~ vehicle.stopped
=============================================================================
