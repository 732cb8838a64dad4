------------------------------ MODULE GateAccess ------------------------------
(***************************************************************************)
(* From a detection at a gate to the command that opens it: the processor, *)
(* the decision and the orchestration with the parking handlers.  Several  *)
(* processes handle messages, which may come again; staff use the same     *)
(* bookings and sessions meanwhile.  Whether the gate has a gateway and no  *)
(* live command, so that one can be created, is left open here (see         *)
(* GateCommands).                                                          *)
(***************************************************************************)
EXTENDS ParkingLedger, GateDecision, FiniteSets

CONSTANTS
  Messages,        \* detections, by (deviceId, messageId), of authenticated devices
  Processes,       \* message handlers at work at the same time
  Gates,
  GateOf,          \* the gate of a message
  DirectionOf,     \* the direction of a gate
  LotOf,           \* the lot of a gate or of a slot
  KindOf,          \* identifierType of a message
  IdentifierOf,    \* identifierHash of a message
  VehicleBy,       \* the vehicle an identifier belongs to, or None
  Unsure,          \* plate messages below the confidence threshold
  CredentialStatuses,  \* bound: statuses a credential may be read with
  Toggles          \* bound: switches that may be read as off

ASSUME AccessAssumption == None \notin Messages

VARIABLES
  job,          \* per process: the message it handles and what it has read
  detection,    \* gate_detections: "none", "recent" within the duplicate window, "old"
  attempts,     \* gate_access_attempts with the message's detectionId
  effect,       \* what a message did: the visit it opened or closed
  paid,         \* visits whose payment was initiated at a gate
  cutShort      \* history: recorded detections whose handling ended without an attempt

access == <<job, detection, attempts, effect, paid, cutShort>>
vars == <<rows, access>>

Places == {"idle", "resolve", "window", "record", "refuse", "book", "checkIn",
           "checkOut", "pay", "open", "unpaid", "fail"}
Effects == [flow : {"ENTRY", "EXIT"}, booking : Bookings, visit : Nat]
NoEffect == [flow |-> "NONE", booking |-> None, visit |-> 0]
\* What an attempt says: its decision or, where the orchestration has a reason of its
\* own, that reason.
OpenAnswers == {"GRANTED", "NO_BARRIER_CONTROLLER", "COMMAND_ALREADY_PENDING"}
RefusalAnswers == {"DENIED", "REVIEW_REQUIRED", "ORCHESTRATION_FAILED"}
Answers == OpenAnswers \cup RefusalAnswers \cup {"PAYMENT_INITIATION_FAILED"}

IdleJob == [at |-> "idle", msg |-> None, on |-> {}, credential |-> "NONE", vehicle |-> None,
            booking |-> None, session |-> None, visit |-> 0, assigned |-> FALSE, duplicate |-> FALSE,
            decision |-> "DENIED"]

Jobs ==
  [at : Places, msg : Messages \cup {None}, on : SUBSET Switches,
   credential : CredentialStatuses \cup {"NONE"}, vehicle : Vehicles \cup {None},
   booking : Bookings \cup {None}, session : Bookings \cup {None},
   visit : Nat, assigned : BOOLEAN, duplicate : BOOLEAN,
   decision : {"GRANTED", "DENIED", "REVIEW_REQUIRED"}]

TypeOK ==
  /\ TablesTypeOK
  /\ job \in [Processes -> Jobs]
  /\ \A p \in Processes : job[p].at = "idle" <=> job[p].msg = None
  /\ detection \in [Messages -> {"none", "recent", "old"}]
  /\ attempts \in [Messages -> Seq(Answers)]
  /\ effect \in [Messages -> Effects \cup {NoEffect}]
  /\ paid \subseteq Bookings \X Nat
  /\ cutShort \in [Messages -> {"no", "died", "rejected"}]

Init ==
  /\ TablesInit
  /\ job = [p \in Processes |-> IdleJob]
  /\ detection = [m \in Messages |-> "none"]
  /\ attempts = [m \in Messages |-> <<>>]
  /\ effect = [m \in Messages |-> NoEffect]
  /\ paid = {}
  /\ cutShort = [m \in Messages |-> "no"]

At(p, place) == job[p].at = place
Gate(p) == GateOf[job[p].msg]
Go(p, place) == job' = [job EXCEPT ![p].at = place]

Finish(p) == job' = [job EXCEPT ![p] = IdleJob]

\* The row of gate_access_attempts that ends the handling of a message.
recordAttempt(p, answer) ==
  /\ attempts' = [attempts EXCEPT ![job[p].msg] = Append(@, answer)]
  /\ Finish(p)

-----------------------------------------------------------------------------
(* GateDetectionProcessorService.processDetection                          *)

\* Fault: the duplicate window is looked at before the vehicle's session is.
ReadOrderWindowFirst == [find |-> "window", window |-> "resolve", resolve |-> "record"]

\* The order in which the facts of a decision are read.
ReadOrder == [find |-> "resolve", resolve |-> "window", window |-> "record"]

\* A message is ignored if its detection has been recorded.
findDetection(p, m) ==
  /\ At(p, "idle")
  /\ detection[m] = "none"
  /\ \E off \in SUBSET Toggles :
       job' = [job EXCEPT ![p] = [IdleJob EXCEPT !.at = ReadOrder.find, !.msg = m,
                                                 !.on = Switches \ off]]
  /\ UNCHANGED <<rows, detection, attempts, effect, paid, cutShort>>

\* The vehicle's ACTIVE session, its newest CONFIRMED booking in the gate's lot whose
\* window includes now (whether it does is left open), and its assignment there.
resolveVehicleContext(p) ==
  /\ At(p, "resolve")
  /\ LET id == IdentifierOf[job[p].msg]
         v == IF VehicleBy[id] \in registered THEN VehicleBy[id] ELSE None
         sessions == {b \in Bookings : eventStatus[b] = "ACTIVE" /\ VehicleOf[b] = v}
         booked == {b \in Bookings : /\ bookingStatus[b] = "CONFIRMED"
                                     /\ VehicleOf[b] = v
                                     /\ LotOf[bookingSlot[b]] = LotOf[Gate(p)]}
     IN \E session \in (IF sessions = {} THEN {None} ELSE sessions), booking \in booked \cup {None},
          status \in CredentialStatuses :
          job' = [job EXCEPT ![p] =
            [@ EXCEPT !.at = ReadOrder.resolve,
                      !.credential = IF v = None THEN "NONE" ELSE status,
                      !.vehicle = v,
                      !.session = session,
                      !.visit = IF session = None THEN 0 ELSE visit[session],
                      !.booking = booking,
                      !.assigned = v # None /\ \E sl \in AssignedSlots[v] : LotOf[sl] = LotOf[Gate(p)]]]
  /\ UNCHANGED <<rows, detection, attempts, effect, paid, cutShort>>

SameKey(m1, m2) == GateOf[m1] = GateOf[m2] /\ IdentifierOf[m1] = IdentifierOf[m2]

isDuplicateDetection(p) ==
  /\ At(p, "window")
  /\ job' = [job EXCEPT ![p].at = ReadOrder.window,
                        ![p].duplicate =
               \E m \in Messages : detection[m] = "recent" /\ SameKey(m, job[p].msg)]
  /\ UNCHANGED <<rows, detection, attempts, effect, paid, cutShort>>

Context(p) ==
  LET j == job[p] IN
  [on |-> j.on, duplicate |-> j.duplicate, kind |-> KindOf[j.msg], confident |-> j.msg \notin Unsure,
   credential |-> j.credential, known |-> j.vehicle # None, direction |-> DirectionOf[Gate(p)],
   session |-> CASE j.session = None -> "none"
                 [] j.session # None /\ LotOf[bookingSlot[j.session]] = LotOf[Gate(p)] -> "here"
                 [] OTHER -> "elsewhere",
   booking |-> IF j.booking = None THEN "none" ELSE "inWindow", assigned |-> j.assigned]

\* Where a decision leads, and what the orchestration is told.
Continue(p, d) ==
  job' = [job EXCEPT ![p] =
    [IdleJob EXCEPT !.at = CASE d.decision # "GRANTED" -> "refuse"
                             [] d.flow = "EXIT" -> "checkOut"
                             [] d.flow = "ENTRY" /\ job[p].booking = None -> "book"
                             [] d.flow = "ENTRY" /\ job[p].booking # None -> "checkIn",
                    !.msg = job[p].msg,
                    !.vehicle = job[p].vehicle,
                    !.booking = IF d.flow = "ENTRY" THEN job[p].booking ELSE None,
                    !.session = IF d.flow = "EXIT" THEN job[p].session ELSE None,
                    !.decision = d.decision]]

\* Fault: (deviceId, messageId) is not unique.
createDetectionAgain(p) ==
  /\ At(p, "record")
  /\ detection' = [detection EXCEPT ![job[p].msg] = "recent"]
  /\ Continue(p, evaluate(Context(p)))
  /\ UNCHANGED <<rows, attempts, effect, paid, cutShort>>

\* The decision is made and the detection recorded before anything is done
\* about it.  If another process has recorded it, the unique constraint ends this one.
createDetection(p) ==
  /\ At(p, "record")
  /\ \/ /\ detection[job[p].msg] = "none"
        /\ detection' = [detection EXCEPT ![job[p].msg] = "recent"]
        /\ Continue(p, evaluate(Context(p)))
     \/ /\ detection[job[p].msg] # "none"
        /\ Finish(p)
        /\ UNCHANGED detection
  /\ UNCHANGED <<rows, attempts, effect, paid, cutShort>>

recordRefusal(p) ==
  /\ At(p, "refuse")
  /\ recordAttempt(p, job[p].decision)
  /\ UNCHANGED <<rows, detection, effect, paid, cutShort>>

-----------------------------------------------------------------------------
(* IotParkingOrchestrationService.orchestrateGrantedAccess                 *)

ensureAssignmentBooking(p) ==
  /\ At(p, "book")
  /\ \E sl \in Slots, b \in Bookings :
       /\ VehicleOf[b] = job[p].vehicle
       /\ LotOf[sl] = LotOf[Gate(p)]
       /\ BookAssigned(sl, b)
       /\ job' = [job EXCEPT ![p].booking = b, ![p].at = "checkIn"]
  /\ UNCHANGED <<detection, attempts, effect, paid, cutShort>>

checkInForSystem(p) ==
  /\ At(p, "checkIn")
  /\ LET b == job[p].booking IN
       /\ CheckInFirst(b) \/ CheckInReturn(b)
       /\ effect' = [effect EXCEPT ![job[p].msg] =
                       [flow |-> "ENTRY", booking |-> b, visit |-> visit'[b]]]
  /\ Go(p, "open")
  /\ UNCHANGED <<detection, attempts, paid, cutShort>>

\* Fault: a session that was closed meanwhile is taken to be closed by this message.
checkOutForSystemAgain(p) ==
  /\ At(p, "checkOut")
  /\ LET b == job[p].session IN
       /\ CheckOut(b) \/ (eventStatus[b] = "COMPLETED" /\ UNCHANGED rows)
       /\ effect' = [effect EXCEPT ![job[p].msg] =
                       [flow |-> "EXIT", booking |-> b, visit |-> visit[b]]]
  /\ Go(p, "pay")
  /\ UNCHANGED <<detection, attempts, paid, cutShort>>

\* Only a session that is ACTIVE is closed; the visit closed is the one found then.
checkOutForSystem(p) ==
  /\ At(p, "checkOut")
  /\ LET b == job[p].session IN
       /\ CheckOut(b)
       /\ effect' = [effect EXCEPT ![job[p].msg] =
                       [flow |-> "EXIT", booking |-> b, visit |-> visit[b]]]
  /\ Go(p, "pay")
  /\ UNCHANGED <<detection, attempts, paid, cutShort>>

\* Fault: the gate is opened whether or not the payment was initiated.
initiateCheckoutPaymentIgnored(p) ==
  /\ At(p, "pay")
  /\ paid' \in {paid, paid \cup {<<effect[job[p].msg].booking, effect[job[p].msg].visit>>}}
  /\ Go(p, "open")
  /\ UNCHANGED <<rows, detection, attempts, effect, cutShort>>

\* Every fee is positive.  Without a payment, or without its answer in time, the gate
\* stays closed, the session ended.
initiateCheckoutPayment(p) ==
  /\ At(p, "pay")
  /\ \/ /\ paid' = paid \cup {<<effect[job[p].msg].booking, effect[job[p].msg].visit>>}
        /\ Go(p, "open")
     \/ /\ paid' \in {paid, paid \cup {<<effect[job[p].msg].booking, effect[job[p].msg].visit>>}}
        /\ Go(p, "unpaid")
  /\ UNCHANGED <<rows, detection, attempts, effect, cutShort>>

\* A command and its attempt; or the attempt alone, for want of a gateway or because a
\* command is live.
createOpenCommand(p) ==
  /\ At(p, "open")
  /\ \E answer \in OpenAnswers : recordAttempt(p, answer)
  /\ UNCHANGED <<rows, detection, effect, paid, cutShort>>

\* The gate is gone, the transaction times out or the database fails.  The promise of
\* createOpenCommand is returned, not awaited: the catch does not see its
\* rejection and nothing is recorded, though the process goes on.
openCommandRejected(p) ==
  /\ At(p, "open")
  /\ cutShort' = [cutShort EXCEPT ![job[p].msg] = "rejected"]
  /\ Finish(p)
  /\ UNCHANGED <<rows, detection, attempts, effect, paid>>

\* Fault: the error is logged and nothing more.
orchestrationThrowsSilently(p) ==
  /\ job[p].at \in {"book", "checkIn", "checkOut"}
  /\ Finish(p)
  /\ UNCHANGED <<rows, detection, attempts, effect, paid, cutShort>>

\* A refusal of the parking handlers, or a database error; their transaction is undone.
orchestrationThrows(p) ==
  /\ job[p].at \in {"book", "checkIn", "checkOut"}
  /\ Go(p, "fail")
  /\ UNCHANGED <<rows, detection, attempts, effect, paid, cutShort>>

\* From the catch, or for a payment that was not initiated.
recordFailedAttempt(p) ==
  /\ \/ At(p, "fail") /\ recordAttempt(p, "ORCHESTRATION_FAILED")
     \/ At(p, "unpaid") /\ recordAttempt(p, "PAYMENT_INITIATION_FAILED")
  /\ UNCHANGED <<rows, detection, effect, paid, cutShort>>

-----------------------------------------------------------------------------
\* The process dies, or writing the detection or its attempt fails.  Before the detection
\* is recorded nothing is lost: the message may come again.
ProcessDies(p) ==
  /\ ~ At(p, "idle")
  /\ cutShort' = IF job[p].at \in {"resolve", "window", "record"} THEN cutShort
                 ELSE [cutShort EXCEPT ![job[p].msg] = "died"]
  /\ Finish(p)
  /\ UNCHANGED <<rows, detection, attempts, effect, paid>>

\* duplicateWindowSeconds pass.
WindowEnds(m) ==
  /\ detection[m] = "recent"
  /\ detection' = [detection EXCEPT ![m] = "old"]
  /\ UNCHANGED <<rows, job, attempts, effect, paid, cutShort>>

Processing(p) ==
  \/ \E m \in Messages : findDetection(p, m)
  \/ resolveVehicleContext(p)
  \/ isDuplicateDetection(p)
  \/ createDetection(p)
  \/ recordRefusal(p)
  \/ ensureAssignmentBooking(p)
  \/ checkInForSystem(p)
  \/ checkOutForSystem(p)
  \/ initiateCheckoutPayment(p)
  \/ createOpenCommand(p)
  \/ openCommandRejected(p)
  \/ orchestrationThrows(p)
  \/ recordFailedAttempt(p)
  \/ ProcessDies(p)

\* Staff at the counter and drivers with the app.
Staff == Next /\ UNCHANGED access

GateNext ==
  \/ \E p \in Processes : Processing(p)
  \/ \E m \in Messages : WindowEnds(m)
  \/ Staff

GateSpec == Init /\ [][GateNext]_vars
-----------------------------------------------------------------------------
\* A detection is answered once, however often its message comes and however many
\* processes handle it (gate_detections.@@unique([deviceId, messageId])).
OneAnswer == \A m \in Messages : Len(attempts[m]) <= 1

\* A recorded detection that no process has in hand is answered, unless its process died
\* or the command that was to open the gate was rejected: every other
\* error of the orchestration ends in an attempt (orchestrateGrantedAccess, catch).
AnsweredOrCutShort ==
  \A m \in Messages :
    detection[m] # "none" /\ (\A p \in Processes : job[p].msg # m)
      => (attempts[m] = <<>> <=> cutShort[m] # "no")

\* Every detection is answered exactly once, but for those two ways of losing the answer.
AnsweredOnce == OneAnswer /\ AnsweredOrCutShort

\* A visit is opened by one message at most, and closed by one: two readers that see
\* the same car do not both check it in or out (executeCheckOutTransaction).
EffectsDistinct ==
  \A m1, m2 \in Messages :
    m1 # m2 /\ effect[m1] # NoEffect => effect[m1] # effect[m2]

\* The visit of a message was opened, or closed and its payment initiated.
Served(m) ==
  /\ effect[m] # NoEffect
  /\ effect[m].flow = "EXIT" => <<effect[m].booking, effect[m].visit>> \in paid

\* The one row that is written of a detection tells what became of its car: whether a
\* command was created or could not be, the visit was opened, or closed and
\* its payment initiated; PAYMENT_INITIATION_FAILED, it was closed and the gate stays
\* shut; any other refusal or error, nothing was done.  A detection whose command was
\* rejected was served too (orchestrateGrantedAccess, 61, 75, 92, 104).
AnswerTellsWhatWasDone ==
  \A m \in Messages :
    /\ \A i \in DOMAIN attempts[m] :
         /\ attempts[m][i] \in OpenAnswers => Served(m)
         /\ attempts[m][i] = "PAYMENT_INITIATION_FAILED" => effect[m].flow = "EXIT"
         /\ attempts[m][i] \in RefusalAnswers => effect[m] = NoEffect
    /\ cutShort[m] = "rejected" => Served(m)

\* The echo of a detection does not undo it: while the detection that opened a visit
\* is within the duplicate window, no other reading of the same identifier at
\* the same gate is decided to be its exit (isDuplicateDetection).
EchoDoesNotCheckOut ==
  [][\A p \in Processes, m \in Messages :
       /\ At(p, "record")
       /\ job'[p].at = "checkOut"
       /\ SameKey(m, job[p].msg)
       /\ effect[m].flow = "ENTRY"
       /\ effect[m].booking = job[p].session
       /\ effect[m].visit = job[p].visit
       => detection[m] = "old"]_vars
=============================================================================
