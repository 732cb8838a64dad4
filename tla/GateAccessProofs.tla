--------------------------- MODULE GateAccessProofs ---------------------------
(***************************************************************************)
(* What holds of GateAccess for any messages, processes, gates, lots and   *)
(* identifiers: who answers a detection, what the answer rests on, and     *)
(* that what the gates do to the parking rows is what ParkingLedger allows.*)
(***************************************************************************)
EXTENDS GateAccess, ParkingLedgerProofs

(***************************************************************************)
(* The decision.                                                           *)
(***************************************************************************)

\* Of the refusals that apply one comes first, so that evaluate is defined.
LEMMA FirstOfRefusals ==
  ASSUME NEW hits \in SUBSET (1 .. 14), hits # {}
  PROVE  \E i \in hits : \A j \in hits : i <= j
<1> SUFFICES ASSUME \A i \in hits : \E j \in 1 .. i - 1 : j \in hits
             PROVE  FALSE
  OBVIOUS
<1>1. \A i \in 1 .. 14 : i \in {1, 2, 3, 4, 5, 6, 7, 8, 9, 10, 11, 12, 13, 14}
  OBVIOUS
<1>2. hits \cap 1 .. 4 = {}
  OBVIOUS
<1>3. hits \cap 1 .. 7 = {}
  BY <1>2
<1>4. hits \cap 1 .. 10 = {}
  BY <1>3
<1>5. hits \cap 1 .. 14 = {}
  BY <1>4
<1> QED
  BY <1>5

\* What is granted is an entry or an exit, in the direction that the gate and the
\* session give, and not the echo of a recent detection; a refusal leads nowhere.
LEMMA EvaluateSound ==
  ASSUME NEW ctx
  PROVE  LET d == evaluate(ctx) IN
         /\ d.decision \in {"GRANTED", "DENIED", "REVIEW_REQUIRED"}
         /\ d.decision # "GRANTED" => d.flow = "NONE"
         /\ d.decision = "GRANTED" =>
              /\ d.flow \in {"ENTRY", "EXIT"}
              /\ d.flow = resolveFlow(ctx)
              /\ ~ ctx.duplicate
<1> DEFINE refusals == Refusals(ctx)
           hits == {i \in DOMAIN refusals : refusals[i].when}
           first == CHOOSE i \in hits : \A j \in hits : i <= j
<1>1. DOMAIN refusals = 1 .. 14
  BY DEF Refusals
<1>2. \A i \in 1 .. 14 : refusals[i].decision \in {"DENIED", "REVIEW_REQUIRED"}
  BY DEF Refusals, Denied, Review
<1>3. refusals[6].when = ctx.duplicate /\ refusals[12].when = (resolveFlow(ctx) = "NONE")
  BY DEF Refusals, Denied
<1>4. resolveFlow(ctx) \in {"ENTRY", "EXIT", "NONE"}
  BY DEF resolveFlow
<1>5. CASE hits = {}
  <2>a. 6 \in DOMAIN refusals /\ 12 \in DOMAIN refusals
    BY <1>1
  <2>b. ~ refusals[6].when /\ ~ refusals[12].when
    BY <1>5, <2>a, Zenon
  <2>1. ~ ctx.duplicate /\ resolveFlow(ctx) # "NONE"
    BY <1>3, <2>b, Zenon
  <2>2. evaluate(ctx) = [decision |-> "GRANTED", reason |-> Grant(ctx), flow |-> resolveFlow(ctx)]
    BY <1>5 DEF evaluate
  <2> QED
    BY <1>4, <2>1, <2>2
<1>6. CASE hits # {}
  <2>1. first \in 1 .. 14
    BY <1>1, <1>6, FirstOfRefusals
  <2>2. evaluate(ctx) = [decision |-> refusals[first].decision,
                         reason |-> refusals[first].reason, flow |-> "NONE"]
    BY <1>6 DEF evaluate
  <2>3. evaluate(ctx).decision = refusals[first].decision
    BY <2>2
  <2>4. evaluate(ctx).flow = "NONE"
    BY <2>2
  <2> HIDE DEF refusals, first
  <2>5. evaluate(ctx).decision \in {"DENIED", "REVIEW_REQUIRED"}
    BY <1>2, <2>1, <2>3
  <2> QED
    BY <2>4, <2>5
<1> QED
  BY <1>5, <1>6
-----------------------------------------------------------------------------
(***************************************************************************)
(* The inductive invariant.                                                *)
(***************************************************************************)

Undecided == {"idle", "resolve", "window", "record"}
Decided == {"refuse", "book", "checkIn", "checkOut", "pay", "open", "unpaid", "fail"}

\* A process that has recorded the detection of m and not answered it.
Deciding(p, m) == job[p].msg = m /\ job[p].at \in Decided

\* A detection is in one hand from its record to its answer, and untouched before.
InOneHand ==
  \A m \in Messages :
    /\ detection[m] = "none" => attempts[m] = <<>> /\ effect[m] = NoEffect
    /\ detection[m] # "none" /\ cutShort[m] = "no" /\ attempts[m] = <<>>
         => \E p \in Processes : Deciding(p, m)
    /\ cutShort[m] # "no" => detection[m] # "none" /\ attempts[m] = <<>>
    /\ \A p \in Processes : Deciding(p, m) =>
         /\ detection[m] # "none"
         /\ attempts[m] = <<>> /\ cutShort[m] = "no"
         /\ \A q \in Processes : Deciding(q, m) => p = q

\* How far the orchestration has come with job k.
SoFar(k) ==
  /\ k.at = "refuse" => k.decision # "GRANTED"
  /\ k.at = "checkIn" => k.booking \in Bookings
  /\ k.at = "checkOut" => k.session \in Bookings
  /\ k.at \in {"refuse", "book", "checkIn", "checkOut", "fail"} => effect[k.msg] = NoEffect
  /\ k.at \in {"pay", "unpaid"} => effect[k.msg].flow = "EXIT"
  /\ k.at = "open" => Served(k.msg)

ServedSoFar == \A p \in Processes : SoFar(job[p])

\* What the answer to m, or its loss, tells (see AnswerTellsWhatWasDone).
Tells(m) ==
  /\ \A i \in DOMAIN attempts[m] :
       /\ attempts[m][i] \in OpenAnswers => Served(m)
       /\ attempts[m][i] = "PAYMENT_INITIATION_FAILED" => effect[m].flow = "EXIT"
       /\ attempts[m][i] \in RefusalAnswers => effect[m] = NoEffect
  /\ cutShort[m] = "rejected" => Served(m)

\* Visits are numbered: one that a message opened or closed is not one still to come,
\* and one that it closed is not open.
EffectsPast ==
  \A m \in Messages :
    LET e == effect[m] IN
    e # NoEffect =>
      /\ e.visit <= visit[e.booking]
      /\ e.flow = "EXIT" /\ e.visit = visit[e.booking] => eventStatus[e.booking] # "ACTIVE"

\* The visit that job j read was opened by an earlier reading at the gate.
Opened(m, j) ==
  /\ SameKey(m, j.msg)
  /\ effect[m].flow = "ENTRY"
  /\ effect[m].booking = j.session
  /\ effect[m].visit = j.visit

\* The vehicle's session is read before the duplicate window is looked at, so the
\* message that opened the session is in the window or has left it.
EchoOut(k) ==
  /\ k.at \in {"window", "record"} /\ k.session # None => k.visit <= visit[k.session]
  /\ k.at = "record" /\ ~ k.duplicate => \A m \in Messages : Opened(m, k) => detection[m] = "old"

EchoSeen == \A p \in Processes : EchoOut(job[p])

AccessInv ==
  /\ TypeOK
  /\ InOneHand
  /\ OneAnswer
  /\ ServedSoFar
  /\ AnswerTellsWhatWasDone
  /\ EffectsPast
  /\ EffectsDistinct
  /\ EchoSeen

-----------------------------------------------------------------------------
(***************************************************************************)
(* What a step of process p does, j being its job after it.                *)
(***************************************************************************)

Reads(p, j) ==
  /\ job[p].at \in Undecided
  /\ j.at \in Undecided
  /\ \/ j.at \in {"idle", "resolve"}
     \/ /\ j.at = "window"
        /\ j.session # None => j.session \in Bookings /\ j.visit = visit[j.session]
     \/ /\ At(p, "window")
        /\ j = [job[p] EXCEPT !.at = "record",
                  !.duplicate = \E m \in Messages : detection[m] = "recent" /\ SameKey(m, job[p].msg)]
  /\ UNCHANGED <<rows, detection, attempts, effect, paid, cutShort>>

Records(p, j) ==
  /\ At(p, "record")
  /\ detection[job[p].msg] = "none"
  /\ detection' = [detection EXCEPT ![job[p].msg] = "recent"]
  /\ j.msg = job[p].msg
  /\ \/ j.at = "refuse" /\ j.decision # "GRANTED"
     \/ j.at = "book"
     \/ j.at = "checkIn" /\ j.booking \in Bookings
     \/ j.at = "checkOut" /\ j.session \in Bookings /\ ~ job[p].duplicate
  /\ UNCHANGED <<rows, attempts, effect, paid, cutShort>>

Books(p, j) ==
  /\ At(p, "book")
  /\ j.msg = job[p].msg /\ j.at = "checkIn" /\ j.booking \in Bookings
  /\ UNCHANGED <<visit, detection, attempts, effect, paid, cutShort>>

ChecksIn(p, j) ==
  /\ At(p, "checkIn")
  /\ j.msg = job[p].msg /\ j.at = "open"
  /\ \E b \in Bookings :
       /\ OpenVisit(b)
       /\ effect' = [effect EXCEPT ![j.msg] = [flow |-> "ENTRY", booking |-> b, visit |-> visit[b] + 1]]
  /\ UNCHANGED <<detection, attempts, paid, cutShort>>

ChecksOut(p, j) ==
  /\ At(p, "checkOut")
  /\ j.msg = job[p].msg /\ j.at = "pay"
  /\ \E b \in Bookings :
       /\ CheckOut(b)
       /\ effect' = [effect EXCEPT ![j.msg] = [flow |-> "EXIT", booking |-> b, visit |-> visit[b]]]
  /\ UNCHANGED <<detection, attempts, paid, cutShort>>

PaysOrThrows(p, j) ==
  /\ j.msg = job[p].msg
  /\ \/ /\ At(p, "pay")
        /\ j.at = "open"
        /\ paid' = paid \cup {<<effect[j.msg].booking, effect[j.msg].visit>>}
     \/ /\ At(p, "pay")
        /\ j.at = "unpaid"
        /\ paid' \in {paid, paid \cup {<<effect[j.msg].booking, effect[j.msg].visit>>}}
     \/ /\ job[p].at \in {"book", "checkIn", "checkOut"}
        /\ j.at = "fail"
        /\ UNCHANGED paid
  /\ UNCHANGED <<rows, detection, attempts, effect, cutShort>>

\* The place from which an answer is given.
AnsweredFrom(answer, place) ==
  /\ answer \in OpenAnswers => place = "open"
  /\ answer = "PAYMENT_INITIATION_FAILED" => place = "unpaid"
  /\ answer \in RefusalAnswers => place \in {"refuse", "fail"}

AnswersOrDies(p, j) ==
  /\ job[p].at \in Decided
  /\ j = IdleJob
  /\ \/ /\ \E answer \in Answers :
             /\ attempts' = [attempts EXCEPT ![job[p].msg] = Append(@, answer)]
             /\ AnsweredFrom(answer, job[p].at)
        /\ UNCHANGED cutShort
     \/ /\ \E how \in {"died", "rejected"} :
             /\ cutShort' = [cutShort EXCEPT ![job[p].msg] = how]
             /\ how = "rejected" => At(p, "open")
        /\ UNCHANGED attempts
  /\ UNCHANGED <<rows, detection, effect, paid>>

HandlerStep(p, j) ==
  /\ j \in Jobs
  /\ j.at = "idle" <=> j.msg = None
  /\ job' = [job EXCEPT ![p] = j]
  /\ [Next]_rows
  /\ \/ Reads(p, j)
     \/ Records(p, j)
     \/ Books(p, j)
     \/ ChecksIn(p, j)
     \/ ChecksOut(p, j)
     \/ PaysOrThrows(p, j)
     \/ AnswersOrDies(p, j)

\* A process that is not idle has a message.
LEMMA BusyHasMessage ==
  ASSUME TypeOK, NEW p \in Processes, ~ At(p, "idle")
  PROVE  job[p].msg \in Messages
  BY DEF TypeOK, Jobs, At

\* IdleJob is a job, whatever is unknown.
LEMMA IdleIsJob == IdleJob \in Jobs /\ IdleJob.at = "idle" /\ IdleJob.msg = None
  BY DEF IdleJob, Jobs, Places

\* The facts of a decision are read one after the other, and change nothing else.
LEMMA ReadingShape ==
  ASSUME TypeOK, NEW p \in Processes,
         \/ \E m \in Messages : findDetection(p, m)
         \/ resolveVehicleContext(p)
         \/ isDuplicateDetection(p)
  PROVE  \E j : HandlerStep(p, j)
<1>t. job[p] \in Jobs /\ job \in [Processes -> Jobs]
  BY DEF TypeOK
<1>1. ASSUME NEW m \in Messages, findDetection(p, m)
      PROVE  \E j : HandlerStep(p, j)
  <2>1. PICK off \in SUBSET Toggles :
          job' = [job EXCEPT ![p] = [IdleJob EXCEPT !.at = "resolve", !.msg = m, !.on = Switches \ off]]
    BY <1>1 DEF findDetection, ReadOrder
  <2> DEFINE j == [IdleJob EXCEPT !.at = "resolve", !.msg = m, !.on = Switches \ off]
  <2>2. j \in Jobs /\ j.at = "resolve" /\ j.msg = m
    BY DEF IdleJob, Jobs, Places
  <2> HIDE DEF j
  <2>3. HandlerStep(p, j)
    BY <1>1, <1>t, <2>1, <2>2, AccessAssumption
       DEF j, HandlerStep, Reads, findDetection, At, Undecided
  <2> QED
    BY <2>3
<1>2. CASE resolveVehicleContext(p)
  <2> DEFINE id == IdentifierOf[job[p].msg]
             v == IF VehicleBy[id] \in registered THEN VehicleBy[id] ELSE None
             sessions == {b \in Bookings : eventStatus[b] = "ACTIVE" /\ VehicleOf[b] = v}
             booked == {b \in Bookings : /\ bookingStatus[b] = "CONFIRMED"
                                         /\ VehicleOf[b] = v
                                         /\ LotOf[bookingSlot[b]] = LotOf[Gate(p)]}
             assigned == v # None /\ \E sl \in AssignedSlots[v] : LotOf[sl] = LotOf[Gate(p)]
  <2>0. ReadOrder.resolve = "window"
    BY DEF ReadOrder
  <2>1. PICK session \in (IF sessions = {} THEN {None} ELSE sessions), booking \in booked \cup {None},
             status \in CredentialStatuses :
          job' = [job EXCEPT ![p] =
            [@ EXCEPT !.at = ReadOrder.resolve,
                      !.credential = IF v = None THEN "NONE" ELSE status,
                      !.vehicle = v,
                      !.session = session,
                      !.visit = IF session = None THEN 0 ELSE visit[session],
                      !.booking = booking,
                      !.assigned = assigned]]
    BY <1>2, Zenon DEF resolveVehicleContext
  <2>2. session \in Bookings \cup {None} /\ booking \in Bookings \cup {None}
    BY <2>1
  <2>3. v \in Vehicles \cup {None} /\ visit \in [Bookings -> Nat]
    BY DEF TypeOK, TablesTypeOK
  <2>4. assigned \in BOOLEAN
    OBVIOUS
  <2> DEFINE credential == IF v = None THEN "NONE" ELSE status
             n == IF session = None THEN 0 ELSE visit[session]
  <2>5. n \in Nat /\ credential \in CredentialStatuses \cup {"NONE"} /\ (session # None => n = visit[session])
    BY <2>1, <2>2, <2>3
  <2> DEFINE j == [job[p] EXCEPT !.at = "window", !.credential = credential, !.vehicle = v,
                    !.session = session, !.visit = n, !.booking = booking, !.assigned = assigned]
  <2>8. job' = [job EXCEPT ![p] = j]
    BY <1>t, <2>0, <2>1
  <2> HIDE DEF v, sessions, booked, assigned, credential, n
  <2>6. j \in Jobs
    BY <1>t, <2>2, <2>3, <2>4, <2>5 DEF Jobs, Places
  <2>7. j.at = "window" /\ j.msg = job[p].msg /\ j.session = session /\ j.visit = n
    BY <1>t DEF Jobs
  <2> HIDE DEF j
  <2>9. job[p].msg \in Messages
    BY <1>2, BusyHasMessage DEF resolveVehicleContext, At
  <2>a. Reads(p, j)
    BY <1>2, <1>t, <2>2, <2>5, <2>7 DEF Reads, resolveVehicleContext, At, Undecided
  <2>b. HandlerStep(p, j)
    BY <1>2, <2>6, <2>7, <2>8, <2>9, <2>a, AccessAssumption
       DEF HandlerStep, resolveVehicleContext
  <2> QED
    BY <2>b
<1>3. CASE isDuplicateDetection(p)
  <2> DEFINE duplicate == \E n \in Messages : detection[n] = "recent" /\ SameKey(n, job[p].msg)
             j == [job[p] EXCEPT !.at = "record", !.duplicate = duplicate]
  <2>1. job' = [job EXCEPT ![p] = j]
    BY <1>3, <1>t DEF isDuplicateDetection, ReadOrder
  <2>2. duplicate \in BOOLEAN
    OBVIOUS
  <2>3. j \in Jobs /\ j.at = "record" /\ j.msg = job[p].msg
    BY <1>t, <2>2 DEF Jobs, Places
  <2>4. job[p].msg \in Messages
    BY <1>3, BusyHasMessage DEF isDuplicateDetection, At
  <2>5. j = [job[p] EXCEPT !.at = "record",
                  !.duplicate = \E n \in Messages : detection[n] = "recent" /\ SameKey(n, job[p].msg)]
    OBVIOUS
  <2> HIDE DEF duplicate, j
  <2>6. HandlerStep(p, j)
    BY <1>3, <1>t, <2>1, <2>3, <2>4, <2>5, AccessAssumption
       DEF HandlerStep, Reads, isDuplicateDetection, At, Undecided
  <2> QED
    BY <2>6
<1> QED
  BY <1>1, <1>2, <1>3

\* A decision leads to a refusal, or to the part of the orchestration that has what
\* it needs: a booking to check in, a session to check out.
LEMMA ContinueShape ==
  ASSUME TypeOK, NEW p \in Processes, At(p, "record"), Continue(p, evaluate(Context(p)))
  PROVE  \E j \in Jobs :
           /\ job' = [job EXCEPT ![p] = j]
           /\ j.msg = job[p].msg
           /\ \/ j.at = "refuse" /\ j.decision # "GRANTED"
              \/ j.at = "book"
              \/ j.at = "checkIn" /\ j.booking \in Bookings
              \/ /\ j.at = "checkOut" /\ ~ job[p].duplicate
                 /\ j.session \in Bookings /\ j.session = job[p].session
<1> DEFINE ctx == Context(p)
           d == evaluate(ctx)
           place == CASE d.decision # "GRANTED" -> "refuse"
                      [] d.flow = "EXIT" -> "checkOut"
                      [] d.flow = "ENTRY" /\ job[p].booking = None -> "book"
                      [] d.flow = "ENTRY" /\ job[p].booking # None -> "checkIn"
           booking == IF d.flow = "ENTRY" THEN job[p].booking ELSE None
           session == IF d.flow = "EXIT" THEN job[p].session ELSE None
           j == [IdleJob EXCEPT !.at = place, !.msg = job[p].msg, !.vehicle = job[p].vehicle,
                                !.booking = booking, !.session = session, !.decision = d.decision]
<1>1. job' = [job EXCEPT ![p] = j]
  BY DEF Continue
<1>2. /\ d.decision \in {"GRANTED", "DENIED", "REVIEW_REQUIRED"}
      /\ d.decision # "GRANTED" => d.flow = "NONE"
      /\ d.decision = "GRANTED" =>
           d.flow \in {"ENTRY", "EXIT"} /\ d.flow = resolveFlow(ctx) /\ ~ ctx.duplicate
  BY EvaluateSound
<1>3. ctx.duplicate = job[p].duplicate
  BY DEF Context
<1>a. job[p].session = None => ctx.session = "none"
  BY DEF Context
<1>4. resolveFlow(ctx) = "EXIT" => ctx.session = "here"
  BY DEF resolveFlow
<1>5. job[p] \in Jobs
  BY DEF TypeOK
<1>6. booking \in Bookings \cup {None} /\ session \in Bookings \cup {None}
  BY <1>5 DEF Jobs
<1>8. \/ place = "refuse" /\ d.decision # "GRANTED"
      \/ place = "book"
      \/ place = "checkIn" /\ booking \in Bookings
      \/ place = "checkOut" /\ ~ job[p].duplicate /\ session \in Bookings /\ session = job[p].session
  <2> HIDE DEF ctx, d
  <2>1. CASE d.decision # "GRANTED"
    BY <1>2, <2>1
  <2>2. CASE d.decision = "GRANTED" /\ d.flow = "EXIT"
    <3>1. job[p].session # None
      BY <1>2, <1>4, <1>a, <2>2
    <3>2. ~ job[p].duplicate
      BY <1>2, <1>3, <2>2, Zenon
    <3> QED
      BY <1>5, <2>2, <3>1, <3>2 DEF Jobs
  <2>3. CASE d.decision = "GRANTED" /\ d.flow = "ENTRY"
    BY <1>5, <2>3 DEF Jobs
  <2> QED
    BY <1>2, <2>1, <2>2, <2>3
<1>7. place \in Places
  BY <1>8 DEF Places
<1> HIDE DEF ctx, d, place, booking, session
<1>9. IdleJob \in Jobs
  BY IdleIsJob
<1>10. j \in Jobs
  BY <1>2, <1>5, <1>6, <1>7, <1>9 DEF Jobs
<1>11. j.at = place /\ j.msg = job[p].msg /\ j.booking = booking /\ j.session = session
       /\ j.decision = d.decision
  BY <1>9 DEF Jobs
<1> HIDE DEF j
<1> QED
  BY <1>1, <1>8, <1>10, <1>11

\* The detection is recorded once; whoever comes later drops the message.
LEMMA RecordingShape ==
  ASSUME TypeOK, NEW p \in Processes, createDetection(p)
  PROVE  \E j : HandlerStep(p, j)
<1>m. job[p].msg \in Messages /\ At(p, "record")
  BY BusyHasMessage DEF createDetection, At, TypeOK
<1>1. CASE detection[job[p].msg] = "none"
  <2>1. Continue(p, evaluate(Context(p)))
    BY <1>1 DEF createDetection
  <2>2. PICK j \in Jobs :
           /\ job' = [job EXCEPT ![p] = j]
           /\ j.msg = job[p].msg
           /\ \/ j.at = "refuse" /\ j.decision # "GRANTED"
              \/ j.at = "book"
              \/ j.at = "checkIn" /\ j.booking \in Bookings
              \/ /\ j.at = "checkOut" /\ ~ job[p].duplicate
                 /\ j.session \in Bookings /\ j.session = job[p].session
    BY <1>m, <2>1, ContinueShape
  <2>3. Records(p, j)
    BY <1>1, <1>m, <2>2 DEF Records, createDetection
  <2>4. HandlerStep(p, j)
    BY <1>m, <2>2, <2>3, AccessAssumption DEF HandlerStep, createDetection
  <2> QED
    BY <2>4
<1>2. CASE detection[job[p].msg] # "none"
  <2>1. job' = [job EXCEPT ![p] = IdleJob] /\ UNCHANGED <<rows, detection, attempts, effect, paid, cutShort>>
    BY <1>2 DEF createDetection, Finish
  <2>2. Reads(p, IdleJob)
    BY <1>m, <2>1, IdleIsJob DEF Reads, At, Undecided
  <2>3. HandlerStep(p, IdleJob)
    BY <2>1, <2>2, IdleIsJob DEF HandlerStep
  <2> QED
    BY <2>3
<1> QED
  BY <1>1, <1>2

\* A job that moves to another place keeps all else.
LEMMA GoShape ==
  ASSUME TypeOK, NEW p \in Processes, NEW place \in Places \ {"idle"}, ~ At(p, "idle")
  PROVE  LET j == [job[p] EXCEPT !.at = place] IN
         /\ j \in Jobs
         /\ j.at = place /\ j.msg = job[p].msg /\ j.msg \in Messages
         /\ j.at = "idle" <=> j.msg = None
         /\ Go(p, place) => job' = [job EXCEPT ![p] = j]
<1>1. job[p] \in Jobs /\ job \in [Processes -> Jobs]
  BY DEF TypeOK
<1>2. job[p].msg \in Messages
  BY BusyHasMessage
<1> QED
  BY <1>1, <1>2, AccessAssumption DEF Jobs, Go

\* The orchestration books, checks in or out, pays, and fails.
LEMMA OrchestrationShape ==
  ASSUME TypeOK, ServedSoFar, NEW p \in Processes,
         \/ ensureAssignmentBooking(p)
         \/ checkInForSystem(p)
         \/ checkOutForSystem(p)
         \/ initiateCheckoutPayment(p)
         \/ orchestrationThrows(p)
  PROVE  \E j : HandlerStep(p, j)
<1> DEFINE To(place) == [job[p] EXCEPT !.at = place]
<1>1. CASE ensureAssignmentBooking(p)
  <2>1. PICK sl \in Slots, b \in Bookings :
          /\ BookAssigned(sl, b)
          /\ job' = [job EXCEPT ![p].booking = b, ![p].at = "checkIn"]
    BY <1>1 DEF ensureAssignmentBooking
  <2> DEFINE j == [job[p] EXCEPT !.booking = b, !.at = "checkIn"]
  <2>2. job[p] \in Jobs /\ job \in [Processes -> Jobs] /\ job[p].msg \in Messages
    BY <1>1, BusyHasMessage DEF TypeOK, ensureAssignmentBooking, At
  <2>3. j \in Jobs /\ j.msg = job[p].msg /\ j.at = "checkIn" /\ j.booking = b
    BY <2>2 DEF Jobs, Places
  <2>4. job' = [job EXCEPT ![p] = j]
    BY <2>1, <2>2
  <2>5. Next /\ UNCHANGED visit
    BY <2>1 DEF Next, BookAssigned, InsertBooking
  <2> HIDE DEF j
  <2>6. Books(p, j)
    BY <1>1, <2>3, <2>5 DEF Books, ensureAssignmentBooking
  <2>7. HandlerStep(p, j)
    BY <2>2, <2>3, <2>4, <2>5, <2>6, AccessAssumption DEF HandlerStep
  <2> QED
    BY <2>7
<1>2. CASE checkInForSystem(p)
  <2>1. At(p, "checkIn") /\ ~ At(p, "idle") /\ "open" \in Places \ {"idle"}
    BY <1>2 DEF checkInForSystem, At, Places
  <2> DEFINE b == job[p].booking
  <2>2. b \in Bookings
    BY <2>1 DEF ServedSoFar, SoFar, At
  <2>3. Next /\ OpenVisit(b)
    BY <1>2, <2>2 DEF Next, checkInForSystem, CheckInFirst, FirstVisit, CheckInReturn, ReturnVisit
  <2>4. visit'[b] = visit[b] + 1
    BY <2>2, <2>3 DEF OpenVisit, TypeOK, TablesTypeOK
  <2>5. effect' = [effect EXCEPT ![job[p].msg] = [flow |-> "ENTRY", booking |-> b, visit |-> visit[b] + 1]]
    BY <1>2, <2>4 DEF checkInForSystem
  <2>6. ChecksIn(p, To("open"))
    BY <1>2, <2>1, <2>2, <2>3, <2>5, GoShape DEF ChecksIn, checkInForSystem
  <2>7. HandlerStep(p, To("open"))
    BY <1>2, <2>1, <2>3, <2>6, GoShape DEF HandlerStep, checkInForSystem
  <2> QED
    BY <2>7
<1>3. CASE checkOutForSystem(p)
  <2>1. At(p, "checkOut") /\ ~ At(p, "idle") /\ "pay" \in Places \ {"idle"}
    BY <1>3 DEF checkOutForSystem, At, Places
  <2> DEFINE b == job[p].session
  <2>2. b \in Bookings
    BY <2>1 DEF ServedSoFar, SoFar, At
  <2>3. Next /\ CheckOut(b)
    BY <1>3, <2>2 DEF Next, checkOutForSystem
  <2>4. effect' = [effect EXCEPT ![job[p].msg] = [flow |-> "EXIT", booking |-> b, visit |-> visit[b]]]
    BY <1>3 DEF checkOutForSystem
  <2>5. ChecksOut(p, To("pay"))
    BY <1>3, <2>1, <2>2, <2>3, <2>4, GoShape DEF ChecksOut, checkOutForSystem
  <2>6. HandlerStep(p, To("pay"))
    BY <1>3, <2>1, <2>3, <2>5, GoShape DEF HandlerStep, checkOutForSystem
  <2> QED
    BY <2>6
<1>4. CASE initiateCheckoutPayment(p)
  <2>1. At(p, "pay") /\ ~ At(p, "idle") /\ "open" \in Places \ {"idle"} /\ "unpaid" \in Places \ {"idle"}
    BY <1>4 DEF initiateCheckoutPayment, At, Places
  <2>2. CASE Go(p, "open") /\ paid' = paid \cup {<<effect[job[p].msg].booking, effect[job[p].msg].visit>>}
    <3>1. PaysOrThrows(p, To("open"))
      BY <1>4, <2>1, <2>2, GoShape DEF PaysOrThrows, initiateCheckoutPayment
    <3>2. HandlerStep(p, To("open"))
      BY <1>4, <2>1, <2>2, <3>1, GoShape DEF HandlerStep, initiateCheckoutPayment
    <3> QED
      BY <3>2
  <2>3. CASE /\ Go(p, "unpaid")
             /\ paid' \in {paid, paid \cup {<<effect[job[p].msg].booking, effect[job[p].msg].visit>>}}
    <3>1. PaysOrThrows(p, To("unpaid"))
      BY <1>4, <2>1, <2>3, GoShape DEF PaysOrThrows, initiateCheckoutPayment, At
    <3>2. HandlerStep(p, To("unpaid"))
      BY <1>4, <2>1, <2>3, <3>1, GoShape DEF HandlerStep, initiateCheckoutPayment
    <3> QED
      BY <3>2
  <2> QED
    BY <1>4, <2>2, <2>3 DEF initiateCheckoutPayment
<1>5. CASE orchestrationThrows(p)
  <2>1. ~ At(p, "idle") /\ "fail" \in Places \ {"idle"}
    BY <1>5 DEF orchestrationThrows, At, Places
  <2>2. PaysOrThrows(p, To("fail"))
    BY <1>5, <2>1, GoShape DEF PaysOrThrows, orchestrationThrows, At
  <2>3. HandlerStep(p, To("fail"))
    BY <1>5, <2>1, <2>2, GoShape DEF HandlerStep, orchestrationThrows
  <2> QED
    BY <2>3
<1> QED
  BY <1>1, <1>2, <1>3, <1>4, <1>5

\* An answer is written, or the handling cut short, and the message is done with.
LEMMA EndingShape ==
  ASSUME TypeOK, ServedSoFar, NEW p \in Processes,
         \/ recordRefusal(p)
         \/ createOpenCommand(p)
         \/ openCommandRejected(p)
         \/ recordFailedAttempt(p)
         \/ ProcessDies(p)
  PROVE  \E j : HandlerStep(p, j)
<1>t. job[p] \in Jobs
  BY DEF TypeOK
<1>1. ASSUME NEW answer \in Answers, recordAttempt(p, answer),
             job[p].at \in Decided, AnsweredFrom(answer, job[p].at),
             UNCHANGED <<rows, detection, effect, paid, cutShort>>
      PROVE  HandlerStep(p, IdleJob)
  <2>1. AnswersOrDies(p, IdleJob)
    BY <1>1 DEF AnswersOrDies, recordAttempt
  <2> QED
    BY <1>1, <2>1, IdleIsJob DEF HandlerStep, recordAttempt, Finish
<1>a. ASSUME NEW how \in {"died", "rejected"}, Finish(p), job[p].at \in Decided,
             cutShort' = [cutShort EXCEPT ![job[p].msg] = how],
             how = "rejected" => At(p, "open"),
             UNCHANGED <<rows, detection, attempts, effect, paid>>
      PROVE  HandlerStep(p, IdleJob)
  <2>1. AnswersOrDies(p, IdleJob)
    BY <1>a DEF AnswersOrDies
  <2> QED
    BY <1>a, <2>1, IdleIsJob DEF HandlerStep, Finish
<1>2. CASE recordRefusal(p)
  <2>1. job[p].decision \in {"DENIED", "REVIEW_REQUIRED"} /\ job[p].at \in Decided
    BY <1>2, <1>t DEF recordRefusal, ServedSoFar, SoFar, Jobs, At, Decided
  <2>2. job[p].decision \in Answers /\ AnsweredFrom(job[p].decision, job[p].at)
    BY <1>2, <2>1 DEF recordRefusal, Answers, AnsweredFrom, OpenAnswers, RefusalAnswers, At
  <2> QED
    BY <1>1, <1>2, <2>1, <2>2 DEF recordRefusal
<1>3. CASE createOpenCommand(p)
  <2>1. job[p].at \in Decided /\ job[p].at = "open"
    BY <1>3 DEF createOpenCommand, At, Decided
  <2>2. \A answer \in OpenAnswers : answer \in Answers /\ AnsweredFrom(answer, job[p].at)
    BY <2>1 DEF Answers, AnsweredFrom, OpenAnswers, RefusalAnswers
  <2> QED
    BY <1>1, <1>3, <2>1, <2>2 DEF createOpenCommand
<1>4. CASE recordFailedAttempt(p)
  <2>1. job[p].at \in Decided
    BY <1>4 DEF recordFailedAttempt, At, Decided
  <2>2. CASE At(p, "fail") /\ recordAttempt(p, "ORCHESTRATION_FAILED")
    <3>1. "ORCHESTRATION_FAILED" \in Answers /\ AnsweredFrom("ORCHESTRATION_FAILED", job[p].at)
      BY <2>2 DEF Answers, AnsweredFrom, OpenAnswers, RefusalAnswers, At
    <3> QED
      BY <1>1, <1>4, <2>1, <2>2, <3>1 DEF recordFailedAttempt
  <2>3. CASE At(p, "unpaid") /\ recordAttempt(p, "PAYMENT_INITIATION_FAILED")
    <3>1. "PAYMENT_INITIATION_FAILED" \in Answers /\ AnsweredFrom("PAYMENT_INITIATION_FAILED", job[p].at)
      BY <2>3 DEF Answers, AnsweredFrom, OpenAnswers, RefusalAnswers, At
    <3> QED
      BY <1>1, <1>4, <2>1, <2>3, <3>1 DEF recordFailedAttempt
  <2> QED
    BY <1>4, <2>2, <2>3 DEF recordFailedAttempt
<1>5. CASE openCommandRejected(p)
  <2>1. job[p].at \in Decided
    BY <1>5 DEF openCommandRejected, At, Decided
  <2> QED
    BY <1>5, <1>a, <2>1 DEF openCommandRejected
<1>6. CASE ProcessDies(p)
  <2>1. Finish(p) /\ UNCHANGED <<rows, detection, attempts, effect, paid>>
    BY <1>6 DEF ProcessDies
  <2>2. CASE job[p].at \in Decided
    <3>1. cutShort' = [cutShort EXCEPT ![job[p].msg] = "died"]
      BY <1>6, <2>2 DEF ProcessDies, Decided
    <3> QED
      BY <1>a, <2>1, <2>2, <3>1
  <2>3. CASE job[p].at \in Undecided
    <3>0. cutShort' = cutShort
      BY <1>6, <2>3 DEF ProcessDies, Undecided, At
    <3>1. Reads(p, IdleJob)
      BY <2>1, <2>3, <3>0, IdleIsJob DEF Reads, Undecided
    <3> QED
      BY <2>1, <3>1, IdleIsJob DEF HandlerStep, Finish
  <2> QED
    BY <1>t, <2>2, <2>3 DEF Jobs, Places, Decided, Undecided
<1> QED
  BY <1>2, <1>3, <1>4, <1>5, <1>6

\* Every step of a handler has one of these shapes.
LEMMA HandlerShape ==
  ASSUME TypeOK, ServedSoFar, NEW p \in Processes, Processing(p)
  PROVE  \E j : HandlerStep(p, j)
  BY ReadingShape, RecordingShape, OrchestrationShape, EndingShape DEF Processing

-----------------------------------------------------------------------------
(***************************************************************************)
(* What each step keeps.                                                   *)
(***************************************************************************)

\* Rows stay well typed whoever changes them.
LEMMA RowsType ==
  ASSUME TablesTypeOK, [Next]_rows
  PROVE  TablesTypeOK'
  BY LedgerStepShape, RowChangeType, UnbookedVehicle, RowsStutter

\* Visits are never taken back, and only a new visit makes an event ACTIVE again.
LEMMA VisitsGrow ==
  ASSUME TablesTypeOK, [Next]_rows, NEW b \in Bookings
  PROVE  /\ visit[b] <= visit'[b]
         /\ visit'[b] = visit[b] /\ eventStatus[b] # "ACTIVE" => eventStatus'[b] # "ACTIVE"
<1> USE DEF TablesTypeOK
<1>1. ASSUME NEW c \in Bookings, NEW sl, InsertBooking(c, sl)
      PROVE  UNCHANGED <<visit, eventStatus>>
  BY <1>1 DEF InsertBooking
<1>2. ASSUME NEW c \in Bookings, OpenVisit(c)
      PROVE  visit[b] <= visit'[b] /\ (visit'[b] = visit[b] => eventStatus'[b] = eventStatus[b])
  BY <1>2 DEF OpenVisit
<1>3. ASSUME NEW c \in Bookings, CheckOut(c)
      PROVE  UNCHANGED visit /\ (eventStatus[b] # "ACTIVE" => eventStatus'[b] # "ACTIVE")
  BY <1>3 DEF CheckOut, CloseVisit
<1>4. ASSUME NEW c \in Bookings, Cancel(c)
      PROVE  UNCHANGED <<visit, eventStatus>>
  BY <1>4 DEF Cancel, CancelBooking
<1>5. ASSUME NEW v, DeleteVehicle(v)
      PROVE  UNCHANGED visit /\ (eventStatus[b] # "ACTIVE" => eventStatus'[b] # "ACTIVE")
  BY <1>5 DEF DeleteVehicle, CascadeDelete
<1>6. CASE Administration
  BY <1>6 DEF Administration, CreateSlot, UpdateSlotStatus, RemoveSlot, CascadeDelete
<1>7. CASE UNCHANGED rows
  BY <1>7 DEF rows
<1> QED
  BY <1>1, <1>2, <1>3, <1>4, <1>5, <1>6, <1>7
     DEF Next, Book, BookAssigned, CheckInFirst, FirstVisit, CheckInReturn, ReturnVisit,
         RemoveVehicle

\* A handler keeps the types.
LEMMA TypeStep ==
  ASSUME TypeOK, ServedSoFar, NEW p \in Processes, NEW j, HandlerStep(p, j)
  PROVE  TypeOK'
<1>1. TablesTypeOK'
  BY RowsType DEF TypeOK, HandlerStep
<1>2. job' \in [Processes -> Jobs] /\ \A q \in Processes : job'[q].at = "idle" <=> job'[q].msg = None
  BY DEF TypeOK, HandlerStep
<1>m. ~ At(p, "idle") => job[p].msg \in Messages
  BY BusyHasMessage
<1>3. detection' \in [Messages -> {"none", "recent", "old"}]
  BY DEF TypeOK, HandlerStep, Reads, Records, Books, ChecksIn, ChecksOut, PaysOrThrows, AnswersOrDies
<1>4. attempts' \in [Messages -> Seq(Answers)]
  <2>1. \A m \in Messages, answer \in Answers : Append(attempts[m], answer) \in Seq(Answers)
    BY DEF TypeOK
  <2>2. CASE UNCHANGED attempts
    BY <2>2 DEF TypeOK
  <2>3. ASSUME NEW answer \in Answers, attempts' = [attempts EXCEPT ![job[p].msg] = Append(@, answer)]
        PROVE  attempts' \in [Messages -> Seq(Answers)]
    BY <2>1, <2>3 DEF TypeOK
  <2> QED
    BY <2>2, <2>3 DEF HandlerStep, Reads, Records, Books, ChecksIn, ChecksOut,
                      PaysOrThrows, AnswersOrDies
<1>5. effect' \in [Messages -> Effects \cup {NoEffect}]
  <2>1. visit \in [Bookings -> Nat]
    BY DEF TypeOK, TablesTypeOK
  <2>2. \A b \in Bookings : /\ [flow |-> "ENTRY", booking |-> b, visit |-> visit[b] + 1] \in Effects
                            /\ [flow |-> "EXIT", booking |-> b, visit |-> visit[b]] \in Effects
    BY <2>1 DEF Effects
  <2> QED
    BY <2>2 DEF TypeOK, HandlerStep, Reads, Records, Books, ChecksIn, ChecksOut, PaysOrThrows,
                AnswersOrDies
<1>6. paid' \subseteq Bookings \X Nat
  <2>1. At(p, "pay") => <<effect[job[p].msg].booking, effect[job[p].msg].visit>> \in Bookings \X Nat
    BY <1>m DEF TypeOK, ServedSoFar, SoFar, At, Effects, NoEffect
  <2> QED
    BY <2>1 DEF TypeOK, HandlerStep, Reads, Records, Books, ChecksIn, ChecksOut, PaysOrThrows,
                AnswersOrDies
<1>7. cutShort' \in [Messages -> {"no", "died", "rejected"}]
  BY <1>m DEF TypeOK, HandlerStep, Reads, Records, Books, ChecksIn, ChecksOut, PaysOrThrows,
              AnswersOrDies, At, Decided
<1> QED
  BY <1>1, <1>2, <1>3, <1>4, <1>5, <1>6, <1>7 DEF TypeOK

\* A handler leaves a detection in one hand, and answers it at most once.
LEMMA OneHandStep ==
  ASSUME TypeOK, InOneHand, OneAnswer, NEW p \in Processes, NEW j, HandlerStep(p, j)
  PROVE  InOneHand' /\ OneAnswer'
<1>0. PICK m0 : m0 = job[p].msg
  OBVIOUS
<1>1. job' = [job EXCEPT ![p] = j] /\ job \in [Processes -> Jobs]
  BY DEF HandlerStep, TypeOK
<1>2. /\ detection \in [Messages -> {"none", "recent", "old"}]
      /\ attempts \in [Messages -> Seq(Answers)]
      /\ effect \in [Messages -> Effects \cup {NoEffect}]
      /\ cutShort \in [Messages -> {"no", "died", "rejected"}]
  BY DEF TypeOK
<1>3. ~ At(p, "idle") => m0 \in Messages
  BY <1>0, BusyHasMessage
<1>4. \A q \in Processes : \A m : q # p => (Deciding(q, m)' <=> Deciding(q, m))
  BY <1>1 DEF Deciding
<1>5. \A m : Deciding(p, m)' <=> j.msg = m /\ j.at \in Decided
  BY <1>1 DEF Deciding
<1>6. CASE Reads(p, j)
  <2>1. \A q \in Processes : \A m : Deciding(q, m)' <=> Deciding(q, m)
    BY <1>4, <1>5, <1>6 DEF Reads, Deciding, Undecided, Decided
  <2> QED
    BY <1>6, <2>1 DEF Reads, InOneHand, OneAnswer
<1>7. CASE Records(p, j)
  <2>1. m0 \in Messages /\ detection[m0] = "none" /\ j.msg = m0 /\ j.at \in Decided
    BY <1>0, <1>3, <1>7 DEF Records, Decided, At
  <2>2. attempts[m0] = <<>> /\ cutShort[m0] = "no" /\ \A q \in Processes : ~ Deciding(q, m0)
    BY <2>1 DEF InOneHand
  <2>3. /\ \A m \in Messages : m # m0 => detection'[m] = detection[m]
        /\ detection'[m0] = "recent"
        /\ UNCHANGED <<attempts, effect, cutShort>>
    BY <1>0, <1>2, <1>7, <2>1 DEF Records
  <2>4. \A m : Deciding(p, m)' <=> m = m0
    BY <1>5, <2>1
  <2>5. \A m : ~ Deciding(p, m)
    BY <1>7 DEF Records, At, Deciding, Decided
  <2>6. \A m \in Messages, q \in Processes : m # m0 => (Deciding(q, m)' <=> Deciding(q, m))
    BY <1>4, <2>4, <2>5
  <2>7. \A q \in Processes : Deciding(q, m0)' <=> q = p
    BY <1>4, <2>2, <2>4
  <2> QED
    BY <2>1, <2>2, <2>3, <2>6, <2>7 DEF InOneHand, OneAnswer
<1>8. CASE Books(p, j) \/ ChecksIn(p, j) \/ ChecksOut(p, j) \/ PaysOrThrows(p, j)
  <2>1. /\ Deciding(p, m0) /\ m0 \in Messages
        /\ j.msg = m0 /\ j.at \in Decided
        /\ UNCHANGED <<detection, attempts, cutShort>>
    BY <1>0, <1>3, <1>8 DEF Books, ChecksIn, ChecksOut, PaysOrThrows, Deciding, Decided, At
  <2>2. \A q \in Processes : \A m : Deciding(q, m)' <=> Deciding(q, m)
    BY <1>0, <1>4, <1>5, <2>1 DEF Deciding
  <2>3. detection[m0] # "none" /\ cutShort[m0] = "no"
    BY <2>1 DEF InOneHand
  <2>4. \A m \in Messages : m # m0 => effect'[m] = effect[m]
    BY <1>0, <1>2, <1>8, <2>1 DEF Books, ChecksIn, ChecksOut, PaysOrThrows
  <2> QED
    BY <2>1, <2>2, <2>3, <2>4 DEF InOneHand, OneAnswer
<1>9. CASE AnswersOrDies(p, j)
  <2>1. /\ Deciding(p, m0) /\ m0 \in Messages
        /\ UNCHANGED <<detection, effect>>
    BY <1>0, <1>3, <1>9 DEF AnswersOrDies, Deciding, Decided, At
  <2>2. /\ detection[m0] # "none" /\ attempts[m0] = <<>> /\ cutShort[m0] = "no"
        /\ \A q \in Processes : Deciding(q, m0) => q = p
    BY <2>1 DEF InOneHand
  <2>3. \A m : ~ Deciding(p, m)'
    BY <1>5, <1>9, IdleIsJob DEF AnswersOrDies, Decided
  <2>4. \A q \in Processes : ~ Deciding(q, m0)'
    BY <1>4, <2>2, <2>3
  <2>5. \A m \in Messages, q \in Processes : m # m0 => (Deciding(q, m)' <=> Deciding(q, m))
    BY <1>0, <1>4, <2>1, <2>3 DEF Deciding
  <2>6. /\ \A m \in Messages : m # m0 => attempts'[m] = attempts[m] /\ cutShort'[m] = cutShort[m]
        /\ Len(attempts'[m0]) <= 1
        /\ attempts'[m0] = <<>> <=> cutShort'[m0] # "no"
    <3>1. ASSUME NEW how \in {"died", "rejected"}, UNCHANGED attempts,
                 cutShort' = [cutShort EXCEPT ![m0] = how]
          PROVE  <2>6
      <4>1. cutShort'[m0] # "no" /\ \A m \in Messages : m # m0 => cutShort'[m] = cutShort[m]
        BY <1>2, <2>1, <3>1
      <4>2. Len(attempts'[m0]) <= 1
        BY <2>1, <3>1 DEF OneAnswer
      <4> QED
        BY <2>2, <3>1, <4>1, <4>2
    <3>2. ASSUME NEW answer, attempts' = [attempts EXCEPT ![m0] = Append(@, answer)],
                 UNCHANGED cutShort
          PROVE  <2>6
      <4>1. attempts'[m0] = Append(<<>>, answer)
        BY <1>2, <2>1, <2>2, <3>2
      <4>2. attempts'[m0] # <<>> /\ Len(attempts'[m0]) = 1
        BY <4>1
      <4>3. \A m \in Messages : m # m0 => attempts'[m] = attempts[m]
        BY <1>2, <3>2
      <4>4. Len(attempts'[m0]) <= 1
        BY <4>2
      <4> QED
        BY <2>2, <3>2, <4>2, <4>3, <4>4
    <3> QED
      BY <1>0, <1>9, <3>1, <3>2 DEF AnswersOrDies
  <2> QED
    BY <2>1, <2>2, <2>4, <2>5, <2>6 DEF InOneHand, OneAnswer
<1> QED
  BY <1>6, <1>7, <1>8, <1>9 DEF HandlerStep

\* A handler that is about to open the gate has served the message, and an answer
\* is not touched by what is done for other messages.
LEMMA ServedStep ==
  ASSUME TypeOK, InOneHand, ServedSoFar, AnswerTellsWhatWasDone, NEW p \in Processes, NEW j,
         HandlerStep(p, j)
  PROVE  ServedSoFar' /\ AnswerTellsWhatWasDone'
<1>0. PICK m0 : m0 = job[p].msg
  OBVIOUS
<1>1. job' = [job EXCEPT ![p] = j] /\ job \in [Processes -> Jobs]
  BY DEF HandlerStep, TypeOK
<1>2. /\ attempts \in [Messages -> Seq(Answers)]
      /\ cutShort \in [Messages -> {"no", "died", "rejected"}]
      /\ effect \in [Messages -> Effects \cup {NoEffect}]
  BY DEF TypeOK
<1>3. ~ At(p, "idle") => m0 \in Messages
  BY <1>0, BusyHasMessage
<1>4. /\ \A m \in Messages : m # m0 => effect'[m] = effect[m]
      /\ effect'[m0] # effect[m0] => At(p, "checkIn") \/ At(p, "checkOut")
      /\ paid \subseteq paid'
  BY <1>0, <1>2, <1>3 DEF HandlerStep, Reads, Records, Books, ChecksIn, ChecksOut, PaysOrThrows,
                          AnswersOrDies
<1>5. \A m \in Messages : Served(m) /\ (m = m0 => effect'[m] = effect[m]) => Served(m)'
  BY <1>4 DEF Served
<1>6. job[p].at \in Decided => \A q \in Processes : q # p => ~ Deciding(q, m0)
  BY <1>0, <1>3 DEF InOneHand, Deciding, At, Decided
<1>7. ServedSoFar'
  <2> SUFFICES ASSUME NEW q \in Processes, NEW k, k = job'[q]
               PROVE  SoFar(k)'
    BY DEF ServedSoFar, SoFar, Served
  <2>1. CASE q # p
    <3>1. k = job[q]
      BY <1>1, <2>1
    <3>2. CASE k.at \in Decided
      <4>1. k.msg \in Messages
        BY <3>1, <3>2, BusyHasMessage DEF At, Decided
      <4>2. k.msg = m0 => job[p].at \notin Decided
        BY <1>6, <2>1, <3>1, <3>2 DEF Deciding
      <4>3. effect'[k.msg] = effect[k.msg]
        BY <1>4, <4>1, <4>2 DEF At, Decided
      <4>4. Served(k.msg) => Served(k.msg)'
        BY <1>5, <4>1, <4>3
      <4> QED
        BY <3>1, <4>3, <4>4 DEF ServedSoFar, SoFar
    <3>3. CASE k.at \notin Decided
      BY <3>3 DEF SoFar, Decided
    <3> QED
      BY <3>2, <3>3
  <2>2. CASE q = p
    <3>0. k = j
      BY <1>1, <2>2
    <3>1. CASE Reads(p, j)
      BY <3>0, <3>1 DEF Reads, Undecided, SoFar
    <3>2. CASE Records(p, j)
      <4>1. effect[m0] = NoEffect /\ UNCHANGED effect /\ j.msg = m0
        BY <1>0, <1>3, <3>2 DEF Records, InOneHand, At
      <4> QED
        BY <3>0, <3>2, <4>1 DEF Records, SoFar
    <3>3. CASE Books(p, j)
      BY <3>0, <3>3 DEF Books, ServedSoFar, SoFar, At
    <3>4. CASE ChecksIn(p, j)
      <4>1. j.at = "open" /\ j.msg = m0 /\ effect'[m0].flow = "ENTRY"
        BY <1>0, <1>2, <1>3, <3>4 DEF ChecksIn, At
      <4>2. Served(m0)'
        BY <4>1 DEF Served, NoEffect
      <4> QED
        BY <3>0, <4>1, <4>2 DEF SoFar
    <3>5. CASE ChecksOut(p, j)
      <4>1. j.at = "pay" /\ j.msg = m0 /\ effect'[m0].flow = "EXIT"
        BY <1>0, <1>2, <1>3, <3>5 DEF ChecksOut, At
      <4> QED
        BY <3>0, <4>1 DEF SoFar
    <3>6. CASE PaysOrThrows(p, j)
      <4>1. CASE At(p, "pay") /\ j.at = "open" /\ paid' = paid \cup {<<effect[m0].booking, effect[m0].visit>>}
        <5>1. effect[m0] # NoEffect /\ effect' = effect /\ j.msg = m0
          BY <1>0, <3>6, <4>1 DEF PaysOrThrows, ServedSoFar, SoFar, At, NoEffect
        <5>2. Served(m0)'
          BY <4>1, <5>1 DEF Served
        <5> QED
          BY <3>0, <4>1, <5>1, <5>2 DEF SoFar
      <4>2. CASE j.at \in {"unpaid", "fail"}
        <5>1. effect' = effect /\ j.msg = m0 /\ (j.at = "unpaid" => At(p, "pay"))
              /\ (j.at = "fail" => job[p].at \in {"book", "checkIn", "checkOut"})
          BY <1>0, <3>6, <4>2 DEF PaysOrThrows
        <5>2. /\ j.at = "unpaid" => effect[m0].flow = "EXIT"
              /\ j.at = "fail" => effect[m0] = NoEffect
          BY <1>0, <5>1 DEF ServedSoFar, SoFar, At
        <5> QED
          BY <3>0, <4>2, <5>1, <5>2 DEF SoFar
      <4> QED
        BY <1>0, <3>6, <4>1, <4>2 DEF PaysOrThrows
    <3>7. CASE AnswersOrDies(p, j)
      BY <3>0, <3>7, IdleIsJob DEF AnswersOrDies, SoFar
    <3> QED
      BY <3>1, <3>2, <3>3, <3>4, <3>5, <3>6, <3>7 DEF HandlerStep
  <2> QED
    BY <2>1, <2>2
<1>8. AnswerTellsWhatWasDone'
  <2> SUFFICES ASSUME NEW m \in Messages
               PROVE  Tells(m)'
    BY DEF AnswerTellsWhatWasDone, Tells, Served
  <2>0. Tells(m)
    BY DEF AnswerTellsWhatWasDone, Tells
  <2>1. ASSUME UNCHANGED <<attempts[m], cutShort[m]>>
        PROVE  Tells(m)'
    <3>1. CASE attempts[m] = <<>> /\ cutShort[m] = "no"
      BY <2>1, <3>1 DEF Tells
    <3>2. CASE attempts[m] # <<>> \/ cutShort[m] # "no"
      <4>1. m = m0 => job[p].at \notin Decided
        BY <1>0, <3>2 DEF InOneHand, Deciding
      <4>2. effect'[m] = effect[m]
        BY <1>4, <4>1 DEF At, Decided
      <4> QED
        BY <1>5, <2>0, <2>1, <4>2 DEF Tells
    <3> QED
      BY <3>1, <3>2
  <2>2. CASE m = m0 /\ AnswersOrDies(p, j)
    <3>1. /\ job[p].at \in Decided /\ UNCHANGED <<effect, paid>>
          /\ attempts[m] = <<>> /\ cutShort[m] = "no"
      BY <1>0, <2>2 DEF InOneHand, Deciding, AnswersOrDies
    <3>2. SoFar(job[p])
      BY DEF ServedSoFar
    <3>3. ASSUME NEW answer \in Answers, attempts' = [attempts EXCEPT ![m] = Append(@, answer)],
                 AnsweredFrom(answer, job[p].at), UNCHANGED cutShort
          PROVE  Tells(m)'
      <4>1. attempts'[m] = Append(<<>>, answer)
        BY <1>2, <3>1, <3>3
      <4>2. \A i \in DOMAIN attempts'[m] : attempts'[m][i] = answer
        BY <4>1
      <4>3. /\ answer \in OpenAnswers => Served(m)
            /\ answer = "PAYMENT_INITIATION_FAILED" => effect[m].flow = "EXIT"
            /\ answer \in RefusalAnswers => effect[m] = NoEffect
        BY <1>0, <2>2, <3>2, <3>3 DEF SoFar, AnsweredFrom
      <4>4. /\ answer \in OpenAnswers => Served(m)'
            /\ answer = "PAYMENT_INITIATION_FAILED" => effect'[m].flow = "EXIT"
            /\ answer \in RefusalAnswers => effect'[m] = NoEffect
        BY <1>5, <3>1, <4>3
      <4>5. cutShort'[m] = "no"
        BY <3>1, <3>3
      <4> QED
        BY <4>2, <4>4, <4>5 DEF Tells
    <3>4. ASSUME NEW how, cutShort' = [cutShort EXCEPT ![m] = how],
                 how = "rejected" => At(p, "open"), UNCHANGED attempts
          PROVE  Tells(m)'
      <4>1. cutShort'[m] = how
        BY <1>2, <3>4
      <4>2. how = "rejected" => Served(m)'
        BY <1>0, <1>5, <2>2, <3>1, <3>2, <3>4 DEF SoFar, At
      <4>3. attempts'[m] = <<>>
        BY <3>1, <3>4
      <4> QED
        BY <4>1, <4>2, <4>3 DEF Tells
    <3> QED
      BY <1>0, <2>2, <3>3, <3>4 DEF AnswersOrDies
  <2>3. CASE m # m0 \/ ~ AnswersOrDies(p, j)
    <3>1. attempts'[m] = attempts[m] /\ cutShort'[m] = cutShort[m]
      BY <1>0, <1>2, <2>3 DEF HandlerStep, Reads, Records, Books, ChecksIn, ChecksOut, PaysOrThrows,
                              AnswersOrDies
    <3> QED
      BY <2>1, <3>1
  <2> QED
    BY <2>2, <2>3
<1> QED
  BY <1>7, <1>8

\* What is known of the visits of all messages stays known while visits go on and no
\* message opens or closes one.
LEMMA EffectsKept ==
  ASSUME TypeOK, EffectsPast, [Next]_rows, UNCHANGED effect
  PROVE  EffectsPast' /\ (EffectsDistinct => EffectsDistinct')
<1>1. \A m \in Messages : effect[m] # NoEffect => effect[m].booking \in Bookings /\ effect[m].visit \in Nat
  BY DEF TypeOK, Effects
<1>2. visit \in [Bookings -> Nat] /\ visit' \in [Bookings -> Nat]
  BY RowsType DEF TypeOK, TablesTypeOK
<1>3. \A b \in Bookings :
        /\ visit[b] <= visit'[b]
        /\ visit'[b] = visit[b] /\ eventStatus[b] # "ACTIVE" => eventStatus'[b] # "ACTIVE"
  BY VisitsGrow DEF TypeOK
<1>4. \A n, k, l \in Nat : n <= k /\ k <= l => n <= l /\ (n = l => n = k /\ k = l)
  OBVIOUS
<1>5. EffectsPast'
  BY <1>1, <1>2, <1>3, <1>4 DEF EffectsPast
<1> QED
  BY <1>5 DEF EffectsDistinct

\* A message opens a visit with a new number, or closes the one that is open.
LEMMA EffectsStep ==
  ASSUME TypeOK, EffectsPast, EffectsDistinct, NEW p \in Processes, NEW j, HandlerStep(p, j)
  PROVE  EffectsPast' /\ EffectsDistinct'
<1>0. PICK m0 : m0 = job[p].msg
  OBVIOUS
<1>1. /\ effect \in [Messages -> Effects \cup {NoEffect}]
      /\ visit \in [Bookings -> Nat]
      /\ visit' \in [Bookings -> Nat]
      /\ eventStatus \in [Bookings -> EventStatus \cup {"NONE"}]
  BY RowsType DEF TypeOK, TablesTypeOK, HandlerStep
<1>2. \A m \in Messages : effect[m] # NoEffect =>
        effect[m].booking \in Bookings /\ effect[m].visit \in Nat
  BY <1>1 DEF Effects
<1>3. \A b \in Bookings :
        /\ visit[b] <= visit'[b]
        /\ visit'[b] = visit[b] /\ eventStatus[b] # "ACTIVE" => eventStatus'[b] # "ACTIVE"
  BY VisitsGrow DEF TypeOK, HandlerStep
<1>n. \A n, k, l \in Nat : n <= k /\ k <= l => n <= l /\ (n = l => n = k /\ k = l)
  OBVIOUS
<1>4. ASSUME NEW e \in Effects, m0 \in Messages, effect' = [effect EXCEPT ![m0] = e],
             e.visit <= visit'[e.booking],
             e.flow = "EXIT" /\ e.visit = visit'[e.booking] => eventStatus'[e.booking] # "ACTIVE",
             \A m \in Messages : effect[m] # NoEffect => effect[m] # e
      PROVE  EffectsPast' /\ EffectsDistinct'
  <2>1. effect'[m0] = e /\ \A m \in Messages : m # m0 => effect'[m] = effect[m]
    BY <1>1, <1>4
  <2>2. ASSUME NEW m \in Messages, effect[m] # NoEffect
        PROVE  /\ effect[m].visit <= visit'[effect[m].booking]
               /\ effect[m].flow = "EXIT" /\ effect[m].visit = visit'[effect[m].booking]
                    => eventStatus'[effect[m].booking] # "ACTIVE"
    BY <1>1, <1>2, <1>3, <1>n, <2>2 DEF EffectsPast
  <2>3. EffectsPast'
    BY <1>4, <2>1, <2>2 DEF EffectsPast
  <2>4. e # NoEffect
    BY DEF Effects, NoEffect
  <2>5. EffectsDistinct'
    BY <1>4, <2>1, <2>4 DEF EffectsDistinct
  <2> QED
    BY <2>3, <2>5
<1>5. CASE ChecksIn(p, j)
  <2>1. m0 \in Messages
    BY <1>0, <1>5, BusyHasMessage DEF ChecksIn, At
  <2>2. PICK b \in Bookings :
          /\ OpenVisit(b)
          /\ effect' = [effect EXCEPT ![m0] = [flow |-> "ENTRY", booking |-> b, visit |-> visit[b] + 1]]
    BY <1>0, <1>5 DEF ChecksIn
  <2> DEFINE e == [flow |-> "ENTRY", booking |-> b, visit |-> visit[b] + 1]
  <2>3. visit[b] \in Nat /\ visit'[b] = visit[b] + 1
    BY <1>1, <2>2 DEF OpenVisit
  <2>4. e \in Effects /\ e.flow = "ENTRY" /\ e.booking = b /\ e.visit = visit[b] + 1
    BY <2>3 DEF Effects
  <2> HIDE DEF e
  <2>5. \A m \in Messages : effect[m] # NoEffect /\ effect[m].booking = b => effect[m].visit <= visit[b]
    BY DEF EffectsPast
  <2>6. \A n \in Nat : n + 1 <= n + 1 /\ ~ (n + 1 <= n)
    OBVIOUS
  <2>7. \A m \in Messages : effect[m] # NoEffect => effect[m] # e
    BY <2>3, <2>4, <2>5, <2>6
  <2>8. e.visit <= visit'[e.booking]
    BY <2>3, <2>4, <2>6
  <2>9. effect' = [effect EXCEPT ![m0] = e]
    BY <2>2 DEF e
  <2> QED
    BY <1>4, <2>1, <2>4, <2>7, <2>8, <2>9
<1>6. CASE ChecksOut(p, j)
  <2>1. m0 \in Messages
    BY <1>0, <1>6, BusyHasMessage DEF ChecksOut, At
  <2>2. PICK b \in Bookings :
          /\ CheckOut(b)
          /\ effect' = [effect EXCEPT ![m0] = [flow |-> "EXIT", booking |-> b, visit |-> visit[b]]]
    BY <1>0, <1>6 DEF ChecksOut
  <2> DEFINE e == [flow |-> "EXIT", booking |-> b, visit |-> visit[b]]
  <2>3. visit[b] \in Nat /\ visit'[b] = visit[b] /\ eventStatus[b] = "ACTIVE" /\ eventStatus'[b] = "COMPLETED"
    BY <1>1, <2>2 DEF CheckOut, CloseVisit
  <2>4. e \in Effects /\ e.flow = "EXIT" /\ e.booking = b /\ e.visit = visit[b]
    BY <2>3 DEF Effects
  <2> HIDE DEF e
  <2>5. \A m \in Messages : effect[m] # NoEffect => effect[m] # e
    BY <2>3, <2>4 DEF EffectsPast
  <2>6. \A n \in Nat : n <= n
    OBVIOUS
  <2>7. e.visit <= visit'[e.booking] /\ eventStatus'[e.booking] # "ACTIVE"
    BY <2>3, <2>4, <2>6
  <2>8. effect' = [effect EXCEPT ![m0] = e]
    BY <2>2 DEF e
  <2> QED
    BY <1>4, <2>1, <2>4, <2>5, <2>7, <2>8
<1>7. CASE UNCHANGED effect
  BY <1>7, EffectsKept DEF HandlerStep
<1> QED
  BY <1>5, <1>6, <1>7 DEF HandlerStep, Reads, Records, Books, PaysOrThrows, AnswersOrDies

\* Who read a session and then found no recent echo at the gate has no recent echo
\* of the message that opened it.
LEMMA EchoKept ==
  ASSUME TypeOK, [Next]_rows, NEW k \in Jobs,
         k.at \in {"window", "record"} /\ k.session # None => k.visit <= visit[k.session],
         \A m \in Messages : \/ effect'[m] = effect[m]
                             \/ effect'[m].flow = "EXIT"
                             \/ \E b \in Bookings : /\ visit'[b] = visit[b] + 1
                                                    /\ effect'[m].booking = b
                                                    /\ effect'[m].visit = visit[b] + 1
  PROVE  /\ k.at \in {"window", "record"} /\ k.session # None => k.visit <= visit'[k.session]
         /\ k.at \in {"window", "record"} => \A m \in Messages : Opened(m, k)' => Opened(m, k)
<1>1. visit \in [Bookings -> Nat] /\ visit' \in [Bookings -> Nat]
  BY RowsType DEF TypeOK, TablesTypeOK
<1>2. k.session \in Bookings \cup {None} /\ k.visit \in Nat
  BY DEF Jobs
<1>3. \A b \in Bookings : visit[b] <= visit'[b]
  BY VisitsGrow DEF TypeOK
<1>4. \A n, i, l \in Nat : n <= i /\ i <= l => n <= l
  OBVIOUS
<1>5. \A n \in Nat : ~ (n + 1 <= n)
  OBVIOUS
<1>6. k.at \in {"window", "record"} /\ k.session # None => k.visit <= visit'[k.session]
  BY <1>1, <1>2, <1>3, <1>4
<1>7. ASSUME NEW m \in Messages, Opened(m, k)', k.at \in {"window", "record"}
      PROVE  Opened(m, k)
  <2>1. effect'[m].flow = "ENTRY" /\ effect'[m].booking = k.session /\ effect'[m].visit = k.visit
        /\ SameKey(m, k.msg)
    BY <1>7 DEF Opened, SameKey
  <2>2. ASSUME NEW b \in Bookings, effect'[m].booking = b, effect'[m].visit = visit[b] + 1
        PROVE  FALSE
    <3>1. b = k.session /\ k.visit = visit[b] + 1 /\ visit[b] \in Nat
      BY <1>1, <2>1, <2>2
    <3>2. k.visit <= visit[b]
      BY <1>7, <3>1, TablesAssumption
    <3> QED
      BY <1>5, <3>1, <3>2
  <2>3. effect'[m] = effect[m]
    BY <2>1, <2>2
  <2> QED
    BY <2>1, <2>3 DEF Opened
<1> QED
  BY <1>6, <1>7

\* A handler that is about to decide on an exit has no recent echo.
LEMMA EchoStep ==
  ASSUME TypeOK, InOneHand, EchoSeen, NEW p \in Processes, NEW j, HandlerStep(p, j)
  PROVE  EchoSeen'
<1>1. job' = [job EXCEPT ![p] = j] /\ job \in [Processes -> Jobs]
  BY DEF HandlerStep, TypeOK
<1>2. /\ detection \in [Messages -> {"none", "recent", "old"}]
      /\ effect \in [Messages -> Effects \cup {NoEffect}]
      /\ visit \in [Bookings -> Nat]
  BY DEF TypeOK, TablesTypeOK
<1>3. \A m \in Messages : detection[m] = "old" => detection'[m] = "old"
  BY <1>2, BusyHasMessage
     DEF HandlerStep, Reads, Records, Books, ChecksIn, ChecksOut, PaysOrThrows, AnswersOrDies, At
<1>4. \A m \in Messages : \/ effect'[m] = effect[m]
                          \/ effect'[m].flow = "EXIT"
                          \/ \E b \in Bookings : /\ visit'[b] = visit[b] + 1
                                                 /\ effect'[m].booking = b
                                                 /\ effect'[m].visit = visit[b] + 1
  <2>1. CASE ChecksIn(p, j)
    <3>1. PICK b \in Bookings :
            /\ OpenVisit(b)
            /\ effect' = [effect EXCEPT ![j.msg] = [flow |-> "ENTRY", booking |-> b, visit |-> visit[b] + 1]]
      BY <2>1 DEF ChecksIn
    <3>2. visit'[b] = visit[b] + 1
      BY <1>2, <3>1 DEF OpenVisit
    <3> QED
      BY <1>2, <3>1, <3>2
  <2>2. CASE ChecksOut(p, j)
    BY <1>2, <2>2 DEF ChecksOut
  <2> QED
    BY <2>1, <2>2 DEF HandlerStep, Reads, Records, Books, PaysOrThrows, AnswersOrDies
<1> SUFFICES ASSUME NEW q \in Processes, NEW k, k = job'[q]
             PROVE  EchoOut(k)'
  BY DEF EchoSeen, EchoOut, Opened, SameKey
<1>5. CASE q # p
  <2>1. k \in Jobs /\ EchoOut(k)
    BY <1>1, <1>5 DEF EchoSeen
  <2>2. /\ k.at \in {"window", "record"} /\ k.session # None => k.visit <= visit'[k.session]
        /\ k.at \in {"window", "record"} => \A m \in Messages : Opened(m, k)' => Opened(m, k)
    BY <1>4, <2>1, EchoKept DEF EchoOut, HandlerStep
  <2> QED
    BY <1>3, <2>1, <2>2 DEF EchoOut
<1>6. CASE q = p
  <2>1. k = j
    BY <1>1, <1>6
  <2>2. CASE ~ Reads(p, j)
    <3>1. j.at \notin {"window", "record"}
      BY <2>2, IdleIsJob DEF HandlerStep, Records, Books, ChecksIn, ChecksOut, PaysOrThrows, AnswersOrDies
    <3> QED
      BY <2>1, <3>1 DEF EchoOut
  <2>3. CASE j.at \in {"idle", "resolve"}
    BY <2>1, <2>3 DEF EchoOut
  <2>4. CASE Reads(p, j) /\ j.at = "window" /\ (j.session # None => j.session \in Bookings /\ j.visit = visit[j.session])
    <3>1. UNCHANGED visit
      BY <2>4 DEF Reads, rows
    <3>2. \A n \in Nat : n <= n
      OBVIOUS
    <3>3. j.session # None => j.visit <= visit[j.session]
      BY <1>2, <2>4, <3>2
    <3> QED
      BY <2>1, <2>4, <3>1, <3>3 DEF EchoOut
  <2>5. CASE /\ Reads(p, j) /\ At(p, "window")
             /\ j = [job[p] EXCEPT !.at = "record",
                       !.duplicate = \E m \in Messages : detection[m] = "recent" /\ SameKey(m, job[p].msg)]
    <3>1. UNCHANGED <<visit, effect, detection>>
      BY <2>5 DEF Reads, rows
    <3>2. /\ j.at = "record" /\ j.session = job[p].session /\ j.visit = job[p].visit /\ j.msg = job[p].msg
          /\ job[p].at = "window"
      BY <1>1, <2>5 DEF Jobs, At
    <3>3. j.duplicate = \E m \in Messages : detection[m] = "recent" /\ SameKey(m, job[p].msg)
      BY <1>1, <2>5 DEF Jobs
    <3>4. j.session # None => j.visit <= visit[j.session]
      BY <3>2 DEF EchoSeen, EchoOut
    <3>5. ASSUME ~ k.duplicate, NEW m \in Messages, Opened(m, k)
          PROVE  detection[m] = "old"
      <4>1. detection[m] # "recent"
        BY <2>1, <3>2, <3>3, <3>5 DEF Opened
      <4>2. effect[m] # NoEffect
        BY <3>5 DEF Opened, NoEffect
      <4> QED
        BY <1>2, <4>1, <4>2 DEF InOneHand
    <3>6. \A m \in Messages : Opened(m, k)' => Opened(m, k)
      BY <3>1 DEF Opened, SameKey
    <3>7. k.session # None => k.visit <= visit'[k.session]
      BY <2>1, <3>1, <3>4
    <3>8. ~ k.duplicate => \A m \in Messages : Opened(m, k)' => detection'[m] = "old"
      <4>1. detection' = detection
        BY <3>1
      <4> SUFFICES ASSUME ~ k.duplicate, NEW m \in Messages, Opened(m, k)'
                   PROVE  detection[m] = "old"
        BY <4>1
      <4> QED
        BY <3>5, <3>6
    <3> QED
      BY <3>7, <3>8 DEF EchoOut
  <2> QED
    BY <2>2, <2>3, <2>4, <2>5 DEF Reads
<1> QED
  BY <1>5, <1>6

\* No handler breaks the invariant.
LEMMA HandlerKeeps ==
  ASSUME AccessInv, NEW p \in Processes, Processing(p)
  PROVE  AccessInv'
<1>1. PICK j : HandlerStep(p, j)
  BY HandlerShape DEF AccessInv
<1> QED
  BY <1>1, TypeStep, OneHandStep, ServedStep, EffectsStep, EchoStep DEF AccessInv

\* Nor does the passing of the duplicate window: what was recent becomes old.
LEMMA WindowKeeps ==
  ASSUME AccessInv, NEW m \in Messages, WindowEnds(m)
  PROVE  AccessInv'
<1>1. /\ detection[m] = "recent" /\ detection' = [detection EXCEPT ![m] = "old"]
      /\ UNCHANGED <<rows, job, attempts, effect, paid, cutShort>>
  BY DEF WindowEnds
<1>2. TypeOK'
  BY <1>1, RowsStutter DEF AccessInv, TypeOK
<1>3. InOneHand' /\ OneAnswer'
  BY <1>1 DEF AccessInv, TypeOK, InOneHand, OneAnswer, Deciding
<1>4. ServedSoFar' /\ AnswerTellsWhatWasDone'
  BY <1>1 DEF AccessInv, ServedSoFar, SoFar, AnswerTellsWhatWasDone, Served
<1>5. EffectsPast' /\ EffectsDistinct'
  BY <1>1, EffectsKept DEF AccessInv
<1>6. EchoSeen'
  BY <1>1 DEF AccessInv, TypeOK, EchoSeen, EchoOut, Opened, SameKey, rows
<1> QED
  BY <1>2, <1>3, <1>4, <1>5, <1>6 DEF AccessInv

\* Nor do staff and drivers, who change rows only, nor steps that change nothing.
LEMMA StaffKeeps ==
  ASSUME AccessInv, [Next]_rows, UNCHANGED access
  PROVE  AccessInv'
<1>1. UNCHANGED <<job, detection, attempts, effect, paid, cutShort>>
  BY DEF access
<1>2. TypeOK'
  BY <1>1, RowsType DEF AccessInv, TypeOK
<1>3. InOneHand' /\ OneAnswer'
  BY <1>1 DEF AccessInv, InOneHand, OneAnswer, Deciding
<1>4. ServedSoFar' /\ AnswerTellsWhatWasDone'
  BY <1>1 DEF AccessInv, ServedSoFar, SoFar, AnswerTellsWhatWasDone, Served
<1>5. EffectsPast' /\ EffectsDistinct'
  BY <1>1, EffectsKept DEF AccessInv
<1>6. EchoSeen'
  <2> SUFFICES ASSUME NEW q \in Processes, NEW k, k = job[q]
               PROVE  EchoOut(k)'
    BY <1>1 DEF EchoSeen, EchoOut, Opened, SameKey
  <2>1. k \in Jobs /\ EchoOut(k)
    BY DEF AccessInv, TypeOK, EchoSeen
  <2>2. \A m \in Messages : effect'[m] = effect[m]
    BY <1>1
  <2>3. /\ k.at \in {"window", "record"} /\ k.session # None => k.visit <= visit'[k.session]
        /\ k.at \in {"window", "record"} => \A m \in Messages : Opened(m, k)' => Opened(m, k)
    BY <2>1, <2>2, EchoKept DEF EchoOut, AccessInv
  <2>4. k.at = "record" /\ ~ k.duplicate =>
          \A m \in Messages : Opened(m, k)' => detection[m] = "old"
    BY <2>1, <2>3 DEF EchoOut
  <2>5. detection' = detection
    BY <1>1
  <2> QED
    BY <2>3, <2>4, <2>5 DEF EchoOut
<1> QED
  BY <1>2, <1>3, <1>4, <1>5, <1>6 DEF AccessInv

\* The invariant holds before any detection.
LEMMA AccessInit == Init => AccessInv
<1> SUFFICES ASSUME Init PROVE AccessInv
  OBVIOUS
<1>1. TypeOK
  <2>1. IdleJob \in Jobs /\ IdleJob.at = "idle" /\ IdleJob.msg = None
    BY IdleIsJob
  <2>2. <<>> \in Seq(Answers)
    OBVIOUS
  <2> QED
    BY <2>1, <2>2, TablesInitType DEF Init, TypeOK
<1>2. \A p \in Processes : job[p].at = "idle"
  BY IdleIsJob DEF Init
<1>3. InOneHand /\ OneAnswer
  BY <1>2 DEF Init, InOneHand, OneAnswer, Deciding, Decided
<1>4. ServedSoFar
  BY <1>2 DEF ServedSoFar, SoFar
<1>5. AnswerTellsWhatWasDone
  BY DEF Init, AnswerTellsWhatWasDone
<1>6. EffectsPast /\ EffectsDistinct
  BY DEF Init, EffectsPast, EffectsDistinct
<1>7. EchoSeen
  BY <1>2 DEF EchoSeen, EchoOut
<1> QED
  BY <1>1, <1>3, <1>4, <1>5, <1>6, <1>7 DEF AccessInv

\* Every step keeps the invariant.
LEMMA AccessStep == AccessInv /\ [GateNext]_vars => AccessInv'
<1> SUFFICES ASSUME AccessInv, [GateNext]_vars
             PROVE  AccessInv'
  OBVIOUS
<1>1. ASSUME NEW p \in Processes, Processing(p)
      PROVE  AccessInv'
  BY <1>1, HandlerKeeps
<1>2. ASSUME NEW m \in Messages, WindowEnds(m)
      PROVE  AccessInv'
  BY <1>2, WindowKeeps
<1>3. CASE Staff
  BY <1>3, StaffKeeps DEF Staff
<1>4. CASE UNCHANGED vars
  BY <1>4, StaffKeeps DEF vars
<1> QED
  BY <1>1, <1>2, <1>3, <1>4 DEF GateNext

\* The invariant holds throughout.
LEMMA AccessAlways == GateSpec => []AccessInv
  BY AccessInit, AccessStep, PTL DEF GateSpec

\* Messages, decisions and rows stay well typed.
THEOREM AccessTypeCorrect == GateSpec => []TypeOK
<1>1. AccessInv => TypeOK
  BY DEF AccessInv
<1> QED
  BY <1>1, AccessAlways, PTL

\* However often a message comes and however many processes handle it, its detection
\* is answered exactly once, unless the process that recorded it died or the
\* command that it led to was rejected (createDetection, orchestrateGrantedAccess).
THEOREM DetectionAnsweredOnce == GateSpec => []AnsweredOnce
<1>1. ASSUME AccessInv, NEW m \in Messages, detection[m] # "none",
             \A p \in Processes : job[p].msg # m
      PROVE  attempts[m] = <<>> <=> cutShort[m] # "no"
  BY <1>1 DEF AccessInv, InOneHand, Deciding
<1>2. AccessInv => AnsweredOnce
  BY <1>1 DEF AccessInv, AnsweredOnce, AnsweredOrCutShort
<1> QED
  BY <1>2, AccessAlways, PTL

\* Two messages never open the same visit, nor close it, whatever staff do with the
\* same bookings meanwhile (checkInForSystem, checkOutForSystem).
THEOREM VisitsNotShared == GateSpec => []EffectsDistinct
<1>1. AccessInv => EffectsDistinct
  BY DEF AccessInv
<1> QED
  BY <1>1, AccessAlways, PTL

\* What is recorded of a detection tells what became of its car: a gate is opened, or
\* fails to, for a visit that was opened, or closed and its payment
\* initiated, and an error or a refusal has changed no visit (orchestrateGrantedAccess).
THEOREM AnswersTell == GateSpec => []AnswerTellsWhatWasDone
<1>1. AccessInv => AnswerTellsWhatWasDone
  BY DEF AccessInv
<1> QED
  BY <1>1, AccessAlways, PTL

\* While the detection that opened a visit is within the duplicate window, no other
\* reading at the gate is decided to be its exit: the session is read before the
\* window is (processDetection, isDuplicateDetection).
THEOREM EchoStays == GateSpec => EchoDoesNotCheckOut
<1>1. ASSUME AccessInv, [GateNext]_vars, NEW p \in Processes, NEW m \in Messages,
             At(p, "record"), job'[p].at = "checkOut", SameKey(m, job[p].msg),
             effect[m].flow = "ENTRY", effect[m].booking = job[p].session,
             effect[m].visit = job[p].visit
      PROVE  detection[m] = "old"
  <2>1. job \in [Processes -> Jobs]
    BY <1>1 DEF AccessInv, TypeOK
  <2>2. ~ job[p].duplicate
    <3>1. job'[p] # job[p]
      BY <1>1 DEF At
    <3>2. PICK q \in Processes : Processing(q)
      BY <1>1, <3>1 DEF GateNext, WindowEnds, Staff, access, vars
    <3>3. PICK j : HandlerStep(q, j)
      BY <1>1, <3>2, HandlerShape DEF AccessInv
    <3>4. q = p /\ job'[p] = j
      BY <2>1, <3>1, <3>3 DEF HandlerStep
    <3>5. Records(p, j)
      BY <1>1, <3>3, <3>4, IdleIsJob
         DEF HandlerStep, Reads, Undecided, Books, ChecksIn, ChecksOut, PaysOrThrows, AnswersOrDies
    <3> QED
      BY <1>1, <3>4, <3>5 DEF Records
  <2>3. EchoOut(job[p])
    BY <1>1 DEF AccessInv, EchoSeen
  <2> QED
    BY <1>1, <2>2, <2>3 DEF EchoOut, Opened, At
<1>2. AccessInv /\ [GateNext]_vars =>
        [\A p \in Processes, m \in Messages :
           /\ At(p, "record")
           /\ job'[p].at = "checkOut"
           /\ SameKey(m, job[p].msg)
           /\ effect[m].flow = "ENTRY"
           /\ effect[m].booking = job[p].session
           /\ effect[m].visit = job[p].visit
           => detection[m] = "old"]_vars
  BY <1>1
<1> QED
  BY <1>2, AccessAlways, PTL DEF GateSpec, EchoDoesNotCheckOut

\* Whatever happens at the gates, the parking rows change only as the handlers of
\* ParkingLedger change them: what is proved of its Spec holds here.
THEOREM GatesKeepLedger == GateSpec => Spec
<1>1. Init => TablesInit
  BY DEF Init
<1>2. AccessInv /\ [GateNext]_vars => [Next]_rows
  <2>1. ASSUME AccessInv, NEW p \in Processes, Processing(p)
        PROVE  [Next]_rows
    BY <2>1, HandlerShape DEF AccessInv, HandlerStep
  <2> QED
    BY <2>1 DEF GateNext, WindowEnds, Staff, vars
<1> QED
  BY <1>1, <1>2, AccessAlways, PTL DEF GateSpec, Spec
=============================================================================
