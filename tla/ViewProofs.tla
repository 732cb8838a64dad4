------------------------------ MODULE ViewProofs ------------------------------
(***************************************************************************)
(* What the guard's search and the slot map say of the ledger, for any     *)
(* slots, bookings and vehicles; and what the pages of the frontend do in  *)
(* one tab: whose name it shows, which detection the guard is asked about, *)
(* forms, the payment window, what the cache keeps, where links lead, and  *)
(* what the activity feed shows page by page.                              *)
(***************************************************************************)
EXTENDS Dashboards, ParkingLedgerProofs, BrowserSession, GatePage, PageForms, Checkout,
        QueryCache, ActivityFeed, FiniteSetTheorems, FunctionTheorems

Stamps(b) == visit'[b] # visit[b] \/ closed'[b] # closed[b]

\* A step opens or closes the visit of one booking, or makes no event.
LEMMA OneVisitAtATime ==
  ASSUME TablesTypeOK, Next
  PROVE  \/ \E b \in Bookings :
              /\ Stamps(b) /\ eventStatus'[b] # "NONE"
              /\ \A a \in Bookings \ {b} : ~ Stamps(a) /\ eventStatus'[a] = eventStatus[a]
         \/ \A a \in Bookings : ~ Stamps(a) /\ eventStatus'[a] \in {eventStatus[a], "NONE"}
<1> USE DEF TablesTypeOK, Stamps
<1>1. ASSUME NEW b \in Bookings, OpenVisit(b)
      PROVE  /\ Stamps(b) /\ eventStatus'[b] # "NONE"
             /\ \A a \in Bookings \ {b} : ~ Stamps(a) /\ eventStatus'[a] = eventStatus[a]
  BY <1>1 DEF OpenVisit
<1>2. ASSUME NEW b \in Bookings, CheckOut(b)
      PROVE  /\ Stamps(b) /\ eventStatus'[b] # "NONE"
             /\ \A a \in Bookings \ {b} : ~ Stamps(a) /\ eventStatus'[a] = eventStatus[a]
  BY <1>2 DEF CheckOut, CloseVisit
<1>3. ASSUME NEW b \in Bookings, NEW sl, InsertBooking(b, sl) \/ Cancel(b)
      PROVE  \A a \in Bookings : ~ Stamps(a) /\ eventStatus'[a] = eventStatus[a]
  BY <1>3 DEF InsertBooking, Cancel, CancelBooking
<1>4. ASSUME NEW v, DeleteVehicle(v)
      PROVE  \A a \in Bookings : ~ Stamps(a) /\ eventStatus'[a] \in {eventStatus[a], "NONE"}
  BY <1>4 DEF DeleteVehicle, CascadeDelete
<1>5. ASSUME Administration
      PROVE  \A a \in Bookings : ~ Stamps(a) /\ eventStatus'[a] \in {eventStatus[a], "NONE"}
  BY <1>5 DEF Administration, CreateSlot, UpdateSlotStatus, RemoveSlot, CascadeDelete
<1> QED
  BY <1>1, <1>2, <1>3, <1>4, <1>5
     DEF Next, Book, BookAssigned, CheckInFirst, FirstVisit, CheckInReturn, ReturnVisit, RemoveVehicle

\* Times are kept for bookings, in order.
Timed == later \subseteq Bookings \X Bookings /\ TimesOrdered

\* The times of a vehicle's events stay in order.
LEMMA TimesStayOrdered ==
  ASSUME TablesTypeOK, Timed, SearchNext
  PROVE  Timed'
<1> USE DEF Timed
<1> DEFINE Keeps(b) == eventStatus'[b] # "NONE" /\ ~ Stamps(b)
<1>1. later' \subseteq Bookings \X Bookings
  BY DEF SearchNext, Stamped
<1>2. \A a, b \in Bookings :
        <<a, b>> \in later' <=>
          \/ <<a, b>> \in later /\ Keeps(a) /\ Keeps(b)
          \/ VehicleOf[a] = VehicleOf[b] /\ Stamps(a) /\ Keeps(b)
  BY DEF SearchNext, Stamped, Stamps
<1>3. \A pair \in later' : \E a, b \in Bookings : pair = <<a, b>>
  BY <1>1
<1>4. \A a \in Bookings : Keeps(a) => eventStatus[a] # "NONE"
  BY OneVisitAtATime, Zenon DEF SearchNext
<1>5. \A a, b \in Bookings : Stamps(a) => eventStatus'[a] # "NONE" /\ (Stamps(b) => a = b)
  BY OneVisitAtATime DEF SearchNext
<1> HIDE DEF Keeps
<1>6. \A a \in Bookings : eventStatus'[a] # "NONE" => Stamps(a) \/ Keeps(a)
  BY DEF Keeps
<1>7. \A a \in Bookings : Keeps(a) => eventStatus'[a] # "NONE" /\ ~ Stamps(a)
  BY DEF Keeps
<1>8. \A pair \in later' :
        /\ VehicleOf[pair[1]] = VehicleOf[pair[2]]
        /\ eventStatus'[pair[1]] # "NONE" /\ eventStatus'[pair[2]] # "NONE"
  <2> SUFFICES ASSUME NEW a \in Bookings, NEW b \in Bookings, <<a, b>> \in later'
               PROVE  /\ VehicleOf[a] = VehicleOf[b]
                      /\ eventStatus'[a] # "NONE" /\ eventStatus'[b] # "NONE"
    BY <1>3
  <2>1. <<a, b>> \in later => VehicleOf[a] = VehicleOf[b]
    BY DEF TimesOrdered
  <2> QED
    BY <1>2, <1>5, <1>7, <2>1
<1>9. \A a, b \in Bookings : ~ (<<a, b>> \in later' /\ <<b, a>> \in later')
  <2>1. \A a, b \in Bookings : ~ (<<a, b>> \in later /\ <<b, a>> \in later)
    BY DEF TimesOrdered
  <2> QED
    BY <1>2, <1>7, <2>1
<1>10. \A a, b \in Bookings :
         a # b /\ VehicleOf[a] = VehicleOf[b] /\ eventStatus'[a] # "NONE" /\ eventStatus'[b] # "NONE"
           => <<a, b>> \in later' \/ <<b, a>> \in later'
  <2>1. \A a, b \in Bookings :
          a # b /\ VehicleOf[a] = VehicleOf[b] /\ eventStatus[a] # "NONE" /\ eventStatus[b] # "NONE"
            => <<a, b>> \in later \/ <<b, a>> \in later
    BY DEF TimesOrdered
  <2> QED
    BY <1>2, <1>4, <1>5, <1>6, <2>1
<1>11. \A a, b, c \in Bookings : <<a, b>> \in later' /\ <<b, c>> \in later' => <<a, c>> \in later'
  <2>1. \A a, b, c \in Bookings : <<a, b>> \in later /\ <<b, c>> \in later => <<a, c>> \in later
    BY DEF TimesOrdered
  <2>2. \A a, b \in Bookings : <<a, b>> \in later => VehicleOf[a] = VehicleOf[b]
    BY DEF TimesOrdered
  <2> QED
    BY <1>2, <1>7, <2>1, <2>2
<1> QED
  BY <1>1, <1>8, <1>9, <1>10, <1>11 DEF TimesOrdered

\* The ledger behind the searches, and the order of the times.
LEMMA SearchedLedger ==
  ASSUME OverrideStatuses \subseteq {"OCCUPIED"}
  PROVE  SearchSpec => [](TablesTypeOK /\ Parked /\ ActiveSessionConfirmed /\ Timed)
<1>1. SearchInit => Timed
  BY DEF SearchInit, Timed
<1>2. TablesTypeOK /\ Timed /\ [SearchNext]_<<rows, later>> => Timed'
  BY TimesStayOrdered DEF Timed, TimesOrdered, rows
<1>3. SearchSpec => Spec
  <2>1. SearchInit => TablesInit
    BY DEF SearchInit
  <2>2. [SearchNext]_<<rows, later>> => [Next]_rows
    BY DEF SearchNext
  <2> QED
    BY <2>1, <2>2, PTL DEF SearchSpec, Spec
<1>4. Spec => []Parked
  BY ParkedAlways
<1>5. Spec => []ActiveSessionConfirmed
  BY LedgerSessionConfirmed
<1> QED
  BY <1>1, <1>2, <1>3, <1>4, <1>5, LedgerTypeCorrect, PTL DEF SearchSpec

\* What the guard is offered, the API does: an offered check-out finds its session
\* and slot, an offered return its free slot, no offer takes a reservation, the
\* searches agree and every parked car is found (SecurityGateService.search).
THEOREM SearchSound ==
  ASSUME OverrideStatuses \subseteq {"OCCUPIED"}
  PROVE  SearchSpec => []GateViewSound
<1> SUFFICES ASSUME TablesTypeOK, Parked, ActiveSessionConfirmed, Timed
             PROVE  GateViewSound
  BY SearchedLedger, PTL
<1> USE DEF TablesTypeOK
<1>1. \A v \in Vehicles : \A o \in resolveVehicleGateAction(v) :
        o.action # "NONE" => o.booking \in Bookings /\ BookingExists(o.booking)
                             /\ resolveBookingGateAction(o.booking) = o
  <2> SUFFICES ASSUME NEW v \in Vehicles, NEW o \in resolveVehicleGateAction(v), o.action # "NONE"
               PROVE  o.booking \in Bookings /\ BookingExists(o.booking)
                      /\ resolveBookingGateAction(o.booking) = o
    OBVIOUS
  <2>1. \/ \E b \in CheckOutOfVehicle(v) : o = Offer("CHECK_OUT", b)
        \/ \E b \in findLatestReturnCheckInSession(v) : o = Offer("CHECK_IN", b)
        \/ \E b \in FirstVisits(v) : o = Offer("CHECK_IN", b)
    <3>1. ASSUME NEW left, o \in {Offer("NONE", b) : b \in left}
          PROVE  FALSE
      BY <3>1 DEF Offer
    <3> QED
      BY <3>1, Zenon DEF resolveVehicleGateAction
  <2>2. ASSUME NEW b \in CheckOutOfVehicle(v), o = Offer("CHECK_OUT", b)
        PROVE  o.booking \in Bookings /\ BookingExists(o.booking)
               /\ resolveBookingGateAction(o.booking) = o
    BY <2>2 DEF CheckOutOfVehicle, Latest, BookingsOf, Offer, resolveBookingGateAction
  <2>3. ASSUME NEW b \in findLatestReturnCheckInSession(v), o = Offer("CHECK_IN", b)
        PROVE  o.booking \in Bookings /\ BookingExists(o.booking)
               /\ resolveBookingGateAction(o.booking) = o
    BY <2>3 DEF findLatestReturnCheckInSession, Latest, BookingsOf, Offer, resolveBookingGateAction,
                buildReturnCheckInResolved
  <2>4. ASSUME NEW b \in FirstVisits(v), o = Offer("CHECK_IN", b)
        PROVE  o.booking \in Bookings /\ BookingExists(o.booking)
               /\ resolveBookingGateAction(o.booking) = o
    BY <2>4 DEF FirstVisits, BookingsOf, Offer, resolveBookingGateAction
  <2> QED
    BY <2>1, <2>2, <2>3, <2>4
<1>2. SearchesAgree
  BY <1>1 DEF SearchesAgree
<1>3. \A o \in Offered : o.action # "NONE" =>
        \E b \in Bookings : BookingExists(b) /\ o = resolveBookingGateAction(b) /\ o.booking = b
  <2>1. \A b \in Bookings : resolveBookingGateAction(b).booking = b
    BY DEF resolveBookingGateAction, Offer
  <2> QED
    BY <1>1, <2>1 DEF Offered
<1>4. ASSUME NEW b \in Bookings, BookingExists(b)
      PROVE  LET o == resolveBookingGateAction(b)
             IN /\ o.action = "CHECK_OUT" => CheckOutSucceeds(b)
                /\ o.action = "CHECK_IN" =>
                     \/ CheckInSucceeds(b)
                     \/ eventStatus[b] = "NONE" /\ slot[bookingSlot[b]] # "RESERVED"
                /\ o.action = "CHECK_IN" /\ slot[bookingSlot[b]] = "RESERVED" => eventStatus[b] = "NONE"
  <2>1. CASE eventStatus[b] = "ACTIVE"
    BY <2>1 DEF resolveBookingGateAction, Offer, CheckOutSucceeds, Parked, ActiveSessionOccupiesSlot
  <2>2. CASE bookingStatus[b] = "CONFIRMED" /\ eventStatus[b] = "NONE"
    BY <2>2 DEF resolveBookingGateAction, Offer, CheckInSucceeds
  <2>3. CASE eventStatus[b] # "ACTIVE" /\ buildReturnCheckInResolved(b)
    BY <2>3 DEF resolveBookingGateAction, Offer, CheckInSucceeds, buildReturnCheckInResolved,
                isSlotReadyForReturnCheckIn
  <2>4. CASE /\ eventStatus[b] # "ACTIVE" /\ ~ buildReturnCheckInResolved(b)
             /\ ~ (bookingStatus[b] = "CONFIRMED" /\ eventStatus[b] = "NONE")
    BY <2>4 DEF resolveBookingGateAction, Offer
  <2> QED
    BY <2>1, <2>2, <2>3, <2>4
<1>5. OffersSucceed
  BY <1>3, <1>4 DEF OffersSucceed
<1>6. OffersKeepReservations
  BY <1>3, <1>4 DEF OffersKeepReservations
<1>7. ParkedCarsFound
  <2> SUFFICES ASSUME NEW b \in Bookings, eventStatus[b] = "ACTIVE"
               PROVE  /\ Offer("CHECK_OUT", b) \in resolvePhoneGateAction(VehicleOf[b])
                      /\ (\A other \in EventsOf(VehicleOf[b]) \ {b} : Later(b, other)) =>
                           resolveVehicleGateAction(VehicleOf[b]) = {Offer("CHECK_OUT", b)}
    BY DEF ParkedCarsFound
  <2>1. b \in BookingsOf(VehicleOf[b]) /\ bookingStatus[b] # "CANCELLED"
    BY DEF ActiveSessionConfirmed, BookingsOf, BookingExists, BookingStatus
  <2>2. Offer("CHECK_OUT", b) \in resolvePhoneGateAction(VehicleOf[b])
    BY <2>1 DEF resolvePhoneGateAction, resolveBookingGateAction
  <2>3. ASSUME \A other \in EventsOf(VehicleOf[b]) \ {b} : Later(b, other)
        PROVE  CheckOutOfVehicle(VehicleOf[b]) = {b}
    <3> DEFINE parked == {e \in BookingsOf(VehicleOf[b]) : eventStatus[e] = "ACTIVE"}
    <3>1. b \in parked
      BY <2>1
    <3>2. \A e \in BookingsOf(VehicleOf[b]) :
            eventStatus[e] # "NONE" /\ e # b => Later(b, e) /\ ~ Later(e, b)
      BY <2>3 DEF EventsOf, BookingsOf, Later, Timed, TimesOrdered
    <3>3. Latest(parked) = {b}
      BY <3>1, <3>2 DEF Latest
    <3>4. \A other \in BookingsOf(VehicleOf[b]) : eventStatus[other] = "COMPLETED" => ~ Later(other, b)
      BY <3>2
    <3> QED
      BY <3>3, <3>4 DEF CheckOutOfVehicle
  <2> QED
    BY <2>2, <2>3 DEF resolveVehicleGateAction
<1> QED
  BY <1>2, <1>5, <1>6, <1>7 DEF GateViewSound

-----------------------------------------------------------------------------
(* The slot map and the cards.                                             *)

\* The newest CONFIRMED booking of a RESERVED slot has not been checked in.
NewestWaits ==
  \A sl \in Slots : slot[sl] = "RESERVED" =>
    \E b \in ConfirmedOn(sl) :
      eventStatus[b] = "NONE" /\ \A other \in ConfirmedOn(sl) \ {b} : <<b, other>> \in newer

\* A slot is RESERVED after a step because a booking was just made on it, or it was
\* before and nothing happened to the bookings on it.
LEMMA ReservedShape ==
  ASSUME TablesTypeOK, Next, OverrideStatuses \subseteq {"OCCUPIED"},
         NEW sl \in Slots, slot'[sl] = "RESERVED"
  PROVE  \/ \E b \in Bookings : InsertBooking(b, sl)
         \/ /\ slot[sl] = "RESERVED"
            /\ \A b \in Bookings :
                 /\ b \in OnSlot(sl)' <=> b \in OnSlot(sl)
                 /\ b \in OnSlot(sl) =>
                      bookingStatus'[b] = bookingStatus[b] /\ eventStatus'[b] = eventStatus[b]
<1> USE DEF TablesTypeOK, OnSlot, BookingExists
<1> DEFINE Same == /\ slot[sl] = "RESERVED"
                   /\ \A b \in Bookings :
                        /\ b \in OnSlot(sl)' <=> b \in OnSlot(sl)
                        /\ b \in OnSlot(sl) =>
                             bookingStatus'[b] = bookingStatus[b] /\ eventStatus'[b] = eventStatus[b]
<1>1. ASSUME NEW b \in Bookings, NEW at \in Slots, at # sl, Book(at, b) \/ BookAssigned(at, b)
      PROVE  Same
  <2>1. slot'[sl] = slot[sl]
    BY <1>1 DEF Book, BookAssigned, reserveSlot, MoveSlot
  <2>2. InsertBooking(b, at)
    BY <1>1 DEF Book, BookAssigned
  <2>3. bookingStatus[b] \notin BookingStatus
    BY <2>2 DEF InsertBooking, BookingStatus
  <2> QED
    BY <1>1, <2>1, <2>2, <2>3 DEF InsertBooking
<1>2. ASSUME NEW b \in Bookings, slot'[sl] = slot[sl], b \notin OnSlot(sl), UNCHANGED bookingSlot,
             \A a \in Bookings \ {b} : bookingStatus'[a] = bookingStatus[a] /\ eventStatus'[a] = eventStatus[a],
             BookingExists(b)
      PROVE  Same
  BY <1>2
<1>3. ASSUME NEW b \in Bookings, Cancel(b) PROVE Same
  <2>1. BookingExists(b) /\ bookingSlot[b] # sl /\ slot'[sl] = slot[sl]
    BY <1>3 DEF Cancel, CancelBooking, releaseReservedSlot, MoveSlot
  <2> QED
    BY <1>2, <1>3, <2>1 DEF Cancel, CancelBooking
<1>4. ASSUME NEW b \in Bookings, CheckInFirst(b) PROVE Same
  <2>1. BookingExists(b) /\ bookingSlot[b] # sl /\ slot'[sl] = slot[sl]
    BY <1>4 DEF CheckInFirst, FirstVisit, occupySlot, MoveSlot
  <2> QED
    BY <1>2, <1>4, <2>1 DEF CheckInFirst, FirstVisit, OpenVisit
<1>5. ASSUME NEW b \in Bookings, CheckInReturn(b) PROVE Same
  <2>1. BookingExists(b)
    BY <1>5 DEF CheckInReturn, BookingStatus
  <2>2. bookingSlot[b] # sl /\ slot'[sl] = slot[sl]
    BY <1>5, <2>1 DEF CheckInReturn, occupyAvailableSlot, occupySlot, MoveSlot
  <2> QED
    BY <1>2, <1>5, <2>1, <2>2 DEF CheckInReturn, ReturnVisit, OpenVisit
<1>6. ASSUME NEW b \in Bookings, CheckOut(b) PROVE Same
  <2>1. BookingExists(b)
    BY <1>6 DEF CheckOut, CloseVisit
  <2>2. bookingSlot[b] # sl /\ slot'[sl] = slot[sl]
    BY <1>6, <2>1 DEF CheckOut, CloseVisit, releaseOccupiedSlot, MoveSlot
  <2> QED
    BY <1>2, <1>6, <2>1, <2>2 DEF CheckOut, CloseVisit
<1>7. ASSUME NEW v, RemoveVehicle(v) PROVE Same
  BY <1>7, UnbookedVehicle DEF RemoveVehicle
<1>8. ASSUME NEW at \in Slots, RemoveSlot(at) PROVE Same
  BY <1>8 DEF RemoveSlot, CascadeDelete
<1>9. ASSUME NEW at \in Slots, CreateSlot(at, "AVAILABLE")
      PROVE  Same
  BY <1>9 DEF CreateSlot
<1>10. ASSUME NEW at \in Slots, CreateSlot(at, "OCCUPIED") \/ UpdateSlotStatus(at, "OCCUPIED")
       PROVE  Same
  BY <1>10 DEF CreateSlot, UpdateSlotStatus
<1>11. ASSUME Administration PROVE Same
  BY <1>8, <1>9, <1>10, <1>11 DEF Administration
<1>12. ASSUME NEW b \in Bookings, Book(sl, b) \/ BookAssigned(sl, b)
       PROVE  InsertBooking(b, sl)
  BY <1>12 DEF Book, BookAssigned
<1> QED
  BY <1>1, <1>3, <1>4, <1>5, <1>6, <1>7, <1>11, <1>12 DEF Next

\* Whoever is newest on a RESERVED slot still waits for it.
LEMMA NewestStaysWaiting ==
  ASSUME TablesTypeOK, NewestWaits, ViewNext, OverrideStatuses \subseteq {"OCCUPIED"}
  PROVE  NewestWaits'
<1> SUFFICES ASSUME NEW sl \in Slots, slot'[sl] = "RESERVED"
             PROVE  \E b \in ConfirmedOn(sl)' :
                      /\ eventStatus'[b] = "NONE"
                      /\ \A other \in ConfirmedOn(sl)' \ {b} : <<b, other>> \in newer'
  BY DEF NewestWaits
<1> USE DEF TablesTypeOK
<1>0. Next
  BY DEF ViewNext, SearchNext
<1>n. \A a, b \in Bookings :
        <<a, b>> \in newer' <=>
          \/ <<a, b>> \in newer /\ BookingExists(a)' /\ BookingExists(b)'
          \/ /\ ~ BookingExists(a) /\ BookingExists(a)' /\ BookingExists(b) /\ BookingExists(b)'
             /\ bookingSlot'[a] = bookingSlot[b]
  BY DEF ViewNext, Created, BookingExists
<1>1. ASSUME NEW b \in Bookings, InsertBooking(b, sl)
      PROVE  /\ b \in ConfirmedOn(sl)' /\ eventStatus'[b] = "NONE"
             /\ \A other \in ConfirmedOn(sl)' \ {b} : <<b, other>> \in newer'
  <2>1. /\ ~ BookingExists(b) /\ BookingExists(b)' /\ b \in ConfirmedOn(sl)' /\ eventStatus'[b] = "NONE"
        /\ bookingSlot'[b] = sl
    BY <1>1 DEF InsertBooking, ConfirmedOn, OnSlot, BookingExists, BookingStatus
  <2>2. \A other \in ConfirmedOn(sl)' \ {b} :
          /\ other \in Bookings /\ BookingExists(other) /\ BookingExists(other)'
          /\ bookingSlot[other] = sl
    BY <1>1 DEF InsertBooking, ConfirmedOn, OnSlot, BookingExists
  <2> QED
    BY <1>n, <2>1, <2>2
<1>2. ASSUME slot[sl] = "RESERVED",
             \A b \in Bookings :
               /\ b \in OnSlot(sl)' <=> b \in OnSlot(sl)
               /\ b \in OnSlot(sl) =>
                    bookingStatus'[b] = bookingStatus[b] /\ eventStatus'[b] = eventStatus[b]
      PROVE  \E b \in ConfirmedOn(sl)' :
               /\ eventStatus'[b] = "NONE"
               /\ \A other \in ConfirmedOn(sl)' \ {b} : <<b, other>> \in newer'
  <2>1. PICK b \in ConfirmedOn(sl) :
          eventStatus[b] = "NONE" /\ \A other \in ConfirmedOn(sl) \ {b} : <<b, other>> \in newer
    BY <1>2 DEF NewestWaits
  <2>2. ConfirmedOn(sl)' = ConfirmedOn(sl)
    BY <1>2 DEF ConfirmedOn, OnSlot
  <2>3. \A a \in ConfirmedOn(sl) : a \in Bookings /\ a \in OnSlot(sl) /\ BookingExists(a)'
    BY <1>2 DEF ConfirmedOn, OnSlot, BookingExists
  <2> QED
    BY <1>2, <1>n, <2>1, <2>2, <2>3
<1> QED
  BY <1>0, <1>1, <1>2, ReservedShape

\* The events that are written are ACTIVE or COMPLETED.
NoCancelledEvent == \A b \in Bookings : eventStatus[b] # "CANCELLED"

\* No handler cancels an event.
LEMMA NoEventCancelled == Spec => []NoCancelledEvent
<1>1. TablesInit => NoCancelledEvent
  BY DEF TablesInit, NoCancelledEvent
<1>2. TablesTypeOK /\ NoCancelledEvent /\ [Next]_rows => NoCancelledEvent'
  <2> SUFFICES ASSUME TablesTypeOK, NoCancelledEvent, Next
               PROVE  NoCancelledEvent'
    BY DEF rows, NoCancelledEvent
  <2> USE DEF TablesTypeOK, NoCancelledEvent
  <2>1. ASSUME NEW b \in Bookings, NEW sl, InsertBooking(b, sl) \/ Cancel(b) \/ OpenVisit(b) \/ CheckOut(b)
        PROVE  NoCancelledEvent'
    BY <2>1 DEF InsertBooking, Cancel, CancelBooking, OpenVisit, CheckOut, CloseVisit
  <2>2. ASSUME NEW v, DeleteVehicle(v)
        PROVE  NoCancelledEvent'
    BY <2>2 DEF DeleteVehicle, CascadeDelete
  <2>3. CASE Administration
    BY <2>3 DEF Administration, CreateSlot, UpdateSlotStatus, RemoveSlot, CascadeDelete
  <2> QED
    BY <2>1, <2>2, <2>3
       DEF Next, Book, BookAssigned, CheckInFirst, FirstVisit, CheckInReturn, ReturnVisit, RemoveVehicle
<1> QED
  BY <1>1, <1>2, LedgerTypeCorrect, PTL DEF Spec

\* The map and the gate go by the same sessions.
LEMMA MapOfParkedCars ==
  ASSUME TablesTypeOK
  PROVE  MapShowsParkedCars
<1> SUFFICES ASSUME NEW b \in Bookings
             PROVE  resolveBookingGateAction(b) = Offer("CHECK_OUT", b) <=>
                      \E sl \in Slots : Shown("OCCUPIED", b) \in buildSlotMapOccupancy(sl)
  BY DEF MapShowsParkedCars
<1>1. resolveBookingGateAction(b) = Offer("CHECK_OUT", b) <=> eventStatus[b] = "ACTIVE"
  BY DEF resolveBookingGateAction, Offer
<1>2. ASSUME eventStatus[b] = "ACTIVE"
      PROVE  bookingSlot[b] \in Slots /\ b \in ActiveOn(bookingSlot[b])
  BY <1>2 DEF TablesTypeOK, ActiveOn, OnSlot, BookingExists
<1>3. ASSUME NEW sl \in Slots
      PROVE  Shown("OCCUPIED", b) \in buildSlotMapOccupancy(sl) <=> b \in ActiveOn(sl)
  BY DEF buildSlotMapOccupancy, Shown
<1>4. ASSUME NEW sl \in Slots, b \in ActiveOn(sl)
      PROVE  eventStatus[b] = "ACTIVE"
  BY <1>4 DEF ActiveOn
<1> QED
  BY <1>1, <1>2, <1>3, <1>4

\* The newest booking, which the map shows, is the one that waits.
LEMMA MapOfReservations ==
  ASSUME TablesTypeOK, Parked, NewestWaits
  PROVE  MapShowsReservations
<1> SUFFICES ASSUME NEW sl \in Slots, slot[sl] = "RESERVED"
             PROVE  \E o \in buildSlotMapOccupancy(sl) :
                      eventStatus[o.booking] = "NONE" /\ CheckInSucceeds(o.booking)
  BY DEF MapShowsReservations
<1>1. PICK b \in ConfirmedOn(sl) :
        eventStatus[b] = "NONE" /\ \A other \in ConfirmedOn(sl) \ {b} : <<b, other>> \in newer
  BY DEF NewestWaits
<1>2. ActiveOn(sl) = {}
  BY DEF ActiveOn, OnSlot, Parked, ActiveSessionOccupiesSlot
<1>3. b \in slotMapBooking(sl)
  BY <1>1 DEF slotMapBooking
<1>4. Shown("RESERVED", b) \in buildSlotMapOccupancy(sl)
  BY <1>2, <1>3 DEF buildSlotMapOccupancy
<1>5. CheckInSucceeds(b)
  BY <1>1 DEF CheckInSucceeds, ConfirmedOn, OnSlot
<1> QED
  BY <1>1, <1>4, <1>5 DEF Shown

\* Sets without a common element are counted one after the other.
LEMMA DisjointUnion ==
  ASSUME NEW S, NEW T, IsFiniteSet(S), IsFiniteSet(T), S \cap T = {}
  PROVE  IsFiniteSet(S \cup T) /\ Cardinality(S \cup T) = Cardinality(S) + Cardinality(T)
<1>1. Cardinality(S) \in Nat /\ Cardinality(T) \in Nat
  BY FS_CardinalityType
<1>2. Cardinality(S \cap T) = 0
  BY FS_EmptySet
<1>3. /\ IsFiniteSet(S \cup T)
      /\ Cardinality(S \cup T) = Cardinality(S) + Cardinality(T) - Cardinality(S \cap T)
  BY FS_Union
<1> QED
  BY <1>1, <1>2, <1>3

SlotsWith(status) == {sl \in Slots : slot[sl] = status}

\* The counts of slots by status, and what the map makes of them.
LEMMA SlotCounts ==
  ASSUME TablesTypeOK, Parked, IsFiniteSet(Slots)
  PROVE  /\ Legend = getSlotStatusCounts
         /\ \A status \in SlotStatus :
              /\ IsFiniteSet(SlotsWith(status))
              /\ getSlotStatusCounts[status] = Cardinality(SlotsWith(status))
              /\ Cardinality(SlotsWith(status)) \in Nat
         /\ availableSlots = Cardinality(SlotsWith("AVAILABLE"))
         /\ totalSlots = Cardinality(SlotsWith("AVAILABLE")) + Cardinality(SlotsWith("RESERVED"))
              + Cardinality(SlotsWith("OCCUPIED")) + Cardinality(SlotsWith("MAINTENANCE"))
<1>1. \A status \in SlotStatus :
        {sl \in Slots : SlotExists(sl) /\ resolveSlotMapDisplayStatus(sl) = status} = SlotsWith(status)
  <2>1. \A sl \in Slots : resolveSlotMapDisplayStatus(sl) = slot[sl]
    BY DEF resolveSlotMapDisplayStatus, ActiveOn, OnSlot, Parked, ActiveSessionOccupiesSlot
  <2> QED
    BY <2>1 DEF SlotExists, SlotsWith
<1>2. Legend = getSlotStatusCounts
  BY <1>1 DEF Legend, getSlotStatusCounts, SlotsWith
<1>3. ASSUME NEW status \in SlotStatus
      PROVE  /\ IsFiniteSet(SlotsWith(status))
             /\ getSlotStatusCounts[status] = Cardinality(SlotsWith(status))
             /\ Cardinality(SlotsWith(status)) \in Nat
  <2>1. SlotsWith(status) \in SUBSET Slots
    BY DEF SlotsWith
  <2>2. IsFiniteSet(SlotsWith(status))
    BY <2>1, FS_Subset
  <2>3. Cardinality(SlotsWith(status)) \in Nat
    BY <2>2, FS_CardinalityType
  <2> QED
    BY <2>2, <2>3 DEF getSlotStatusCounts, SlotsWith
<1>4. availableSlots = Cardinality(SlotsWith("AVAILABLE"))
  BY DEF availableSlots, findAvailableByParkingLot, SlotsWith
<1>5. totalSlots = Cardinality(SlotsWith("AVAILABLE")) + Cardinality(SlotsWith("RESERVED"))
        + Cardinality(SlotsWith("OCCUPIED")) + Cardinality(SlotsWith("MAINTENANCE"))
  <2> DEFINE A == SlotsWith("AVAILABLE")
             R == SlotsWith("RESERVED")
             O == SlotsWith("OCCUPIED")
             M == SlotsWith("MAINTENANCE")
  <2>1. /\ A \cap R = {} /\ (A \cup R) \cap O = {} /\ ((A \cup R) \cup O) \cap M = {}
        /\ {sl \in Slots : SlotExists(sl)} = ((A \cup R) \cup O) \cup M
    BY DEF SlotsWith, SlotExists, SlotStatus
  <2>2. /\ IsFiniteSet(A) /\ IsFiniteSet(R) /\ IsFiniteSet(O) /\ IsFiniteSet(M)
        /\ Cardinality(A) \in Nat /\ Cardinality(R) \in Nat
        /\ Cardinality(O) \in Nat /\ Cardinality(M) \in Nat
    BY <1>3 DEF SlotStatus
  <2> HIDE DEF A, R, O, M
  <2>3. IsFiniteSet(A \cup R) /\ Cardinality(A \cup R) = Cardinality(A) + Cardinality(R)
    BY <2>1, <2>2, DisjointUnion
  <2>4. /\ IsFiniteSet((A \cup R) \cup O)
        /\ Cardinality((A \cup R) \cup O) = Cardinality(A \cup R) + Cardinality(O)
    BY <2>1, <2>2, <2>3, DisjointUnion
  <2>5. Cardinality(((A \cup R) \cup O) \cup M) = Cardinality((A \cup R) \cup O) + Cardinality(M)
    BY <2>1, <2>2, <2>4, DisjointUnion
  <2>6. Cardinality(((A \cup R) \cup O) \cup M)
          = Cardinality(A) + Cardinality(R) + Cardinality(O) + Cardinality(M)
    BY <2>2, <2>3, <2>4, <2>5
  <2> QED
    BY <2>1, <2>6 DEF totalSlots, A, R, O, M
<1> QED
  BY <1>2, <1>3, <1>4, <1>5

\* Cars parked are on different slots, each of them OCCUPIED.
LEMMA NoMoreCarsThanSlots ==
  ASSUME TablesTypeOK, Parked, IsFiniteSet(Slots)
  PROVE  activeParkingEvents <= Cardinality(SlotsWith("OCCUPIED"))
<1> DEFINE parked == {b \in Bookings : eventStatus[b] = "ACTIVE"}
           at == [b \in parked |-> bookingSlot[b]]
<1>1. at \in [parked -> SlotsWith("OCCUPIED")]
  BY DEF TablesTypeOK, Parked, ActiveSessionOccupiesSlot, SlotsWith
<1>2. \A a, b \in parked : at[a] = at[b] => a = b
  BY DEF Parked, OneSessionPerSlot
<1>3. at \in Injection(parked, SlotsWith("OCCUPIED"))
  BY <1>1, <1>2, Fun_IsInj
<1>4. IsFiniteSet(SlotsWith("OCCUPIED"))
  BY SlotCounts DEF SlotStatus
<1>5. Cardinality(parked) <= Cardinality(SlotsWith("OCCUPIED"))
  BY <1>3, <1>4, FS_Injection
<1> QED
  BY <1>5 DEF activeParkingEvents

\* The counts agree.
LEMMA CountsOfSlots ==
  ASSUME TablesTypeOK, Parked, IsFiniteSet(Slots)
  PROVE  CountsAgree
<1>1. /\ getSlotStatusCounts["OCCUPIED"] = Cardinality(SlotsWith("OCCUPIED"))
      /\ getSlotStatusCounts["RESERVED"] = Cardinality(SlotsWith("RESERVED"))
      /\ getSlotStatusCounts["AVAILABLE"] = Cardinality(SlotsWith("AVAILABLE"))
      /\ getSlotStatusCounts["MAINTENANCE"] = Cardinality(SlotsWith("MAINTENANCE"))
      /\ Cardinality(SlotsWith("OCCUPIED")) \in Nat /\ Cardinality(SlotsWith("RESERVED")) \in Nat
      /\ Cardinality(SlotsWith("AVAILABLE")) \in Nat /\ Cardinality(SlotsWith("MAINTENANCE")) \in Nat
  BY SlotCounts DEF SlotStatus
<1>2. getParkingLotSummary.activeEvents <= getParkingLotSummary.slots["OCCUPIED"]
  BY <1>1, NoMoreCarsThanSlots DEF getParkingLotSummary
<1>3. utilizedSlots + availableSlots + getSlotStatusCounts["MAINTENANCE"] = totalSlots
  BY <1>1, SlotCounts DEF utilizedSlots
<1>4. bookable <=> Legend["AVAILABLE"] > 0
  BY <1>1, SlotCounts DEF bookable
<1> QED
  BY <1>2, <1>3, <1>4, SlotCounts DEF CountsAgree

\* What is counted for each vehicle adds up to what is counted for all.
LEMMA TotalOfVehicles ==
  ASSUME IsFiniteSet(Bookings), NEW S \in SUBSET Bookings
  PROVE  Total([v \in Vehicles |-> Cardinality({b \in S : VehicleOf[b] = v})]) = Cardinality(S)
<1> DEFINE own(v) == {b \in S : VehicleOf[b] = v}
           n(v) == Cardinality(own(v))
           pairs == {pair \in Vehicles \X (1 .. Cardinality(Bookings)) : pair[2] <= n(pair[1])}
           nth == [v \in Vehicles |-> CHOOSE f : f \in Bijection(1 .. n(v), own(v))]
           all == [pair \in pairs |-> nth[pair[1]][pair[2]]]
<1>1. Cardinality(Bookings) \in Nat
  BY FS_CardinalityType
<1>2. IsFiniteSet(S)
  BY FS_Subset
<1>3. ASSUME NEW v \in Vehicles
      PROVE  /\ n(v) \in Nat /\ n(v) <= Cardinality(Bookings)
             /\ nth[v] \in Bijection(1 .. n(v), own(v))
  <2>1. own(v) \in SUBSET Bookings
    OBVIOUS
  <2>2. IsFiniteSet(own(v)) /\ n(v) <= Cardinality(Bookings)
    BY <2>1, FS_Subset
  <2>3. n(v) \in Nat /\ ExistsBijection(1 .. n(v), own(v))
    BY <2>2, FS_CardinalityType
  <2> QED
    BY <2>2, <2>3 DEF ExistsBijection
<1>4. ASSUME NEW v \in Vehicles
      PROVE  /\ \A i \in 1 .. n(v) : nth[v][i] \in own(v)
             /\ \A i, j \in 1 .. n(v) : nth[v][i] = nth[v][j] => i = j
             /\ \A b \in own(v) : \E i \in 1 .. n(v) : nth[v][i] = b
  <2> HIDE DEF own, n, nth
  <2> QED
    BY <1>3, Fun_BijectionProperties
<1> HIDE DEF nth, n
<1>5. \A pair \in pairs : pair[1] \in Vehicles /\ pair[2] \in 1 .. n(pair[1]) /\ pair = <<pair[1], pair[2]>>
  BY <1>1, <1>3
<1>6. \A v \in Vehicles : \A i \in 1 .. n(v) : <<v, i>> \in pairs
  <2> SUFFICES ASSUME NEW v \in Vehicles, NEW i \in 1 .. n(v)
               PROVE  <<v, i>> \in pairs
    OBVIOUS
  <2>0. n(v) \in Nat /\ n(v) <= Cardinality(Bookings)
    BY <1>3
  <2>1. i \in 1 .. Cardinality(Bookings) /\ i <= n(v)
    BY <1>1, <2>0
  <2> QED
    BY <2>1
<1>7. all \in [pairs -> S]
  <2>1. \A pair \in pairs : all[pair] \in S
    BY <1>4, <1>5
  <2> QED
    BY <2>1
<1>8. \A p, q \in pairs : all[p] = all[q] => p = q
  <2> SUFFICES ASSUME NEW p \in pairs, NEW q \in pairs, all[p] = all[q]
               PROVE  p = q
    OBVIOUS
  <2>1. nth[p[1]][p[2]] = nth[q[1]][q[2]]
    OBVIOUS
  <2>2. nth[p[1]][p[2]] \in own(p[1]) /\ nth[q[1]][q[2]] \in own(q[1])
    BY <1>4, <1>5
  <2>3. p[1] = q[1]
    BY <2>1, <2>2
  <2>4. p[2] = q[2]
    BY <1>4, <1>5, <2>1, <2>3
  <2> QED
    BY <1>5, <2>3, <2>4
<1>9. \A b \in S : \E pair \in pairs : all[pair] = b
  <2> SUFFICES ASSUME NEW b \in S
               PROVE  \E pair \in pairs : all[pair] = b
    OBVIOUS
  <2>1. VehicleOf[b] \in Vehicles
    BY TablesAssumption
  <2>2. PICK i \in 1 .. n(VehicleOf[b]) : nth[VehicleOf[b]][i] = b
    BY <1>4, <2>1
  <2>3. <<VehicleOf[b], i>> \in pairs
    BY <1>6, <2>1
  <2> QED
    BY <2>2, <2>3
<1> HIDE DEF pairs, all
<1>10. ExistsBijection(S, pairs)
  <2>1. all \in Bijection(pairs, S)
    BY <1>7, <1>8, <1>9, Fun_IsBij
  <2> QED
    BY <2>1, Fun_ExistsBijSymmetric DEF ExistsBijection
<1>11. Cardinality(pairs) = Cardinality(S)
  BY <1>2, <1>10, FS_Bijection
<1>12. Total([v \in Vehicles |-> n(v)]) = Cardinality(pairs)
  BY DEF Total, pairs
<1> QED
  BY <1>11, <1>12 DEF n

\* As many bookings wait as slots are reserved, or more.
LEMMA NoMoreReservationsThanBookings ==
  ASSUME TablesTypeOK, NewestWaits, IsFiniteSet(Bookings)
  PROVE  Cardinality(SlotsWith("RESERVED")) <=
           Cardinality({b \in Bookings : bookingStatus[b] = "CONFIRMED" /\ eventStatus[b] = "NONE"})
<1> DEFINE waiting == {b \in Bookings : bookingStatus[b] = "CONFIRMED" /\ eventStatus[b] = "NONE"}
           owner == [sl \in SlotsWith("RESERVED") |->
                       CHOOSE b \in waiting : bookingSlot[b] = sl]
<1>1. \A sl \in SlotsWith("RESERVED") : \E b \in waiting : bookingSlot[b] = sl
  BY DEF SlotsWith, NewestWaits, ConfirmedOn, OnSlot
<1>2. \A sl \in SlotsWith("RESERVED") : owner[sl] \in waiting /\ bookingSlot[owner[sl]] = sl
  BY <1>1
<1> HIDE DEF waiting, owner
<1>3. owner \in [SlotsWith("RESERVED") -> waiting]
  BY <1>2 DEF owner
<1>4. owner \in Injection(SlotsWith("RESERVED"), waiting)
  BY <1>2, <1>3, Fun_IsInj
<1>5. IsFiniteSet(waiting)
  BY FS_Subset DEF waiting
<1> QED
  BY <1>4, <1>5, FS_Injection DEF waiting

\* Who came and has not left is parked.
LEMMA CameAndLeft ==
  ASSUME TablesTypeOK, NoCancelledEvent, IsFiniteSet(Bookings)
  PROVE  /\ checkInsToday \in Nat /\ checkOutsToday \in Nat
         /\ checkInsToday - checkOutsToday = Events({"ACTIVE"})
<1> DEFINE parked == {b \in Bookings : eventStatus[b] \in {"ACTIVE"}}
           left == {b \in Bookings : eventStatus[b] \in {"COMPLETED"}}
<1>1. IsFiniteSet(parked) /\ IsFiniteSet(left)
  BY FS_Subset
<1>2. {b \in Bookings : eventStatus[b] \in EventStatus} = parked \cup left /\ parked \cap left = {}
  BY DEF TablesTypeOK, NoCancelledEvent, EventStatus
<1>3. checkInsToday = Cardinality(parked \cup left)
  BY <1>2 DEF checkInsToday, Events
<1>4. checkOutsToday = Cardinality(left) /\ Events({"ACTIVE"}) = Cardinality(parked)
  BY DEF checkOutsToday, Events
<1> HIDE DEF parked, left
<1>5. Cardinality(parked) \in Nat /\ Cardinality(left) \in Nat
  BY <1>1, FS_CardinalityType
<1>6. Cardinality(parked \cup left) = Cardinality(parked) + Cardinality(left)
  BY <1>1, <1>2, DisjointUnion
<1> QED
  BY <1>3, <1>4, <1>5, <1>6

\* The customers' sessions are the operators'.
LEMMA CustomersAddUp ==
  ASSUME IsFiniteSet(Bookings)
  PROVE  /\ Total([v \in Vehicles |-> getUserOperatorMetrics(v).active]) = Events({"ACTIVE"})
         /\ Total([v \in Vehicles |-> getUserOperatorMetrics(v).completed]) = Events({"COMPLETED"})
<1>1. ASSUME NEW status
      PROVE  Total([v \in Vehicles |->
                      Cardinality({b \in {a \in Bookings : eventStatus[a] = status} : VehicleOf[b] = v})])
               = Events({status})
  <2>1. {a \in Bookings : eventStatus[a] = status} = {a \in Bookings : eventStatus[a] \in {status}}
    OBVIOUS
  <2> QED
    BY <2>1, TotalOfVehicles DEF Events
<1> QED
  BY <1>1 DEF getUserOperatorMetrics

\* The cards of guards, managers and customers agree.
LEMMA CardsOfAll ==
  ASSUME TablesTypeOK, Parked, NewestWaits, NoCancelledEvent, IsFiniteSet(Slots), IsFiniteSet(Bookings)
  PROVE  CardsAgree
<1> DEFINE guard == buildSecurityHeroKpis(getSecurityOperatorMetrics)
           manager == buildTenantHeroKpis(getTenantOperatorMetrics)
           customers == [v \in Vehicles |-> buildUserHeroKpis(getUserOperatorMetrics(v))]
           waiting == {b \in Bookings : bookingStatus[b] = "CONFIRMED" /\ eventStatus[b] = "NONE"}
           A == Cardinality(SlotsWith("AVAILABLE"))
           R == Cardinality(SlotsWith("RESERVED"))
           O == Cardinality(SlotsWith("OCCUPIED"))
           M == Cardinality(SlotsWith("MAINTENANCE"))
<1>1. /\ guard.checkIns = checkInsToday /\ guard.checkOuts = checkOutsToday
      /\ guard.reservedSlots = getSlotStatusCounts["RESERVED"]
      /\ guard.activeSessions = Events({"ACTIVE"})
  BY DEF buildSecurityHeroKpis, getSecurityOperatorMetrics, getTenantOperatorMetrics
<1>2. /\ manager.activeSessions = Events({"ACTIVE"})
      /\ manager.utilization = <<utilizedSlots, totalSlots>>
  BY DEF buildTenantHeroKpis, getTenantOperatorMetrics
<1>3. getPlatformOperatorMetrics.completed = Events({"COMPLETED"})
  BY DEF getPlatformOperatorMetrics, getTenantOperatorMetrics
<1>4. /\ [v \in Vehicles |-> customers[v].active] = [v \in Vehicles |-> getUserOperatorMetrics(v).active]
      /\ [v \in Vehicles |-> customers[v].completed] = [v \in Vehicles |-> getUserOperatorMetrics(v).completed]
  BY DEF buildUserHeroKpis
<1>5. /\ getSlotStatusCounts["OCCUPIED"] = O /\ getSlotStatusCounts["RESERVED"] = R
      /\ getSlotStatusCounts["MAINTENANCE"] = M /\ availableSlots = A
      /\ A \in Nat /\ R \in Nat /\ O \in Nat /\ M \in Nat /\ totalSlots = A + R + O + M
  BY SlotCounts DEF SlotStatus
<1> HIDE DEF A, R, O, M, guard, manager, customers
<1>6. guard.checkIns - guard.checkOuts = manager.activeSessions
  BY <1>1, <1>2, CameAndLeft
<1>7. guard.reservedSlots <= Cardinality(waiting)
  BY <1>1, <1>5, NoMoreReservationsThanBookings DEF R
<1>8. /\ Total([v \in Vehicles |-> customers[v].active]) = guard.activeSessions
      /\ Total([v \in Vehicles |-> customers[v].completed]) = getPlatformOperatorMetrics.completed
  BY <1>1, <1>3, <1>4, CustomersAddUp
<1>9. manager.utilization[1] = manager.utilization[2] <=>
        ~ bookable /\ getSlotStatusCounts["MAINTENANCE"] = 0
  BY <1>2, <1>5 DEF bookable, utilizedSlots
<1> QED
  BY <1>6, <1>7, <1>8, <1>9 DEF CardsAgree, guard, manager, customers

\* What the slot map, the dashboards' counts and cards and the finder say of a lot fits
\* together and what the gate would do, for any number of slots, bookings and
\* vehicles (slot-map.util.ts, dashboard.service.ts, public-parking-finder.service.ts).
THEOREM ViewsSound ==
  ASSUME OverrideStatuses \subseteq {"OCCUPIED"}, IsFiniteSet(Slots), IsFiniteSet(Bookings)
  PROVE  ViewSpec => []ViewsAgree
<1>1. ViewInit => NewestWaits
  <2> SUFFICES ASSUME TablesInit, NEW sl \in Slots, slot[sl] = "RESERVED"
               PROVE  \E b \in ConfirmedOn(sl) :
                        eventStatus[b] = "NONE"
                        /\ \A other \in ConfirmedOn(sl) \ {b} : <<b, other>> \in newer
    BY DEF ViewInit, SearchInit, NewestWaits
  <2>1. PICK b \in OnSlot(sl) : bookingStatus[b] = "CONFIRMED" /\ eventStatus[b] = "NONE"
    BY TablesInitOwned DEF NoOrphanReservation
  <2>2. \A other \in OnSlot(sl) : other = b
    BY <2>1, TablesAssumption DEF OnSlot, TablesInit
  <2> QED
    BY <2>1, <2>2 DEF ConfirmedOn
<1>2. TablesTypeOK /\ NewestWaits /\ [ViewNext]_<<rows, later, newer>> => NewestWaits'
  BY NewestStaysWaiting DEF NewestWaits, rows, ConfirmedOn, OnSlot, BookingExists
<1>3. ViewSpec => SearchSpec
  <2>1. ViewInit => SearchInit
    BY DEF ViewInit
  <2>2. [ViewNext]_<<rows, later, newer>> => [SearchNext]_<<rows, later>>
    BY DEF ViewNext
  <2> QED
    BY <2>1, <2>2, PTL DEF ViewSpec, SearchSpec
<1>4. SearchSpec => [](TablesTypeOK /\ Parked /\ NoCancelledEvent)
  <2>1. SearchSpec => [](TablesTypeOK /\ Parked /\ ActiveSessionConfirmed /\ Timed)
    BY SearchedLedger
  <2>2. SearchInit => TablesInit
    BY DEF SearchInit
  <2>3. [SearchNext]_<<rows, later>> => [Next]_rows
    BY DEF SearchNext
  <2> QED
    BY <2>1, <2>2, <2>3, NoEventCancelled, PTL DEF SearchSpec, Spec
<1>5. TablesTypeOK /\ Parked /\ NoCancelledEvent /\ NewestWaits => ViewsAgree
  BY MapOfParkedCars, MapOfReservations, CountsOfSlots, CardsOfAll DEF ViewsAgree
<1> QED
  BY <1>1, <1>2, <1>3, <1>4, <1>5, PTL DEF ViewSpec

-----------------------------------------------------------------------------
(* One tab of a browser.                                                   *)

\* While this tab wrote the token last, it has a copy of it; a tab without a token
\* asks for nobody; and as long as no session was signed in on top of another, who
\* is asked for and who is shown is the owner of the token.
SessionInv ==
  /\ storage \in Members \union {Nobody}
  /\ tab \in [token : Members \union {Nobody}, me : Members \union {Nobody},
              list : Members \union {Nobody}, path : {"public", "private"}]
  /\ asking \in [{"me", "list", "login"} -> Members \union {Nobody, NoRequest}]
  /\ heard \in BOOLEAN
  /\ heard => tab.token = storage
  /\ tab.token = Nobody => asking.me = NoRequest
  /\ heard /\ "session" \notin crossed =>
       asking.me \in {NoRequest, storage} /\ tab.me \in {Nobody, storage}

\* Every step of the tab and of other tabs keeps the invariant.
LEMMA SessionStep == SessionInv /\ [SessionNext]_sessionVars => SessionInv'
<1> SUFFICES ASSUME SessionInv, [SessionNext]_sessionVars
             PROVE  SessionInv'
  OBVIOUS
<1> USE SessionAssumption DEF SessionInv
<1>1. ASSUME NEW others \in [{"me", "list", "login"} -> Members \union {Nobody, NoRequest}], logout(others)
      PROVE  SessionInv'
  BY <1>1 DEF logout
<1>2. CASE PressLogout
  BY <1>1, <1>2 DEF PressLogout
<1>3. CASE persistAuth
  <2>1. asking.login \in Members /\ asking.login # Nobody
    BY <1>3 DEF persistAuth
  <2>2. /\ tab' \in [token : Members \union {Nobody}, me : Members \union {Nobody},
                     list : Members \union {Nobody}, path : {"public", "private"}]
        /\ tab'.token = asking.login /\ tab'.me = asking.login /\ storage' = asking.login
        /\ asking' \in [{"me", "list", "login"} -> Members \union {Nobody, NoRequest}]
        /\ asking'.me = asking.me /\ heard' = TRUE
    BY <1>3, <2>1 DEF persistAuth
  <2>3. "session" \notin crossed' => tab.token = Nobody
    BY <1>3 DEF persistAuth
  <2> QED
    BY <2>1, <2>2, <2>3
<1>4. CASE ReloadTab
  BY <1>4 DEF ReloadTab, AppLoaded, NoRequests
<1>5. CASE AskMe
  BY <1>5 DEF AskMe
<1>6. CASE AskList
  BY <1>6 DEF AskList
<1>7. ASSUME NEW user \in Members, handleSubmit(user)
      PROVE  SessionInv'
  BY <1>7 DEF handleSubmit
<1>8. ASSUME NEW user \in Members \union {Nobody}, OtherTab(user)
      PROVE  SessionInv'
  BY <1>8 DEF OtherTab
<1>9. ASSUME NEW path \in {"public", "private"}, Navigate(path)
      PROVE  SessionInv'
  BY <1>9 DEF Navigate
<1>10. ASSUME NEW request \in {"me", "list"}, Answered(request)
       PROVE  SessionInv'
  BY <1>10 DEF Answered
<1>11. ASSUME NEW request \in {"me", "list"}, Unauthorized(request)
       PROVE  SessionInv'
  BY <1>1, <1>11 DEF Unauthorized
<1>12. ASSUME NEW request \in {"me", "list", "login"}, RequestFails(request)
       PROVE  SessionInv'
  BY <1>12 DEF RequestFails
<1>13. CASE UNCHANGED sessionVars
  BY <1>13 DEF sessionVars
<1> QED
  BY <1>2, <1>3, <1>4, <1>5, <1>6, <1>7, <1>8, <1>9, <1>10, <1>11, <1>12, <1>13 DEF SessionNext

\* Whoever was under way before, the tab shows the user its requests are made for
\* (AuthProvider, createApiClient), unless another tab wrote the token or somebody
\* signed in on top of a session.
THEOREM TabShowsOwner == SessionSpec => []MeIsOwner
<1>1. SessionInit => SessionInv
  BY SessionAssumption DEF SessionInit, SessionInv, NoRequests
<1>2. SessionInv => MeIsOwner
  BY DEF SessionInv, MeIsOwner, isAuthenticated
<1> QED
  BY <1>1, <1>2, SessionStep, PTL DEF SessionSpec

-----------------------------------------------------------------------------
(* The guard's page.                                                       *)

Matches == [car : Cars, action : {"CHECK_IN", "CHECK_OUT", "NONE"}]

PageTypes ==
  /\ screen \in [step : {"search", "matches", "result", "success"}, matches : SUBSET Matches,
                 result : Matches \union {NoMatch}, confirmOpen : BOOLEAN,
                 successMessage : {"none", "in", "out"}]
  /\ searching \in [at : {"none", "sent", "answered"}, cars : SUBSET Cars, matches : SUBSET Matches]
  /\ acting \in [at : {"none", "sent", "done", "refused"}, car : Cars \union {NoCar},
                 action : {"CHECK_IN", "CHECK_OUT", "NONE"}]
  /\ atGate \in [Cars -> {"out", "in", "barred"}]
  /\ attended \in Cars \union {NoCar}
  /\ walked \in BOOLEAN

\* The action under way is that of the car attended to, which nobody else moves.
ActionAttended ==
  actionPending =>
    /\ acting.car \in Cars /\ acting.car = attended /\ acting.action # "NONE"
    /\ acting.at = "done" => atGate[attended] = MessageOf[acting.action]

\* A confirmation is open over a car that can be acted on; no search is under way
\* behind it.
ConfirmationOpen ==
  /\ screen.confirmOpen => screen.step = "result" /\ screen.result \in Matches /\ screen.result.action # "NONE"
  /\ searching # NoSearch => screen.step \in {"search", "success"}

\* As long as the guard waits, the car of the action is on the page until the answer
\* has come, and the answer stays true.
GuardWaits ==
  ~ walked =>
    /\ actionPending =>
         screen.step = "result" /\ screen.result = [car |-> acting.car, action |-> acting.action]
    /\ searching # NoSearch => screen.step = "search"
    /\ screen.step = "success" =>
         /\ attended \in Cars /\ atGate[attended] = screen.successMessage
         /\ screen.result \in {NoMatch, [car |-> attended, action |-> "CHECK_IN"]}

GatePageInv == PageTypes /\ ActionAttended /\ ConfirmationOpen /\ GuardWaits

\* A set of one element is not empty.
LEMMA OneIsSome ==
  ASSUME NEW S, Cardinality(S) = 1
  PROVE  S # {}
<1>1. Cardinality({}) = 0
  BY FS_EmptySet
<1> QED
  BY <1>1

\* Every step of page, services and others keeps the invariant.
LEMMA GatePageStep == GatePageInv /\ [GatePageNext]_gatePageVars => GatePageInv'
<1> SUFFICES ASSUME GatePageInv, [GatePageNext]_gatePageVars
             PROVE  GatePageInv'
  OBVIOUS
<1> USE CarsAssumption
    DEF GatePageInv, PageTypes, ActionAttended, ConfirmationOpen, GuardWaits, actionPending
<1>1. ASSUME NEW cars \in SUBSET Cars, handleSearch(cars)
      PROVE  GatePageInv'
  BY <1>1 DEF handleSearch, NoSearch
<1>2. CASE ServeSearch
  <2>1. {[car |-> c, action |-> gateAction[atGate[c]]] : c \in searching.cars} \subseteq Matches
    BY DEF Matches, gateAction
  <2>2. NoSearch.at = "none" /\ searching.at = "sent" /\ searching'.at = "answered"
    BY <1>2 DEF ServeSearch, NoSearch
  <2> QED
    BY <1>2, <2>1, <2>2 DEF ServeSearch
<1>3. CASE ShowMatches
  <2>1. searching # NoSearch /\ ~ screen.confirmOpen /\ screen.step \in {"search", "success"}
    BY <1>3 DEF ShowMatches, NoSearch
  <2>2. ASSUME Cardinality(searching.matches) = 1
        PROVE  (CHOOSE m \in searching.matches : TRUE) \in Matches
    <3>1. searching.matches # {}
      BY ONLY <2>2, OneIsSome
    <3> QED
      BY <3>1
  <2>3. /\ screen'.confirmOpen = FALSE /\ screen'.step \in {"search", "matches", "result"}
        /\ screen' \in [step : {"search", "matches", "result", "success"}, matches : SUBSET Matches,
                        result : Matches \union {NoMatch}, confirmOpen : BOOLEAN,
                        successMessage : {"none", "in", "out"}]
    BY <1>3, <2>1, <2>2 DEF ShowMatches
  <2>4. /\ searching' = NoSearch /\ UNCHANGED <<acting, atGate, attended, walked>>
        /\ ~ walked => ~ actionPending
    BY <1>3, <2>1 DEF ShowMatches
  <2> QED
    BY <2>3, <2>4 DEF NoSearch
<1>4. CASE SearchFails
  BY <1>4 DEF SearchFails, NoSearch
<1>5. ASSUME NEW match, handleSelectMatch(match)
      PROVE  GatePageInv'
  BY <1>5 DEF handleSelectMatch
<1>6. CASE handleReset
  BY <1>6 DEF handleReset, Search
<1>7. CASE onAction
  <2>1. screen.result \in Matches /\ screen.result.action # "NONE" /\ screen.step = "result"
    BY <1>7 DEF onAction, NoMatch
  <2>2. /\ screen'.step = screen.step /\ screen'.result = screen.result
        /\ screen' \in [step : {"search", "matches", "result", "success"}, matches : SUBSET Matches,
                        result : Matches \union {NoMatch}, confirmOpen : BOOLEAN,
                        successMessage : {"none", "in", "out"}]
        /\ UNCHANGED <<searching, acting, atGate, attended, walked>>
    BY <1>7 DEF onAction
  <2> QED
    BY <2>1, <2>2
<1>8. CASE onClose
  BY <1>8 DEF onClose
<1>9. CASE handleConfirmAction
  <2>1. /\ screen.result \in Matches /\ screen.result.action # "NONE" /\ screen.step = "result"
        /\ screen.result = [car |-> screen.result.car, action |-> screen.result.action]
    BY <1>9 DEF handleConfirmAction, Matches
  <2>2. /\ acting' = [at |-> "sent", car |-> screen.result.car, action |-> screen.result.action]
        /\ attended' = screen.result.car /\ UNCHANGED <<screen, searching, atGate, walked>>
    BY <1>9 DEF handleConfirmAction
  <2>3. acting'.at = "sent" /\ acting'.car = screen.result.car /\ acting'.action = screen.result.action
    BY <2>2
  <2> QED
    BY <2>1, <2>2, <2>3 DEF Matches
<1>10. CASE ServeAction
  BY <1>10 DEF ServeAction, MessageOf
<1>11. CASE ActionSucceeds
  <2>1. /\ acting' = NoAction /\ acting'.at = "none" /\ acting'.car = NoCar /\ acting'.action = "NONE"
        /\ UNCHANGED <<searching, atGate, attended, walked>>
    BY <1>11 DEF ActionSucceeds, NoAction
  <2>2. /\ attended \in Cars /\ acting.car = attended /\ acting.action \in {"CHECK_IN", "CHECK_OUT"}
        /\ atGate[attended] = MessageOf[acting.action] /\ MessageOf[acting.action] \in {"in", "out"}
    BY <1>11 DEF ActionSucceeds, MessageOf
  <2>3. /\ screen'.step = "success" /\ screen'.confirmOpen = FALSE
        /\ screen'.successMessage = MessageOf[acting.action]
        /\ screen'.result = IF acting.action = "CHECK_OUT" THEN NoMatch ELSE screen.result
        /\ screen' \in [step : {"search", "matches", "result", "success"}, matches : SUBSET Matches,
                        result : Matches \union {NoMatch}, confirmOpen : BOOLEAN,
                        successMessage : {"none", "in", "out"}]
    BY <1>11, <2>2 DEF ActionSucceeds, succeed
  <2>4. ~ walked => screen'.result \in {NoMatch, [car |-> attended, action |-> "CHECK_IN"]}
    BY <1>11, <2>2, <2>3 DEF ActionSucceeds
  <2>5. walked \/ searching = NoSearch
    BY <1>11 DEF ActionSucceeds
  <2>6. PageTypes'
    BY <2>1, <2>3 DEF NoAction
  <2>7. ~ actionPending' /\ ActionAttended'
    BY <2>1
  <2>8. ConfirmationOpen'
    BY <2>1, <2>3
  <2>9. GuardWaits'
    BY <2>1, <2>2, <2>3, <2>4, <2>5
  <2> QED
    BY <2>6, <2>7, <2>8, <2>9
<1>12. CASE ActionFails
  BY <1>12 DEF ActionFails, NoAction
<1>13. ASSUME NEW car \in Cars, NEW state \in {"out", "in", "barred"}, Elsewhere(car, state)
       PROVE  GatePageInv'
  BY <1>13 DEF Elsewhere
<1>14. CASE UNCHANGED gatePageVars
  BY <1>14 DEF gatePageVars
<1> QED
  BY <1>1, <1>2, <1>3, <1>4, <1>5, <1>6, <1>7, <1>8, <1>9, <1>10, <1>11, <1>12, <1>13, <1>14
     DEF GatePageNext

\* A guard who waits for the answer sees a success only for the car he confirmed, which
\* then is where the message says, and confirms only what is on the page
\* (SecurityGatePage), however many cars and whoever else is at work.
THEOREM GuardIsToldTruth == GatePageSpec => []GuardToldTruth
<1>1. GatePageInit => GatePageInv
  <2> SUFFICES ASSUME GatePageInit
               PROVE  GatePageInv
    OBVIOUS
  <2>1. /\ screen.step = "search" /\ screen.confirmOpen = FALSE /\ acting.at = "none"
        /\ searching = NoSearch /\ attended = NoCar /\ walked = FALSE
    BY DEF GatePageInit, Search, NoAction
  <2>2. PageTypes
    BY DEF GatePageInit, PageTypes, Search, NoSearch, NoAction, NoMatch
  <2> QED
    BY <2>1, <2>2 DEF GatePageInv, ActionAttended, ConfirmationOpen, GuardWaits, actionPending
<1>2. GatePageInv => GuardToldTruth
  BY DEF GatePageInv, ActionAttended, ConfirmationOpen, GuardWaits, GuardToldTruth
<1> QED
  BY <1>1, <1>2, GatePageStep, PTL DEF GatePageSpec

-----------------------------------------------------------------------------
(* Forms.                                                                  *)

\* A form that locks its closing or its fields locks its button as well.
LocksButton(row) ==
  LET buttons == row.buttons
  IN /\ {buttons.locksSubmit, buttons.locksClose, buttons.locksText, buttons.always} \subseteq BOOLEAN
     /\ buttons.locksClose => buttons.locksSubmit /\ ~ buttons.always
     /\ buttons.locksText => buttons.locksSubmit /\ buttons.always

\* A form of which each content is done once.
DoneOnce(row) == row.buttons.locksSubmit /\ ~ staysOpen(row)

\* What the rows of the table have in common.
LEMMA FormsTable ==
  ASSUME NEW f \in DOMAIN Forms
  PROVE  LocksButton(Forms[f]) /\ (f \notin Repeatable => DoneOnce(Forms[f]))
<1> DEFINE Fine(row) == LocksButton(row) /\ DoneOnce(row)
<1> USE DEF LocksButton, DoneOnce, staysOpen, WhenAnswered
<1>1. /\ LocksButton(parkingLotForm)
      /\ LocksButton(floorForm)
      /\ LocksButton(settingsForm)
  BY DEF parkingLotForm, parkingLotButtons, floorForm, floorButtons, settingsForm, settingsFields,
     Buttons, Fields
<1>2. \A closing : Fine(WhenAnswered(Buttons(TRUE, FALSE, closing), "closes"))
                   /\ Fine(WhenAnswered(Buttons(TRUE, TRUE, closing), "closes"))
  BY DEF Buttons
<1>3. \A locksText \in BOOLEAN : Fine(WhenAnswered(Fields(locksText), "refills"))
  BY DEF Fields
<1>4. Fine(WhenAnswered(ConfirmDialog, "closes"))
  BY DEF ConfirmDialog, Buttons
<1>5. Fine(WhenAnswered(mockDialogs, "closes"))
  BY DEF mockDialogs, ConfirmDialog, Buttons
<1> HIDE DEF LocksButton, DoneOnce, staysOpen, WhenAnswered
<1>6. /\ Fine(parkingLotDelete) /\ Fine(deleteTargets) /\ Fine(vehicleDelete) /\ Fine(revokeTarget)
      /\ Fine(gateDelete) /\ Fine(cancelTarget) /\ Fine(actionTarget)
  BY <1>4, <1>5 DEF parkingLotDelete, deleteTargets, vehicleDelete, revokeTarget, gateDelete, cancelTarget,
     actionTarget
<1>7. /\ Fine(slotForm) /\ Fine(bulkForm) /\ Fine(vehicleForm) /\ Fine(rfidForm) /\ Fine(gateForm)
      /\ Fine(bookingForm) /\ Fine(userForm) /\ Fine(securityForm) /\ Fine(careForm)
  BY <1>2 DEF slotForm, slotButtons, bulkForm, bulkButtons, vehicleForm, vehicleButtons, rfidForm, rfidButtons,
     gateForm, gateButtons, bookingForm, bookingButtons, userForm, userButtons, securityForm,
     securityButtons, careForm, careButtons
<1>8. Fine(brandingForm) /\ Fine(messageDraft) /\ Fine(replyDraft)
  BY <1>3 DEF brandingForm, brandingFields, messageDraft, draftFields, replyDraft, replyFields
<1> HIDE DEF Fine
<1>9. \/ f \in {"parkingLot", "floor", "settings"} /\ LocksButton(Forms[f])
      \/ Fine(Forms[f])
  BY <1>1, <1>6, <1>7, <1>8 DEF Forms
<1> QED
  BY <1>9 DEF Fine, Repeatable

FormTypes ==
  /\ form \in DOMAIN Forms
  /\ opened \in Targets \union {NotOpen}
  /\ contents \in Nat /\ content \in 0..contents
  /\ requests \subseteq [nr : 1..MaxRequests, at : {"sent", "answered"}, for : Targets, content : 1..contents]
  /\ served \subseteq 1..contents /\ acknowledged \subseteq 1..contents /\ refused \subseteq 1..contents

\* A content is on its way at most once, and what was carried out is acknowledged,
\* refused, or about to be told.
OnItsWayOnce ==
  /\ this.locksSubmit => \A r, q \in requests : r = q
  /\ form \notin Repeatable =>
       /\ content \notin acknowledged
       /\ \A r \in requests : r.content \notin acknowledged
       /\ \A c \in served :
            c \in acknowledged \union refused \/ \E r \in requests : r.at = "answered" /\ r.content = c

FormInv == FormTypes /\ OnItsWayOnce /\ WaitsForItsAnswer

\* Every step of user, page and service keeps the invariant.
LEMMA FormStep == FormInv /\ [FormNext]_formVars => FormInv'
<1> SUFFICES ASSUME FormInv, [FormNext]_formVars
             PROVE  FormInv'
  OBVIOUS
<1> DEFINE buttons == Forms[form].buttons
<1>0. /\ LocksButton(Forms[form]) /\ (form \notin Repeatable => DoneOnce(Forms[form]))
      /\ this = buttons
  BY FormsTable DEF FormInv, FormTypes, this
<1>t. form' = form => this' = this
  BY DEF this
<1> USE FormsAssumption DEF FormInv, FormTypes, OnItsWayOnce, WaitsForItsAnswer, isPending
<1>1. ASSUME NEW target \in Targets, Select(target)
      PROVE  FormInv'
  BY <1>0, <1>1, <1>t DEF Select, LocksButton
<1>2. ASSUME NEW target \in Targets, openForm(target)
      PROVE  FormInv'
  BY <1>0, <1>2, <1>t DEF openForm, NewContent, LocksButton
<1>3. CASE typeInto
  BY <1>0, <1>3, <1>t DEF typeInto, NewContent
<1>4. CASE closeForm
  BY <1>0, <1>4, <1>t DEF closeForm, LocksButton
<1>5. CASE Submit
  BY <1>0, <1>5, <1>t DEF Submit, submitDisabled, LocksButton, DoneOnce
<1>6. CASE Refill
  BY <1>0, <1>6, <1>t DEF Refill
<1>7. ASSUME NEW r \in requests, ServeRequest(r)
      PROVE  FormInv'
  <2> DEFINE done == [r EXCEPT !.at = "answered"]
  <2>1. /\ done.at = "answered" /\ done.for = r.for /\ done.content = r.content
        /\ done \in [nr : 1..MaxRequests, at : {"sent", "answered"}, for : Targets, content : 1..contents]
    OBVIOUS
  <2> HIDE DEF done
  <2>2. requests' = (requests \ {r}) \union {done} /\ served' = served \union {r.content}
        /\ UNCHANGED <<form, opened, content, contents, acknowledged, refused>>
    BY <1>7 DEF ServeRequest, done
  <2>3. FormTypes'
    <3>1. r.content \in 1..contents
      OBVIOUS
    <3>2. /\ requests' \subseteq [nr : 1..MaxRequests, at : {"sent", "answered"}, for : Targets, content : 1..contents]
          /\ served' \subseteq 1..contents
      BY <2>1, <2>2, <3>1
    <3> QED
      BY <2>2, <3>2
  <2>4. WaitsForItsAnswer'
    BY <2>1, <2>2, <1>t
  <2>5. this.locksSubmit => \A q, p \in requests' : q = p
    BY <2>2
  <2>6. ASSUME form \notin Repeatable
        PROVE  /\ content \notin acknowledged
               /\ \A q \in requests' : q.content \notin acknowledged
               /\ \A c \in served' :
                    c \in acknowledged \union refused \/ \E q \in requests' : q.at = "answered" /\ q.content = c
    <3>1. requests = {r} /\ requests' = {done}
      BY <1>0, <2>2, <2>6 DEF DoneOnce
    <3>2. \A c \in served' : c \in served \/ c = done.content
      BY <2>1, <2>2
    <3>3. r.at = "sent"
      BY <1>7 DEF ServeRequest
    <3> QED
      BY <2>1, <2>6, <3>1, <3>2, <3>3
  <2> QED
    BY <2>2, <2>3, <2>4, <2>5, <2>6, <1>t
<1>8. ASSUME NEW r \in requests, handleSuccess(r)
      PROVE  FormInv'
  <2>1. /\ requests' = requests \ {r} /\ acknowledged' = acknowledged \union {r.content}
        /\ UNCHANGED <<form, contents, served, refused>>
        /\ r.at = "answered"
    BY <1>8 DEF handleSuccess
  <2>2. opened' \in {opened, NotOpen} /\ content' \in {content, 0}
    BY <1>8 DEF handleSuccess
  <2>3. FormTypes'
    <3>1. r.content \in 1..contents
      OBVIOUS
    <3>2. /\ requests' \subseteq [nr : 1..MaxRequests, at : {"sent", "answered"}, for : Targets, content : 1..contents]
          /\ acknowledged' \subseteq 1..contents
      BY <2>1, <3>1
    <3>3. opened' \in Targets \union {NotOpen} /\ content' \in 0..contents
      BY <2>2
    <3> QED
      BY <2>1, <3>2, <3>3
  <2>4. this.locksSubmit => requests' = {}
    BY <2>1
  <2>5. WaitsForItsAnswer'
    BY <1>0, <1>t, <2>1, <2>4 DEF LocksButton
  <2>6. ASSUME form \notin Repeatable
        PROVE  /\ content' \notin acknowledged'
               /\ requests' = {}
               /\ \A c \in served : c \in acknowledged' \union refused
    <3>1. requests = {r} /\ content' = 0 /\ requests' = {}
      BY <1>0, <1>8, <2>1, <2>6 DEF DoneOnce, handleSuccess
    <3>2. content' \notin acknowledged'
      BY <3>1, <2>3
    <3> QED
      BY <2>1, <2>6, <3>1, <3>2
  <2> QED
    BY <2>1, <2>3, <2>4, <2>5, <2>6, <1>t
<1>9. ASSUME NEW r \in requests, handleError(r)
      PROVE  FormInv'
  BY <1>0, <1>9, <1>t DEF handleError, LocksButton, DoneOnce
<1>10. CASE UNCHANGED formVars
  BY <1>10, <1>t DEF formVars
<1> QED
  BY <1>1, <1>2, <1>3, <1>4, <1>5, <1>6, <1>7, <1>8, <1>9, <1>10 DEF FormNext

\* Every form of the frontend keeps the promises of its buttons and handlers: nothing is
\* sent again that was carried out, what is done is not offered again, and a locked
\* form waits for its own answer (isPending, disabled, onSuccess of the pages), for
\* any number of rows and however often it is filled in.
THEOREM FormsStaySound == FormSpec => []FormsSound
<1>1. FormInit => FormInv
  <2> SUFFICES ASSUME FormInit
               PROVE  FormInv
    OBVIOUS
  <2>1. opened \in Targets \union {NotOpen}
    BY DEF FormInit
  <2> QED
    BY <2>1 DEF FormInit, FormInv, FormTypes, OnItsWayOnce, WaitsForItsAnswer
<1>2. FormInv => FormsSound
  <2> SUFFICES ASSUME FormInv
               PROVE  FormsSound
    OBVIOUS
  <2>1. form \notin Repeatable => DoneOnce(Forms[form])
    BY FormsTable DEF FormInv, FormTypes
  <2>2. form \notin Repeatable => \A r, q \in requests : r = q
    BY <2>1 DEF FormInv, OnItsWayOnce, DoneOnce, this
  <2>3. SentOnce
    <3> SUFFICES ASSUME NEW r \in requests, r.at = "sent", r.content \in served, form \notin Repeatable
                 PROVE  r.content \in refused
      BY DEF SentOnce
    <3> QED
      BY <2>2 DEF FormInv, OnItsWayOnce
  <2>4. AnsweredIsGone
    BY DEF FormInv, OnItsWayOnce, AnsweredIsGone
  <2> QED
    BY <2>3, <2>4 DEF FormsSound, FormInv
<1> QED
  BY <1>1, <1>2, FormStep, PTL DEF FormSpec

-----------------------------------------------------------------------------
(* Pay Now.                                                                *)

Statuses == {"INITIATED", "SUCCESS", "FAILED"}
Captured == {"sent", "verified", "refused"}

\* A payment that is under way, as handlePayNow carries it along.
Pay == [nr : Nat, payment : Receipts, at : {"health", "script", "window"} \union Captured,
        mounted : BOOLEAN, overlapped : BOOLEAN]

PaysTyped ==
  /\ pays \subseteq Pay /\ payClicks \in Nat
  /\ \A f \in pays : f.nr \in 1..payClicks
  /\ \A f, g \in pays : f.nr = g.nr => f = g
  /\ settled \in [Receipts -> Statuses] /\ listed \in [Receipts -> Statuses]
  /\ payingPaymentId \in Receipts \union {NoReceipt}
  /\ thanked \subseteq paid /\ thanked \subseteq Receipts

\* What a payment waits for, and what it has behind it.
ScriptKnown ==
  \A f \in pays :
    /\ f.at = "script" => script = "loading"
    /\ f.at \in Captured \union {"window"} => script = "loaded"
    /\ f.at \in Captured => f.payment \in paid
    /\ f.at = "verified" => settled[f.payment] # "INITIATED"

\* Payments that are under way together on a page know of each other.
RivalsKnown ==
  \A f, g \in pays : f.mounted /\ g.mounted /\ f.payment # g.payment => f.overlapped /\ g.overlapped

\* Nothing is started while the service is asked for its health.
CheckedLast ==
  \A f \in pays : f.mounted /\ f.at = "health" =>
    /\ isCheckingPaymentHealth
    /\ \A g \in pays : g.mounted => g.nr <= f.nr

\* A payment that was alone on its page is the one the page names, until the window
\* and then its verification keep the page.
KeepsThePage ==
  \A f \in pays : f.mounted /\ ~ f.overlapped =>
    /\ \/ f.at = "script"
       \/ f.at = "health" /\ script \in {"absent", "loading"}
       => payingPaymentId = f.payment
    /\ f.at \in Captured => verifying = f.nr

\* The list of a payment that is completed was fetched again, or is known not to be.
ThankedIsSettled ==
  \A p \in thanked : settled[p] # "INITIATED" /\ (listed[p] = "INITIATED" => p \in unlisted)

CheckoutInv ==
  /\ PaysTyped /\ ScriptKnown /\ RivalsKnown /\ CheckedLast /\ KeepsThePage
  /\ ThankedIsSettled /\ NeverStuck /\ PaidOnceAtATime

\* One payment goes on, or ends: the others stay as they are.
OneMoves(f, ats) ==
  /\ f \in pays
  /\ \A g \in pays' :
       \/ g \in pays /\ g # f
       \/ /\ g \in Pay /\ g.at \in ats /\ g.nr = f.nr /\ g.payment = f.payment
          /\ g.mounted = f.mounted /\ g.overlapped = f.overlapped
  /\ \A g, h \in pays' : g.nr = h.nr => g = h
  /\ pays \ {f} \subseteq pays'
  /\ ats # {} => \E g \in pays' : g.nr = f.nr /\ g.payment = f.payment /\ g.mounted = f.mounted

LEMMA ItEnds ==
  ASSUME PaysTyped, NEW f \in pays, Ends(f)
  PROVE  OneMoves(f, {}) /\ pays' = pays \ {f}
BY DEF OneMoves, Ends, PaysTyped

LEMMA ItContinues ==
  ASSUME PaysTyped, NEW f \in pays, NEW at \in {"script", "window"} \union Captured, Continues(f, at)
  PROVE  OneMoves(f, {at})
<1> DEFINE g == [f EXCEPT !.at = at]
<1>1. /\ g \in Pay /\ g.at = at /\ g.nr = f.nr /\ g.payment = f.payment
      /\ g.mounted = f.mounted /\ g.overlapped = f.overlapped
  BY DEF Pay, PaysTyped
<1> HIDE DEF g
<1>2. pays' = (pays \ {f}) \union {g}
  BY DEF Continues, g
<1>3. \A h, k \in pays' : h.nr = k.nr => h = k
  BY <1>1, <1>2 DEF PaysTyped
<1> QED
  BY <1>1, <1>2, <1>3 DEF OneMoves

\* What a payment that goes on or ends keeps of the invariant by itself.
LEMMA OthersKeep ==
  ASSUME CheckoutInv, NEW f, NEW ats, OneMoves(f, ats), UNCHANGED payClicks
  PROVE  /\ pays' \subseteq Pay /\ RivalsKnown' /\ PaidOnceAtATime'
         /\ \A g \in pays' : g.nr \in 1..payClicks
         /\ \A g, h \in pays' : g.nr = h.nr => g = h
<1> USE DEF CheckoutInv, OneMoves, PaysTyped
<1>1. RivalsKnown'
  BY DEF RivalsKnown
<1>2. PaidOnceAtATime'
  BY DEF PaidOnceAtATime
<1> QED
  BY <1>1, <1>2

\* Pay Now is pressed.
LEMMA PressedOnce ==
  ASSUME CheckoutInv, NEW p \in Receipts, handlePayNow(p)
  PROVE  CheckoutInv'
<1> DEFINE rivals == {f \in pays : f.mounted /\ f.payment # p}
           Overlapped(f) == [f EXCEPT !.overlapped = TRUE]
           started == [nr |-> payClicks + 1, payment |-> p, at |-> "health",
                       mounted |-> TRUE, overlapped |-> rivals # {}]
<1>1. /\ pays' = (pays \ rivals) \union {Overlapped(f) : f \in rivals} \union {started}
      /\ payClicks' = payClicks + 1 /\ payingPaymentId' = p /\ isCheckingPaymentHealth' = TRUE
      /\ UNCHANGED <<settled, paid, declined, listed, verifying, script, thanked, unlisted>>
  BY DEF handlePayNow
<1>2. /\ payingPaymentId # p /\ ~ isCheckingPaymentHealth
      /\ \A f \in pays : f.nr # verifying /\ f.at # "window"
  BY DEF handlePayNow, PayNowOffered, payNowEnabled, verifyIsPending, windowOpen
<1>3. /\ started \in Pay /\ started.nr = payClicks + 1 /\ started.payment = p /\ started.at = "health"
      /\ started.mounted /\ (~ started.overlapped => rivals = {})
  <2>1. payClicks + 1 \in Nat /\ (rivals # {}) \in BOOLEAN
    BY DEF CheckoutInv, PaysTyped
  <2> QED
    BY <2>1 DEF Pay
<1>4. \A f \in rivals : /\ Overlapped(f) \in Pay /\ Overlapped(f).overlapped
                        /\ Overlapped(f).nr = f.nr /\ Overlapped(f).payment = f.payment
                        /\ Overlapped(f).at = f.at /\ Overlapped(f).mounted = f.mounted
  BY DEF CheckoutInv, PaysTyped, Pay
<1> HIDE DEF started, Overlapped
<1>5. ASSUME NEW g \in pays'
      PROVE  \/ g = started
             \/ /\ \E f \in pays : /\ g.nr = f.nr /\ g.payment = f.payment /\ g.at = f.at /\ g.mounted = f.mounted
                                   /\ ~ g.overlapped => g = f
                /\ g.mounted /\ g.payment # p => g.overlapped
                /\ g.mounted /\ g.payment # p => rivals # {}
                /\ g \in Pay
  BY <1>1, <1>4 DEF CheckoutInv, PaysTyped
<1>6. PaysTyped'
  <2>1. pays' \subseteq Pay
    BY <1>3, <1>5
  <2>2. \A g \in pays' : g.nr \in 1..payClicks'
    BY <1>1, <1>3, <1>5 DEF CheckoutInv, PaysTyped
  <2>3. \A g, h \in pays' : g.nr = h.nr => g = h
    <3> SUFFICES ASSUME NEW g \in pays', NEW h \in pays', g.nr = h.nr
                 PROVE  g = h
      OBVIOUS
    <3>1. \A f \in pays : f.nr # started.nr
      BY <1>3 DEF CheckoutInv, PaysTyped
    <3>2. CASE g = started \/ h = started
      BY <1>5, <3>1, <3>2
    <3>3. CASE g # started /\ h # started
      <4>1. PICK f \in pays : g.nr = f.nr /\ ((g = f /\ f \notin rivals) \/ (g = Overlapped(f) /\ f \in rivals))
        BY <1>1, <1>4, <3>3
      <4>2. PICK k \in pays : h.nr = k.nr /\ ((h = k /\ k \notin rivals) \/ (h = Overlapped(k) /\ k \in rivals))
        BY <1>1, <1>4, <3>3
      <4>3. f = k
        BY <4>1, <4>2 DEF CheckoutInv, PaysTyped
      <4> QED
        BY <4>1, <4>2, <4>3
    <3> QED
      BY <3>2, <3>3
  <2>4. payClicks' \in Nat
    BY <1>1 DEF CheckoutInv, PaysTyped
  <2> QED
    BY <1>1, <2>1, <2>2, <2>3, <2>4 DEF CheckoutInv, PaysTyped
<1>7. ScriptKnown'
  BY <1>1, <1>3, <1>5 DEF CheckoutInv, ScriptKnown, Captured
<1>8. RivalsKnown'
  <2> SUFFICES ASSUME NEW g \in pays', NEW h \in pays', g.mounted, h.mounted, g.payment # h.payment
               PROVE  g.overlapped
    BY DEF RivalsKnown
  <2>1. CASE g = started
    BY <1>3, <1>5, <2>1
  <2>2. CASE g # started /\ h = started
    BY <1>3, <1>5, <2>2
  <2>3. CASE g # started /\ h # started
    BY <1>5, <2>3 DEF CheckoutInv, RivalsKnown
  <2> QED
    BY <2>1, <2>2, <2>3
<1>9. \A f \in pays : f.mounted => f.at # "health"
  BY <1>2 DEF CheckoutInv, CheckedLast
<1>10. CheckedLast'
  <2> SUFFICES ASSUME NEW f \in pays', f.mounted, f.at = "health"
               PROVE  \A g \in pays' : g.nr <= f.nr
    BY <1>1 DEF CheckedLast
  <2>1. f = started
    BY <1>5, <1>9
  <2> QED
    BY <1>3, <1>6, <2>1, <1>1 DEF PaysTyped, CheckoutInv
<1>11. KeepsThePage'
  BY <1>1, <1>2, <1>3, <1>5, <1>9 DEF CheckoutInv, KeepsThePage, Captured
<1>12. NeverStuck'
  <2>1. started \in pays'
    BY <1>1
  <2> QED
    BY <1>1, <1>3, <2>1 DEF NeverStuck
<1>13. \A f \in pays : f.mounted /\ f.payment = p => f.overlapped
  BY <1>2, <1>9 DEF CheckoutInv, PaysTyped, Pay, KeepsThePage, Captured
<1>14. PaidOnceAtATime'
  <2> SUFFICES ASSUME NEW f \in pays', NEW g \in pays', f.mounted, g.mounted, f.payment = g.payment, f.nr < g.nr
               PROVE  f.overlapped
    BY DEF PaidOnceAtATime
  <2>1. f # started
    BY <1>1, <1>3, <1>6 DEF PaysTyped, CheckoutInv
  <2>2. CASE g = started
    BY <1>3, <1>5, <1>13, <2>1, <2>2 DEF CheckoutInv, PaysTyped, Pay
  <2>3. CASE g # started
    BY <1>5, <2>1, <2>3 DEF CheckoutInv, PaidOnceAtATime
  <2> QED
    BY <2>2, <2>3
<1>15. ThankedIsSettled'
  BY <1>1 DEF CheckoutInv, ThankedIsSettled
<1> QED
  BY <1>6, <1>7, <1>8, <1>10, <1>11, <1>12, <1>14, <1>15 DEF CheckoutInv

\* The health check of a payment answers.
LEMMA HealthKeeps ==
  ASSUME CheckoutInv, NEW f \in pays, HealthChecked(f)
  PROVE  CheckoutInv'
<1> USE DEF CheckoutInv
<1>1. /\ f.at = "health" /\ isCheckingPaymentHealth' = (isCheckingPaymentHealth /\ ~ f.mounted)
      /\ UNCHANGED <<settled, paid, declined, listed, payClicks, verifying, thanked, unlisted>>
  BY DEF HealthChecked
<1>2. PICK ats :
        /\ OneMoves(f, ats)
        /\ \/ ats = {} /\ stopsPaying(f) /\ UNCHANGED script
           \/ ats = {"window"} /\ script = "loaded" /\ UNCHANGED <<payingPaymentId, script>>
           \/ ats = {"script"} /\ script \in {"absent", "loading"} /\ script' = "loading" /\ UNCHANGED payingPaymentId
  BY ItEnds, ItContinues DEF HealthChecked
<1>3. /\ pays' \subseteq Pay /\ RivalsKnown' /\ PaidOnceAtATime'
      /\ \A g \in pays' : g.nr \in 1..payClicks
      /\ \A g, h \in pays' : g.nr = h.nr => g = h
  BY <1>1, <1>2, OthersKeep
<1>4. payingPaymentId' \in {payingPaymentId, NoReceipt} /\ (~ f.mounted => payingPaymentId' = payingPaymentId)
  BY <1>2 DEF stopsPaying, setPayingPaymentId
<1>5. PaysTyped'
  BY <1>1, <1>3, <1>4 DEF PaysTyped
<1>6. \A g \in pays' : g \in pays \/ g.at \in {"window", "script"}
  BY <1>2 DEF OneMoves
<1>7. ScriptKnown'
  BY <1>1, <1>2 DEF OneMoves, ScriptKnown, Captured
<1>8. CheckedLast'
  <2> SUFFICES ASSUME NEW g \in pays', g.mounted, g.at = "health"
               PROVE  isCheckingPaymentHealth' /\ \A h \in pays' : h.mounted => h.nr <= g.nr
    BY DEF CheckedLast
  <2>1. g \in pays /\ g # f
    BY <1>2 DEF OneMoves
  <2>2. ~ f.mounted
    BY <1>1, <2>1 DEF CheckedLast, PaysTyped
  <2> QED
    BY <1>1, <1>2, <2>1, <2>2 DEF CheckedLast, OneMoves
<1>9. KeepsThePage'
  <2> SUFFICES ASSUME NEW g \in pays', g.mounted, ~ g.overlapped
               PROVE  /\ \/ g.at = "script"
                         \/ g.at = "health" /\ script' \in {"absent", "loading"}
                         => payingPaymentId' = g.payment
                      /\ g.at \in Captured => verifying' = g.nr
    BY DEF KeepsThePage
  <2>1. CASE g \in pays /\ g # f
    <3>1. f.mounted => f.payment = g.payment
      BY <2>1 DEF RivalsKnown
    <3>2. f.mounted => g.nr <= f.nr /\ g.nr # f.nr
      BY <1>1, <2>1 DEF CheckedLast, PaysTyped
    <3>3. ~ f.mounted
      BY <2>1, <3>1, <3>2 DEF PaidOnceAtATime, PaysTyped
    <3> QED
      BY <1>1, <1>2, <1>4, <2>1, <3>3 DEF KeepsThePage, ScriptKnown
  <2>2. CASE ~ (g \in pays /\ g # f)
    <3>1. g.payment = f.payment /\ f.mounted /\ ~ f.overlapped /\ g.at \in ats
      BY <1>2, <2>2 DEF OneMoves
    <3> QED
      BY <1>1, <1>2, <3>1 DEF KeepsThePage, Captured
  <2> QED
    BY <2>1, <2>2
<1>10. NeverStuck'
  BY <1>1, <1>2 DEF NeverStuck, OneMoves, stopsPaying, setPayingPaymentId
<1>11. ThankedIsSettled'
  BY <1>1 DEF ThankedIsSettled
<1> QED
  BY <1>3, <1>5, <1>7, <1>8, <1>9, <1>10, <1>11

\* What is done in the window, and what the service and the page do with it.
LEMMA WindowKeeps ==
  ASSUME CheckoutInv, NEW f \in pays,
         CustomerPays(f) \/ ondismiss(f) \/ ServeVerification(f) \/ verificationSucceeds(f) \/ verificationFails(f)
  PROVE  CheckoutInv'
<1> USE DEF CheckoutInv
<1>1. /\ f.at \in Captured \union {"window"}
      /\ UNCHANGED <<payClicks, isCheckingPaymentHealth, script, declined>>
      /\ paid \subseteq paid'
  BY DEF CustomerPays, ondismiss, ServeVerification, verificationSucceeds, verificationFails, Captured
<1>2. PICK ats \in SUBSET Captured :
        /\ OneMoves(f, ats)
        /\ \/ ats = {} /\ stopsPaying(f) /\ UNCHANGED verifying
           \/ /\ f.at = "window" /\ f.payment \notin paid /\ ats = {"sent"} /\ UNCHANGED payingPaymentId
              /\ f.payment \in paid' /\ verifying' = IF f.mounted THEN f.nr ELSE verifying
           \/ /\ f.at = "sent" /\ ats \subseteq {"verified", "refused"} /\ ats # {}
              /\ UNCHANGED <<payingPaymentId, verifying>>
              /\ settled'[f.payment] # "INITIATED"
  <2>1. CASE CustomerPays(f)
    <3>1. OneMoves(f, {"sent"})
      BY <2>1, ItContinues DEF CustomerPays, Captured
    <3> QED
      BY <2>1, <3>1 DEF CustomerPays, Captured
  <2>2. CASE ondismiss(f) \/ verificationSucceeds(f) \/ verificationFails(f)
    <3>1. OneMoves(f, {})
      BY <2>2, ItEnds DEF ondismiss, verificationSucceeds, verificationFails
    <3> QED
      BY <2>2, <3>1 DEF ondismiss, verificationSucceeds, verificationFails
  <2>3. CASE ServeVerification(f)
    <3>1. OneMoves(f, {"verified"}) \/ OneMoves(f, {"refused"})
      BY <2>3, ItContinues DEF ServeVerification, Captured
    <3>2. settled'[f.payment] # "INITIATED"
      BY <2>3 DEF ServeVerification, PaysTyped, Pay
    <3> QED
      BY <2>3, <3>1, <3>2 DEF ServeVerification, Captured
  <2> QED
    BY <2>1, <2>2, <2>3
<1>3. /\ pays' \subseteq Pay /\ RivalsKnown' /\ PaidOnceAtATime'
      /\ \A g \in pays' : g.nr \in 1..payClicks
      /\ \A g, h \in pays' : g.nr = h.nr => g = h
  BY <1>1, <1>2, OthersKeep
<1>4. /\ settled' \in [Receipts -> Statuses] /\ listed' \in [Receipts -> Statuses]
      /\ \A p \in Receipts : settled[p] # "INITIATED" => settled'[p] # "INITIATED"
      /\ thanked' \subseteq thanked \union {f.payment}
      /\ thanked' # thanked => f.at = "verified"
  BY DEF CustomerPays, ondismiss, ServeVerification, verificationSucceeds, verificationFails,
         fetchListAgain, PaysTyped, Pay, Statuses
<1>5. payingPaymentId' \in {payingPaymentId, NoReceipt}
  BY <1>2 DEF stopsPaying, setPayingPaymentId
<1>6. thanked' \subseteq paid' /\ thanked' \subseteq Receipts
  BY <1>1, <1>4 DEF PaysTyped, ScriptKnown, Captured, Pay
<1>7. PaysTyped'
  BY <1>1, <1>3, <1>4, <1>5, <1>6 DEF PaysTyped
<1>8. ScriptKnown'
  <2> SUFFICES ASSUME NEW g \in pays'
               PROVE  /\ g.at = "script" => script' = "loading"
                      /\ g.at \in Captured \union {"window"} => script' = "loaded"
                      /\ g.at \in Captured => g.payment \in paid'
                      /\ g.at = "verified" => settled'[g.payment] # "INITIATED"
    BY DEF ScriptKnown
  <2>1. CASE g \in pays /\ g # f
    BY <1>1, <1>4, <2>1 DEF ScriptKnown, PaysTyped, Pay
  <2>2. CASE ~ (g \in pays /\ g # f)
    <3>1. g.payment = f.payment /\ g.at \in ats
      BY <1>2, <2>2 DEF OneMoves
    <3> QED
      BY <1>1, <1>2, <3>1 DEF ScriptKnown, Captured
  <2> QED
    BY <2>1, <2>2
<1>9. CheckedLast'
  BY <1>1, <1>2 DEF CheckedLast, OneMoves, Captured
<1>10. script = "loaded"
  BY <1>1 DEF ScriptKnown
<1>11. KeepsThePage'
  <2> SUFFICES ASSUME NEW g \in pays', g.mounted, ~ g.overlapped
               PROVE  /\ g.at # "script" /\ script' = "loaded"
                      /\ g.at \in Captured => verifying' = g.nr
    BY DEF KeepsThePage
  <2>1. g.at # "script"
    BY <1>1, <1>7, <1>8, <1>10 DEF ScriptKnown
  <2>2. CASE g \in pays /\ g # f
    <3>1. verifying' # verifying => f.mounted /\ f.payment \notin paid
      BY <1>2
    <3>2. f.mounted => f.payment = g.payment
      BY <2>2 DEF RivalsKnown
    <3> QED
      BY <1>1, <1>10, <2>1, <2>2, <3>1, <3>2 DEF KeepsThePage, ScriptKnown
  <2>3. CASE ~ (g \in pays /\ g # f)
    <3>1. g.nr = f.nr /\ f.mounted /\ ~ f.overlapped /\ g.at \in ats
      BY <1>2, <2>3 DEF OneMoves
    <3>2. CASE f.at = "window"
      BY <1>1, <1>2, <1>10, <2>1, <3>1, <3>2
    <3>3. CASE f.at # "window"
      BY <1>1, <1>2, <1>10, <2>1, <3>1, <3>3 DEF KeepsThePage, Captured
    <3> QED
      BY <3>2, <3>3
  <2> QED
    BY <2>2, <2>3
<1>12. NeverStuck'
  <2>1. payingPaymentId' # NoReceipt => \E g \in pays' : g.mounted /\ g.payment = payingPaymentId'
    BY <1>2 DEF NeverStuck, OneMoves, stopsPaying, setPayingPaymentId
  <2>2. isCheckingPaymentHealth' => \E g \in pays' : g.mounted /\ g.at = "health"
    BY <1>1, <1>2 DEF NeverStuck, OneMoves, Captured
  <2> QED
    BY <2>1, <2>2 DEF NeverStuck
<1>13. ThankedIsSettled'
  <2>1. \A p \in thanked' : settled'[p] # "INITIATED"
    BY <1>4, <1>6 DEF ThankedIsSettled, ScriptKnown, PaysTyped, Pay
  <2>2. \/ UNCHANGED <<listed, thanked, unlisted>>
        \/ listed' = settled' /\ UNCHANGED unlisted
        \/ UNCHANGED listed /\ unlisted' = unlisted \union {f.payment}
    BY DEF CustomerPays, ondismiss, ServeVerification, verificationSucceeds, verificationFails, fetchListAgain
  <2> QED
    BY <1>4, <2>1, <2>2 DEF ThankedIsSettled
<1> QED
  BY <1>3, <1>7, <1>8, <1>9, <1>11, <1>12, <1>13

\* What the provider, the service and the tab do by themselves.
LEMMA RestKeeps ==
  ASSUME CheckoutInv,
         \/ \E f \in pays : AttemptDeclined(f)
         \/ \E p \in Receipts : WebhookSettles(p)
         \/ ScriptArrives \/ ScriptFails \/ ListFetched \/ LeavePayments \/ ReloadPayments
         \/ UNCHANGED checkoutVars
  PROVE  CheckoutInv'
<1> USE DEF CheckoutInv
<1> DEFINE Parts == /\ PaysTyped /\ ScriptKnown /\ RivalsKnown /\ CheckedLast /\ KeepsThePage
                    /\ ThankedIsSettled /\ NeverStuck /\ PaidOnceAtATime
<1>1. ASSUME NEW f \in pays, AttemptDeclined(f)
      PROVE  Parts'
  BY <1>1 DEF AttemptDeclined, PaysTyped, ScriptKnown, RivalsKnown, CheckedLast, KeepsThePage,
              ThankedIsSettled, NeverStuck, PaidOnceAtATime
<1>2. ASSUME NEW p \in Receipts, WebhookSettles(p)
      PROVE  Parts'
  <2>1. /\ settled' \in [Receipts -> Statuses]
        /\ \A q \in Receipts : settled[q] # "INITIATED" => settled'[q] # "INITIATED"
    BY <1>2 DEF WebhookSettles, PaysTyped, Statuses
  <2>2. UNCHANGED <<paid, declined, listed, pays, payClicks, payingPaymentId, isCheckingPaymentHealth,
                    verifying, script, thanked, unlisted>>
    BY <1>2 DEF WebhookSettles
  <2>3. ScriptKnown' /\ ThankedIsSettled'
    BY <2>1, <2>2 DEF ScriptKnown, ThankedIsSettled, PaysTyped, Pay
  <2> QED
    BY <2>1, <2>2, <2>3 DEF PaysTyped, RivalsKnown, CheckedLast, KeepsThePage, NeverStuck, PaidOnceAtATime
<1>3. CASE ScriptArrives
  <2> DEFINE Loaded(f) == IF f.at = "script" THEN [f EXCEPT !.at = "window"] ELSE f
  <2>1. /\ script = "loading" /\ script' = "loaded" /\ pays' = {Loaded(f) : f \in pays}
        /\ UNCHANGED <<settled, paid, declined, listed, payClicks, payingPaymentId, isCheckingPaymentHealth,
                       verifying, thanked, unlisted>>
    BY <1>3 DEF ScriptArrives
  <2>2. \A f \in pays : /\ Loaded(f) \in Pay /\ Loaded(f).nr = f.nr /\ Loaded(f).payment = f.payment
                        /\ Loaded(f).mounted = f.mounted /\ Loaded(f).overlapped = f.overlapped
                        /\ Loaded(f).at = (IF f.at = "script" THEN "window" ELSE f.at)
    BY DEF PaysTyped, Pay
  <2> HIDE DEF Loaded
  <2>3. \A g \in pays' : \E f \in pays : g = Loaded(f)
    BY <2>1
  <2>4. PaysTyped'
    BY <2>1, <2>2, <2>3 DEF PaysTyped
  <2>5. ScriptKnown' /\ RivalsKnown'
    BY <2>1, <2>2, <2>3 DEF ScriptKnown, RivalsKnown, Captured
  <2>6. CheckedLast'
    BY <2>1, <2>2, <2>3 DEF CheckedLast
  <2>7. KeepsThePage'
    BY <2>1, <2>2, <2>3 DEF KeepsThePage, Captured
  <2>8. ThankedIsSettled'
    BY <2>1 DEF ThankedIsSettled
  <2>9. PaidOnceAtATime'
    BY <2>1, <2>2, <2>3 DEF PaidOnceAtATime
  <2>10. NeverStuck'
    BY <2>1, <2>2 DEF NeverStuck
  <2> QED
    BY <2>4, <2>5, <2>6, <2>7, <2>8, <2>9, <2>10
<1>4. CASE ScriptFails
  <2>1. /\ pays' \subseteq pays /\ \A f \in pays : f.at # "script" => f \in pays'
        /\ \A f \in pays' : f.at # "script"
        /\ script' = "failed"
        /\ payingPaymentId' = IF \E f \in pays : f.at = "script" /\ f.mounted THEN NoReceipt ELSE payingPaymentId
        /\ UNCHANGED <<settled, paid, declined, listed, payClicks, isCheckingPaymentHealth, verifying,
                       thanked, unlisted>>
    BY <1>4 DEF ScriptFails
  <2>2. script = "loading"
    BY <1>4 DEF ScriptFails
  <2>3. PaysTyped' /\ ScriptKnown'
    BY <2>1, <2>2 DEF PaysTyped, ScriptKnown
  <2>4. RivalsKnown' /\ CheckedLast' /\ ThankedIsSettled' /\ PaidOnceAtATime'
    BY <2>1 DEF RivalsKnown, CheckedLast, ThankedIsSettled, PaidOnceAtATime
  <2>5. KeepsThePage'
    BY <2>1 DEF KeepsThePage
  <2>6. NeverStuck'
    BY <2>1 DEF NeverStuck
  <2> QED
    BY <2>3, <2>4, <2>5, <2>6
<1>5. CASE ListFetched
  BY <1>5 DEF ListFetched, PaysTyped, ScriptKnown, RivalsKnown, CheckedLast, KeepsThePage,
              ThankedIsSettled, NeverStuck, PaidOnceAtATime
<1>6. CASE LeavePayments
  <2> DEFINE Left(f) == [f EXCEPT !.mounted = FALSE]
  <2>1. /\ pays' = {Left(f) : f \in pays}
        /\ payingPaymentId' = NoReceipt /\ isCheckingPaymentHealth' = FALSE
        /\ UNCHANGED <<settled, paid, declined, listed, payClicks, script, thanked, unlisted>>
    BY <1>6 DEF LeavePayments
  <2>2. \A f \in pays : /\ Left(f) \in Pay /\ Left(f).nr = f.nr /\ Left(f).payment = f.payment
                        /\ ~ Left(f).mounted /\ Left(f).at = f.at
    BY DEF PaysTyped, Pay
  <2> HIDE DEF Left
  <2>3. \A g \in pays' : \E f \in pays : g = Left(f)
    BY <2>1
  <2>4. PaysTyped' /\ ScriptKnown'
    BY <2>1, <2>2, <2>3 DEF PaysTyped, ScriptKnown
  <2>5. \A g \in pays' : ~ g.mounted
    BY <2>2, <2>3
  <2> QED
    BY <2>1, <2>4, <2>5 DEF RivalsKnown, CheckedLast, KeepsThePage, ThankedIsSettled, NeverStuck, PaidOnceAtATime
<1>7. CASE ReloadPayments
  BY <1>7 DEF ReloadPayments, PaysTyped, ScriptKnown, RivalsKnown, CheckedLast, KeepsThePage,
              ThankedIsSettled, NeverStuck, PaidOnceAtATime
<1>8. CASE UNCHANGED checkoutVars
  BY <1>8 DEF checkoutVars, PaysTyped, ScriptKnown, RivalsKnown, CheckedLast, KeepsThePage,
              ThankedIsSettled, NeverStuck, PaidOnceAtATime
<1> QED
  BY <1>1, <1>2, <1>3, <1>4, <1>5, <1>6, <1>7, <1>8

\* Pay Now is never stuck, a payment is under way once, and a completed payment is not
\* offered again (PaymentsPage, openRazorpayCheckout), however often Pay Now is pressed,
\* for any number of payments, and whenever the page is left or the tab reloaded.
THEOREM PayNowSound == CheckoutSpec => []CheckoutSound
<1>1. CheckoutInit => CheckoutInv
  BY CheckoutAssumption DEF CheckoutInit, CheckoutInv, PaysTyped, ScriptKnown, RivalsKnown, CheckedLast,
     KeepsThePage, ThankedIsSettled, NeverStuck, PaidOnceAtATime, Statuses
<1>2. CheckoutInv /\ [CheckoutNext]_checkoutVars => CheckoutInv'
  BY PressedOnce, HealthKeeps, WindowKeeps, RestKeeps DEF CheckoutNext
<1>3. CheckoutInv => CheckoutSound
  <2> SUFFICES ASSUME CheckoutInv
               PROVE  CompletedNotOffered
    BY DEF CheckoutInv, CheckoutSound
  <2>1. \A f \in pays : f.at = "verified" /\ f.mounted /\ PayNowOffered(f.payment) => f.overlapped
    BY DEF CheckoutInv, KeepsThePage, PaysTyped, Pay, Captured, PayNowOffered, payNowEnabled, verifyIsPending
  <2> QED
    BY <2>1 DEF CompletedNotOffered, CheckoutInv, ThankedIsSettled
<1> QED
  BY <1>1, <1>2, <1>3, PTL DEF CheckoutSpec

-----------------------------------------------------------------------------
(* The cache of queries, pages, and the calls they make                     *)

\* The route of a path is the first that has it.
LEMMA FirstRoute ==
  ASSUME NEW path, NEW i \in DOMAIN appRoutes, path \in appRoutes[i].paths,
         \A j \in 1..(i - 1) : path \notin appRoutes[j].paths
  PROVE  matchRoutes(path) = appRoutes[i]
<1>1. DOMAIN appRoutes = 1..11
  BY DEF appRoutes
<1>2. \A k \in DOMAIN appRoutes :
        path \in appRoutes[k].paths /\ (\A j \in 1..(k - 1) : path \notin appRoutes[j].paths) => k = i
  <2> HIDE DEF appRoutes
  <2> QED BY <1>1
<1> QED BY <1>2 DEF matchRoutes

\* The paths of each route of App.tsx.
LEMMA RoutePaths ==
  /\ DOMAIN appRoutes = 1..11
  /\ appRoutes[1].paths = {"platform/admin"}
  /\ appRoutes[2].paths = {"admin/dashboard", "admin/support"}
  /\ appRoutes[3].paths = {"security/dashboard", "security/messages"}
  /\ appRoutes[4].paths = {"security/gate"}
  /\ appRoutes[5].paths = {"user/dashboard", "support", "bookings/new"}
  /\ appRoutes[6].paths = {"admin/branding"}
  /\ appRoutes[7].paths = {"parking-lots", "lot", "slot-map", "gates"}
  /\ appRoutes[8].paths = {"slot-map"}
  /\ appRoutes[9].paths = {"vehicles"}
  /\ appRoutes[10].paths = {"bookings", "parking-events"}
  /\ appRoutes[11].paths = {"payments"}
BY DEF appRoutes

\* The route each path is matched with: the eighth, a slot map again, never.
LEMMA MatchedRoutes ==
  /\ matchRoutes("platform/admin") = appRoutes[1]
  /\ \A p \in {"admin/dashboard", "admin/support"} : matchRoutes(p) = appRoutes[2]
  /\ \A p \in {"security/dashboard", "security/messages"} : matchRoutes(p) = appRoutes[3]
  /\ matchRoutes("security/gate") = appRoutes[4]
  /\ \A p \in {"user/dashboard", "support", "bookings/new"} : matchRoutes(p) = appRoutes[5]
  /\ matchRoutes("admin/branding") = appRoutes[6]
  /\ \A p \in {"parking-lots", "lot", "slot-map", "gates"} : matchRoutes(p) = appRoutes[7]
  /\ matchRoutes("vehicles") = appRoutes[9]
  /\ \A p \in {"bookings", "parking-events"} : matchRoutes(p) = appRoutes[10]
  /\ matchRoutes("payments") = appRoutes[11]
<1> USE RoutePaths
<1>1. \A p \in {"platform/admin"} : matchRoutes(p) = appRoutes[1]
  <2> SUFFICES ASSUME NEW p \in {"platform/admin"} PROVE matchRoutes(p) = appRoutes[1]
    OBVIOUS
  <2> QED BY FirstRoute
<1>2. \A p \in {"admin/dashboard", "admin/support"} : matchRoutes(p) = appRoutes[2]
  <2> SUFFICES ASSUME NEW p \in {"admin/dashboard", "admin/support"} PROVE matchRoutes(p) = appRoutes[2]
    OBVIOUS
  <2> QED BY FirstRoute
<1>3. \A p \in {"security/dashboard", "security/messages"} : matchRoutes(p) = appRoutes[3]
  <2> SUFFICES ASSUME NEW p \in {"security/dashboard", "security/messages"} PROVE matchRoutes(p) = appRoutes[3]
    OBVIOUS
  <2> QED BY FirstRoute
<1>4. \A p \in {"security/gate"} : matchRoutes(p) = appRoutes[4]
  <2> SUFFICES ASSUME NEW p \in {"security/gate"} PROVE matchRoutes(p) = appRoutes[4]
    OBVIOUS
  <2> QED BY FirstRoute
<1>5. \A p \in {"user/dashboard", "support", "bookings/new"} : matchRoutes(p) = appRoutes[5]
  <2> SUFFICES ASSUME NEW p \in {"user/dashboard", "support", "bookings/new"} PROVE matchRoutes(p) = appRoutes[5]
    OBVIOUS
  <2> QED BY FirstRoute
<1>6. \A p \in {"admin/branding"} : matchRoutes(p) = appRoutes[6]
  <2> SUFFICES ASSUME NEW p \in {"admin/branding"} PROVE matchRoutes(p) = appRoutes[6]
    OBVIOUS
  <2> QED BY FirstRoute
<1>7. \A p \in {"parking-lots", "lot", "slot-map", "gates"} : matchRoutes(p) = appRoutes[7]
  <2> SUFFICES ASSUME NEW p \in {"parking-lots", "lot", "slot-map", "gates"} PROVE matchRoutes(p) = appRoutes[7]
    OBVIOUS
  <2> QED BY FirstRoute
<1>9. \A p \in {"vehicles"} : matchRoutes(p) = appRoutes[9]
  <2> SUFFICES ASSUME NEW p \in {"vehicles"} PROVE matchRoutes(p) = appRoutes[9]
    OBVIOUS
  <2> QED BY FirstRoute
<1>10. \A p \in {"bookings", "parking-events"} : matchRoutes(p) = appRoutes[10]
  <2> SUFFICES ASSUME NEW p \in {"bookings", "parking-events"} PROVE matchRoutes(p) = appRoutes[10]
    OBVIOUS
  <2> QED BY FirstRoute
<1>11. \A p \in {"payments"} : matchRoutes(p) = appRoutes[11]
  <2> SUFFICES ASSUME NEW p \in {"payments"} PROVE matchRoutes(p) = appRoutes[11]
    OBVIOUS
  <2> QED BY FirstRoute
<1> QED BY <1>1, <1>2, <1>3, <1>4, <1>5, <1>6, <1>7, <1>9, <1>10, <1>11

\* The roles each route lets in.
LEMMA RouteRoles ==
  /\ appRoutes[1].allowedRoles = {"SUPER_ADMIN"}
  /\ appRoutes[2].allowedRoles = Managers
  /\ appRoutes[3].allowedRoles = {"SECURITY"}
  /\ appRoutes[4].allowedRoles = Staff
  /\ appRoutes[5].allowedRoles = {"USER"}
  /\ appRoutes[6].allowedRoles = {"SUPER_ADMIN", "TENANT_ADMIN"}
  /\ appRoutes[7].allowedRoles = Staff
  /\ appRoutes[9].allowedRoles = Managers \union {"USER"}
  /\ appRoutes[10].allowedRoles = Staff \union {"USER"}
  /\ appRoutes[11].allowedRoles = Staff \union {"USER"}
BY DEF appRoutes

\* The paths of the frontend, one by one.
LEMMA AllPaths ==
  Paths = {"platform/admin", "admin/dashboard", "admin/support", "security/dashboard", "security/messages",
           "security/gate", "user/dashboard", "support", "bookings/new", "admin/branding", "parking-lots",
           "lot", "slot-map", "gates", "vehicles", "bookings", "parking-events", "payments"}
<1>1. Paths = UNION {appRoutes[i].paths : i \in 1..11}
  BY RoutePaths DEF Paths
<1>2. ASSUME NEW p
      PROVE  p \in Paths <=> \E i \in 1..11 : p \in appRoutes[i].paths
  BY <1>1
<1>3. 1..11 = {1, 2, 3, 4, 5, 6, 7, 8, 9, 10, 11}
  OBVIOUS
<1> QED BY <1>2, <1>3, RoutePaths

\* The pages a person of each role may open.
LEMMA ReachablePages ==
  /\ Reachable("SUPER_ADMIN") = {"platform/admin", "admin/branding"}
  /\ Reachable("TENANT_ADMIN") = {"admin/dashboard", "admin/support", "security/gate",
                                  "admin/branding", "parking-lots", "lot", "slot-map", "gates",
                                  "vehicles", "bookings", "parking-events", "payments"}
  /\ Reachable("ADMIN") = {"admin/dashboard", "admin/support", "security/gate", "parking-lots",
                           "lot", "slot-map", "gates", "vehicles", "bookings",
                           "parking-events", "payments"}
  /\ Reachable("SECURITY") = {"security/dashboard", "security/messages", "security/gate",
                              "parking-lots", "lot", "slot-map", "gates", "bookings",
                              "parking-events", "payments"}
  /\ Reachable("USER") = {"user/dashboard", "support", "bookings/new", "vehicles", "bookings",
                          "parking-events", "payments"}
<1>1. ASSUME NEW role, NEW path
      PROVE  path \in Reachable(role) <=> path \in Paths /\ role \in matchRoutes(path).allowedRoles
  BY DEF Reachable, RoleRoute
<1> QED BY <1>1, MatchedRoutes, RouteRoles, AllPaths DEF Managers, Staff

\* What the backend serves every role.
LEMMA RoleCalls ==
  \A call \in {"getOperatorMetrics", "getRecentActivity", "getSlotMap", "getCurrentBranding"}, role \in Role :
        canActivate(role, call)
BY DEF canActivate, Open, Served, Staff, Managers, Role, DashboardController, SlotsController,
     OrganizationsController

\* What it serves staff and drivers.
LEMMA ViewerCalls ==
  \A call \in {"getParkingLots", "getParkingLot", "listConversations", "getConversationMessages",
                  "sendConversationMessage"}, role \in Staff \union {"USER"} : canActivate(role, call)
BY DEF canActivate, Open, Served, Staff, Managers, Role, ParkingLotsController, ConversationsController

\* What it serves staff.
LEMMA StaffCalls ==
  \A call \in {"checkInParkingEvent", "checkOutParkingEvent", "getActiveParkingEvents", "searchSecurityGate",
                  "getVehicleCredentials", "getFloors", "getSlots", "resolveConversation"}, role \in Staff :
        canActivate(role, call)
BY DEF canActivate, Open, Served, Staff, Managers, Role, ParkingEventsController,
     SecurityGateController, VehicleAccessCredentialsController, FloorsController,
         SlotsController, ConversationsController

\* What it serves those who manage an organization.
LEMMA ManagerCalls ==
  \A call \in {"assignRfidCredential", "generateQrCredential", "revokeVehicleCredential",
                  "createParkingLot", "updateParkingLot", "deleteParkingLot", "createFloor", "updateFloor",
                  "deleteFloor", "createSlot", "createBulkSlots", "updateSlotStatus", "deleteSlot", "deleteSlots",
                  "updateGate", "deleteGate", "getOnboardingStatus", "getUsers", "getUserSummary", "createUser"},
        role \in Managers : canActivate(role, call)
BY DEF canActivate, Open, Served, Staff, Managers, Role, VehicleAccessCredentialsController,
     ParkingLotsController, FloorsController, SlotsController,
         GatesController, DashboardController, UsersController

\* What it serves drivers.
LEMMA UserCalls ==
  \A call \in {"createBooking", "getMyBookings", "getParkingEventHistory", "cancelBooking",
                  "createVehicle", "getMyVehicles", "updateVehicle", "deleteVehicle", "verifyRazorpayPayment",
                  "getUserPayments", "getAvailableSlotsForBooking", "startSecurityConversation",
                  "startCustomerCareConversation"} : canActivate("USER", call)
BY DEF canActivate, Open, Served, Staff, Managers, Role, BookingsController, ParkingEventsController,
     VehiclesController, PaymentController, SlotsController,
         ConversationsController

\* What it serves an ADMIN.
LEMMA AdminCalls ==
  \A call \in {"getParkingEvents", "getVehicles", "createVehicle", "updateVehicle", "deleteVehicle",
                  "mockPaymentSuccess", "mockPaymentFailure", "verifyRazorpayPayment", "getPaymentSummary"} :
        canActivate("ADMIN", call)
BY DEF canActivate, Open, Served, Staff, Managers, Role, ParkingEventsController, VehiclesController,
     PaymentController

\* The lists of bookings and payments that it serves an ADMIN and SECURITY.
LEMMA ListCalls ==
  \A call \in {"getBookings", "getPayments"}, role \in {"ADMIN", "SECURITY"} : canActivate(role, call)
BY DEF canActivate, Open, Served, Staff, Managers, Role, BookingsController, PaymentController

\* Who may change the branding.
LEMMA BrandingCalls ==
  \A role \in {"SUPER_ADMIN", "TENANT_ADMIN"} : canActivate(role, "updateOrganizationBranding")
BY DEF canActivate, Open, Served, Staff, Managers, Role, OrganizationsController

\* The page at each path.
LEMMA PageOf ==
  ASSUME NEW role
  PROVE  /\ Page("platform/admin", role) = Nothing
         /\ Page("admin/dashboard", role) = AdminDashboardPage(role)
         /\ Page("security/dashboard", role) = SecurityDashboardPage
         /\ Page("user/dashboard", role) = UserDashboardPage
         /\ Page("admin/support", role) = StaffSupportInboxPage
         /\ Page("security/messages", role) = StaffSupportInboxPage
         /\ Page("security/gate", role) = SecurityGatePage
         /\ Page("support", role) = UserSupportPage
         /\ Page("bookings", role) = BookingsPage(role)
         /\ Page("bookings/new", role) = BookingsPage(role)
         /\ Page("admin/branding", role) = BrandingSettingsPage
         /\ Page("parking-lots", role) = ParkingLotsPage(role)
         /\ Page("lot", role) = ParkingLotDetailsPage(role)
         /\ Page("slot-map", role) = VisualSlotMapPage
         /\ Page("gates", role) = ParkingLotGatesPage(role)
         /\ Page("vehicles", role) = VehiclesPage(role)
         /\ Page("parking-events", role) = ParkingEventsPage(role)
         /\ Page("payments", role) = PaymentsPage(role)
BY DEF Page

\* Which pages belong to which roles.
LEMMA RolePaths ==
  ASSUME NEW role \in Role, NEW path \in Reachable(role)
  PROVE  /\ role = "SUPER_ADMIN" => path \in {"platform/admin", "admin/branding"}
         /\ role = "SECURITY" => path \in {"security/dashboard", "security/messages", "security/gate",
                                           "parking-lots", "lot", "slot-map", "gates", "bookings",
                                           "parking-events", "payments"}
         /\ role = "USER" => path \in {"user/dashboard", "support", "bookings/new", "vehicles", "bookings",
                                       "parking-events", "payments"}
         /\ path = "admin/branding" => role \in {"SUPER_ADMIN", "TENANT_ADMIN"}
         /\ role \in Managers => path \in {"admin/dashboard", "admin/support", "security/gate",
                                           "admin/branding", "parking-lots", "lot", "slot-map", "gates",
                                           "vehicles", "bookings", "parking-events", "payments"}
BY ReachablePages DEF Role, Managers

\* No page asks for what its reader's role is refused, except where noted in Refusals.
LEMMA PagesAreServed ==
  ASSUME NEW role \in Role, NEW path \in Reachable(role),
         NEW c \in Page(path, role).reads \union Page(path, role).writes
  PROVE  Serves(role, c.call) \/ <<role, c.call>> \in Refusals
<1> USE RoleCalls, ViewerCalls, StaffCalls, ManagerCalls, UserCalls, AdminCalls, ListCalls, BrandingCalls
    DEF Serves, Query, Mutation, When, Nothing
<1>2. CASE path = "platform/admin"
  BY RolePaths, <1>2, PageOf DEF Refusals, Role, Managers, Staff, Nothing
<1>3. CASE path = "admin/dashboard"
  BY RolePaths, <1>3, PageOf DEF Refusals, Role, Managers, Staff, AdminDashboardPage,
       TenantAdminQuickActions, TenantOperatorDashboardLayout, OperatorDashboardShell,
       RecentActivityTimeline, UserSummaryCard, parkingLotsQuery, Both
<1>4. CASE path = "security/dashboard"
  BY RolePaths, <1>4, PageOf DEF Refusals, Role, Managers, Staff, SecurityDashboardPage,
       TenantOperatorDashboardLayout, OperatorDashboardShell, RecentActivityTimeline, parkingLotsQuery
<1>5. CASE path = "user/dashboard"
  BY RolePaths, <1>5, PageOf DEF Refusals, Role, Managers, Staff, UserDashboardPage, OperatorDashboardShell,
       RecentActivityTimeline
<1>6. CASE path = "support"
  BY RolePaths, <1>6, PageOf DEF Refusals, Role, Managers, Staff, UserSupportPage, useConversations,
       useConversationMessages, parkingLotsQuery, bookingsQuery, Mutations
<1>7. CASE path = "admin/branding"
  BY RolePaths, <1>7, PageOf DEF Refusals, Role, Managers, Staff, BrandingSettingsPage
<1>8. CASE path = "parking-lots"
  BY RolePaths, <1>8, PageOf DEF Refusals, Role, Managers, Staff, ParkingLotsPage, parkingLotsQuery,
       Mutations
<1>9. CASE path = "lot"
  BY RolePaths, <1>9, PageOf DEF Refusals, Role, Managers, Staff, ParkingLotDetailsPage, parkingLotQuery,
       Mutations
<1>10. CASE path = "slot-map"
  BY RolePaths, <1>10, PageOf DEF Refusals, Role, Managers, Staff, VisualSlotMapPage, parkingLotQuery,
       parkingLotsQuery
<1>11. CASE path = "gates"
  BY RolePaths, <1>11, PageOf DEF Refusals, Role, Managers, Staff, ParkingLotGatesPage, parkingLotQuery,
       gatesQuery, liveStatusQuery, Mutations
<1>12. CASE path = "vehicles"
  BY RolePaths, <1>12, PageOf DEF Refusals, Role, Managers, Staff, VehiclesPage, VehicleCredentialsPanel,
       Both, vehiclesQuery, bookingsQuery, useReferenceLabels, Mutations
<1>13. CASE path = "parking-events"
  BY RolePaths, <1>13, PageOf DEF Refusals, Role, Managers, Staff, ParkingEventsPage,
       canOperateParkingEvents, isOperationalAdmin, checkInAndOut
<1>14. CASE path = "payments"
  BY RolePaths, <1>14, PageOf DEF Refusals, Role, Managers, Staff, PaymentsPage, useReferenceLabels,
       vehiclesQuery, bookingsQuery, canViewOperationalPayments, isOperationalAdmin, Mutations
<1>15. CASE path = "security/gate"
  BY RolePaths, <1>15, PageOf DEF Refusals, Role, Managers, Staff, SecurityGatePage, SecurityGateIotPanel,
       parkingLotsQuery, gatesQuery, liveStatusQuery, checkInAndOut, Both
<1>16. CASE path \in {"admin/support", "security/messages"}
  BY RolePaths, <1>16, PageOf DEF Refusals, Role, Managers, Staff, StaffSupportInboxPage, useConversations,
       useConversationMessages, Mutations
<1>17. CASE path \in {"bookings", "bookings/new"}
  BY RolePaths, <1>17, PageOf DEF Refusals, Role, Managers, Staff, BookingsPage, bookingsQuery,
       vehiclesQuery, parkingLotsQuery, Mutations
<1> QED BY RolePaths, <1>2, <1>3, <1>4, <1>5, <1>6, <1>7, <1>8, <1>9, <1>10, <1>11, <1>12, <1>13, <1>14,
     <1>15, <1>16, <1>17 DEF Role, Managers

\* A sequence whose elements another begins with is its prefix.
LEMMA PrefixByElements ==
  ASSUME NEW S, NEW s \in Seq(S), NEW t \in Seq(S), Len(s) <= Len(t), \A i \in 1..Len(s) : s[i] = t[i]
  PROVE  IsPrefix(s, t)
<1>1. SubSeq(s, 1, Len(s)) = [i \in 1..Len(s) |-> s[i]]
  OBVIOUS
<1>2. SubSeq(t, 1, Len(s)) = [i \in 1..Len(s) |-> t[i]]
  OBVIOUS
<1> QED BY <1>1, <1>2 DEF IsPrefix

\* A sequence begins with the elements of its prefixes.
LEMMA ElementsByPrefix ==
  ASSUME NEW S, NEW s \in Seq(S), NEW t \in Seq(S), IsPrefix(s, t)
  PROVE  Len(s) <= Len(t) /\ \A i \in 1..Len(s) : s[i] = t[i]
<1>1. SubSeq(s, 1, Len(s)) = [i \in 1..Len(s) |-> s[i]]
  OBVIOUS
<1>2. Len(s) <= Len(t)
  BY DEF IsPrefix
<1>3. SubSeq(t, 1, Len(s)) = [i \in 1..Len(s) |-> t[i]]
  BY <1>2
<1>4. SubSeq(s, 1, Len(s)) = SubSeq(t, 1, Len(s))
  BY DEF IsPrefix
<1> QED BY <1>1, <1>2, <1>3, <1>4

\* The prefixes of keys: no key has more than three parts.
LEMMA ShortPrefixes ==
  ASSUME NEW a, NEW b, NEW c
  PROVE  /\ IsPrefix(<<a>>, <<a>>) /\ IsPrefix(<<a>>, <<a, b>>) /\ IsPrefix(<<a>>, <<a, b, c>>)
         /\ IsPrefix(<<a, b>>, <<a, b>>) /\ IsPrefix(<<a, b>>, <<a, b, c>>)
         /\ IsPrefix(<<a, b, c>>, <<a, b, c>>)
<1>1. <<a>> \in Seq({a, b, c}) /\ <<a, b>> \in Seq({a, b, c}) /\ <<a, b, c>> \in Seq({a, b, c})
  OBVIOUS
<1>2. IsPrefix(<<a>>, <<a>>) /\ IsPrefix(<<a, b>>, <<a, b>>) /\ IsPrefix(<<a, b, c>>, <<a, b, c>>)
  BY DEF IsPrefix
<1>3. IsPrefix(<<a>>, <<a, b>>)
  <2>1. Len(<<a>>) <= Len(<<a, b>>) /\ \A i \in 1..Len(<<a>>) : <<a>>[i] = <<a, b>>[i]
    <3>1. 1..Len(<<a>>) = {1}
      OBVIOUS
    <3> QED BY <3>1
  <2> QED BY <1>1, <2>1, PrefixByElements
<1>4. IsPrefix(<<a>>, <<a, b, c>>)
  <2>1. Len(<<a>>) <= Len(<<a, b, c>>) /\ \A i \in 1..Len(<<a>>) : <<a>>[i] = <<a, b, c>>[i]
    <3>1. 1..Len(<<a>>) = {1}
      OBVIOUS
    <3> QED BY <3>1
  <2> QED BY <1>1, <2>1, PrefixByElements
<1>5. IsPrefix(<<a, b>>, <<a, b, c>>)
  <2>1. \A i \in 1..Len(<<a, b>>) : <<a, b>>[i] = <<a, b, c>>[i]
    <3>1. 1..Len(<<a, b>>) = {1, 2}
      OBVIOUS
    <3> QED BY <3>1
  <2>2. Len(<<a, b>>) <= Len(<<a, b, c>>)
    OBVIOUS
  <2> QED BY <1>1, <2>1, <2>2, PrefixByElements
<1> QED BY <1>2, <1>3, <1>4, <1>5

\* Queries a page may make; two of them are made for a USER alone.
KnownQueries(role) ==
  {Query(<<"bookings", "my">>, "getMyBookings"), Query(<<"bookings", "all">>, "getBookings"),
   Query(<<"vehicles", "all">>, "getVehicles"), Query(<<"vehicles", "my">>, "getMyVehicles"),
   Query(<<"vehicles", "vehicle", "credentials">>, "getVehicleCredentials"),
   Query(<<"users">>, "getUsers"), Query(<<"users", "summary">>, "getUserSummary"),
   Query(<<"dashboard", "operator-metrics">>, "getOperatorMetrics"),
   Query(<<"dashboard", "recent-activity">>, "getRecentActivity"),
   Query(<<"dashboard", "onboarding-status">>, "getOnboardingStatus"),
   Query(<<"parking-events", "active">>, "getActiveParkingEvents"),
   Query(<<"parking-events", "all">>, "getParkingEvents"),
   Query(<<"payments", "summary">>, "getPaymentSummary"), Query(<<"payments", "all">>, "getPayments"),
   Query(<<"payments", "user">>, "getUserPayments"),
   Query(<<"parking-lots">>, "getParkingLots"), Query(<<"parking-lots", "lot">>, "getParkingLot"),
   Query(<<"parking-lots", "lot", "floors">>, "getFloors"),
   Query(<<"parking-lots", "lot", "slots">>, "getSlots"),
   Query(<<"slot-map", "lot">>, "getSlotMap"),
   Query(<<"conversations", "list">>, "listConversations"),
   Query(<<"conversations", "conversation", "messages">>, "getConversationMessages"),
   Query(<<"branding", "settings">>, "getCurrentBranding"),
   gatesQuery, liveStatusQuery, Query(<<"gates", "gate", "detections">>, "getGateDetections"),
   Query(<<"gates", "gate", "access-attempts">>, "getGateAccessAttempts")}
  \union When(role = "USER", {Query(<<"parking-events", "history">>, "getParkingEventHistory"),
                             Query(<<"parking-lots", "lot", "available-slots">>, "getAvailableSlotsForBooking")})

\* The queries of every page are among those listed.
LEMMA PagesAsk ==
  ASSUME NEW role \in Role, NEW path \in Reachable(role), NEW q \in Page(path, role).reads
  PROVE  q \in KnownQueries(role)
<1> USE DEF When, Nothing, KnownQueries
<1>2. CASE path = "platform/admin"
  BY RolePaths, <1>2, PageOf DEF Role, Managers, Staff, Nothing
<1>3. CASE path = "admin/dashboard"
  BY RolePaths, <1>3, PageOf DEF Role, Managers, Staff, AdminDashboardPage, TenantAdminQuickActions,
       TenantOperatorDashboardLayout, OperatorDashboardShell, RecentActivityTimeline, UserSummaryCard,
       parkingLotsQuery, Both
<1>4. CASE path = "security/dashboard"
  BY RolePaths, <1>4, PageOf DEF Role, Managers, Staff, SecurityDashboardPage, TenantOperatorDashboardLayout,
       OperatorDashboardShell, RecentActivityTimeline, parkingLotsQuery
<1>5. CASE path = "user/dashboard"
  BY RolePaths, <1>5, PageOf DEF Role, Managers, Staff, UserDashboardPage, OperatorDashboardShell,
       RecentActivityTimeline
<1>6. CASE path = "support"
  BY RolePaths, <1>6, PageOf DEF Role, Managers, Staff, UserSupportPage, useConversations,
       useConversationMessages, parkingLotsQuery, bookingsQuery, Mutations
<1>7. CASE path = "admin/branding"
  BY RolePaths, <1>7, PageOf DEF Role, Managers, Staff, BrandingSettingsPage
<1>8. CASE path = "parking-lots"
  BY RolePaths, <1>8, PageOf DEF Role, Managers, Staff, ParkingLotsPage, parkingLotsQuery, Mutations
<1>9. CASE path = "lot"
  BY RolePaths, <1>9, PageOf DEF Role, Managers, Staff, ParkingLotDetailsPage, parkingLotQuery, Mutations
<1>10. CASE path = "slot-map"
  BY RolePaths, <1>10, PageOf DEF Role, Managers, Staff, VisualSlotMapPage, parkingLotQuery, parkingLotsQuery
<1>11. CASE path = "gates"
  BY RolePaths, <1>11, PageOf DEF Role, Managers, Staff, ParkingLotGatesPage, parkingLotQuery, gatesQuery,
       liveStatusQuery, Mutations
<1>12. CASE path = "vehicles"
  BY RolePaths, <1>12, PageOf DEF Role, Managers, Staff, VehiclesPage, VehicleCredentialsPanel, Both,
       vehiclesQuery, bookingsQuery, useReferenceLabels, Mutations
<1>13. CASE path = "parking-events"
  BY RolePaths, <1>13, PageOf DEF Role, Managers, Staff, ParkingEventsPage, canOperateParkingEvents,
       isOperationalAdmin, checkInAndOut
<1>14. CASE path = "payments"
  BY RolePaths, <1>14, PageOf DEF Role, Managers, Staff, PaymentsPage, useReferenceLabels, vehiclesQuery,
       bookingsQuery, canViewOperationalPayments, isOperationalAdmin, Mutations
<1>15. CASE path = "security/gate"
  BY RolePaths, <1>15, PageOf DEF Role, Managers, Staff, SecurityGatePage, SecurityGateIotPanel,
       parkingLotsQuery, gatesQuery, liveStatusQuery, checkInAndOut, Both
<1>16. CASE path \in {"admin/support", "security/messages"}
  BY RolePaths, <1>16, PageOf DEF Role, Managers, Staff, StaffSupportInboxPage, useConversations,
       useConversationMessages, Mutations
<1>17. CASE path \in {"bookings", "bookings/new"}
  BY RolePaths, <1>17, PageOf DEF Role, Managers, Staff, BookingsPage, bookingsQuery, vehiclesQuery,
       parkingLotsQuery, Mutations
<1> QED BY RolePaths, <1>2, <1>3, <1>4, <1>5, <1>6, <1>7, <1>8, <1>9, <1>10, <1>11, <1>12, <1>13, <1>14,
     <1>15, <1>16, <1>17 DEF Role, Managers

\* Changes a page may offer that write what pages show.
KnownMutations(role) ==
  When(role = "USER", Mutations({"createBooking", "cancelBooking"}, invalidateBookingOperationQueries))
  \union When(role \in Staff, checkInAndOut)
  \union Mutations({"createVehicle", "updateVehicle", "deleteVehicle"}, {<<"vehicles">>})
  \union Mutations({"assignRfidCredential", "generateQrCredential", "revokeVehicleCredential"},
                   {<<"vehicles", "vehicle", "credentials">>})
  \union Mutations({"createParkingLot", "updateParkingLot", "deleteParkingLot"}, {<<"parking-lots">>})
  \union {Mutation("updateParkingLot", {<<"parking-lots", "lot">>, <<"parking-lots">>})}
  \union When(role \in Managers,
              Mutations({"createFloor", "updateFloor", "deleteFloor", "createSlot", "createBulkSlots",
                         "updateSlotStatus", "deleteSlot", "deleteSlots"}, invalidateStructure))
  \union Mutations({"startSecurityConversation", "startCustomerCareConversation", "sendConversationMessage",
                    "resolveConversation"}, {<<"conversations">>})
  \union {Mutation("createUser", {<<"users">>, <<"users", "summary">>})}
  \union Mutations({"mockPaymentSuccess", "mockPaymentFailure", "verifyRazorpayPayment"}, invalidatePayments)

\* The changes every page offers are among those listed, or concern gates, the
\* gate desk or the branding.
LEMMA PagesOffer ==
  ASSUME NEW role \in Role, NEW path \in Reachable(role), NEW m \in Page(path, role).writes
  PROVE  \/ m \in KnownMutations(role)
         \/ m.call \in {"createGate", "updateGate", "deleteGate", "manualOpenGate", "searchSecurityGate",
                        "updateOrganizationBranding"}
<1> USE DEF When, Nothing, KnownMutations, Mutations, Mutation
<1>2. CASE path = "platform/admin"
  BY RolePaths, <1>2, PageOf DEF Role, Managers, Staff, Nothing
<1>3. CASE path = "admin/dashboard"
  BY RolePaths, <1>3, PageOf DEF Role, Managers, Staff, AdminDashboardPage, TenantAdminQuickActions,
       TenantOperatorDashboardLayout, OperatorDashboardShell, RecentActivityTimeline, UserSummaryCard,
       parkingLotsQuery, Both
<1>4. CASE path = "security/dashboard"
  BY RolePaths, <1>4, PageOf DEF Role, Managers, Staff, SecurityDashboardPage, TenantOperatorDashboardLayout,
       OperatorDashboardShell, RecentActivityTimeline, parkingLotsQuery
<1>5. CASE path = "user/dashboard"
  BY RolePaths, <1>5, PageOf DEF Role, Managers, Staff, UserDashboardPage, OperatorDashboardShell,
       RecentActivityTimeline
<1>6. CASE path = "support"
  BY RolePaths, <1>6, PageOf DEF Role, Managers, Staff, UserSupportPage, useConversations,
       useConversationMessages, parkingLotsQuery, bookingsQuery, Mutations
<1>7. CASE path = "admin/branding"
  BY RolePaths, <1>7, PageOf DEF Role, Managers, Staff, BrandingSettingsPage
<1>8. CASE path = "parking-lots"
  BY RolePaths, <1>8, PageOf DEF Role, Managers, Staff, ParkingLotsPage, parkingLotsQuery, Mutations
<1>9. CASE path = "lot"
  BY RolePaths, <1>9, PageOf DEF Role, Managers, Staff, ParkingLotDetailsPage, parkingLotQuery, Mutations
<1>10. CASE path = "slot-map"
  BY RolePaths, <1>10, PageOf DEF Role, Managers, Staff, VisualSlotMapPage, parkingLotQuery, parkingLotsQuery
<1>11. CASE path = "gates"
  BY RolePaths, <1>11, PageOf DEF Role, Managers, Staff, ParkingLotGatesPage, parkingLotQuery, gatesQuery,
       liveStatusQuery, Mutations
<1>12. CASE path = "vehicles"
  BY RolePaths, <1>12, PageOf DEF Role, Managers, Staff, VehiclesPage, VehicleCredentialsPanel, Both,
       vehiclesQuery, bookingsQuery, useReferenceLabels, Mutations
<1>13. CASE path = "parking-events"
  BY RolePaths, <1>13, PageOf DEF Role, Managers, Staff, ParkingEventsPage, canOperateParkingEvents,
       isOperationalAdmin, checkInAndOut
<1>14. CASE path = "payments"
  BY RolePaths, <1>14, PageOf DEF Role, Managers, Staff, PaymentsPage, useReferenceLabels, vehiclesQuery,
       bookingsQuery, canViewOperationalPayments, isOperationalAdmin, Mutations
<1>15. CASE path = "security/gate"
  BY RolePaths, <1>15, PageOf DEF Role, Managers, Staff, SecurityGatePage, SecurityGateIotPanel,
       parkingLotsQuery, gatesQuery, liveStatusQuery, checkInAndOut, Both
<1>16. CASE path \in {"admin/support", "security/messages"}
  BY RolePaths, <1>16, PageOf DEF Role, Managers, Staff, StaffSupportInboxPage, useConversations,
       useConversationMessages, Mutations
<1>17. CASE path \in {"bookings", "bookings/new"}
  BY RolePaths, <1>17, PageOf DEF Role, Managers, Staff, BookingsPage, bookingsQuery, vehiclesQuery,
       parkingLotsQuery, Mutations
<1> QED BY RolePaths, <1>2, <1>3, <1>4, <1>5, <1>6, <1>7, <1>8, <1>9, <1>10, <1>11, <1>12, <1>13, <1>14,
     <1>15, <1>16, <1>17 DEF Role, Managers

\* The key that what a call answers is kept under.
KeyOfCall(role, q) ==
  /\ q.call \in {"getMyBookings", "getBookings"} => q.key \in {<<"bookings", "my">>, <<"bookings", "all">>}
  /\ q.call \in {"getVehicles", "getMyVehicles"} => q.key \in {<<"vehicles", "all">>, <<"vehicles", "my">>}
  /\ q.call = "getVehicleCredentials" => q.key = <<"vehicles", "vehicle", "credentials">>
  /\ q.call \in {"getUsers", "getUserSummary"} => q.key \in {<<"users">>, <<"users", "summary">>}
  /\ q.call = "getOperatorMetrics" => q.key = <<"dashboard", "operator-metrics">>
  /\ q.call = "getRecentActivity" => q.key = <<"dashboard", "recent-activity">>
  /\ q.call = "getOnboardingStatus" => q.key = <<"dashboard", "onboarding-status">>
  /\ q.call \in {"getActiveParkingEvents", "getParkingEvents"} =>
        q.key \in {<<"parking-events", "active">>, <<"parking-events", "all">>}
  /\ q.call \in {"getParkingEventHistory", "getAvailableSlotsForBooking"} => role = "USER"
  /\ q.call = "getAvailableSlotsForBooking" => q.key = <<"parking-lots", "lot", "available-slots">>
  /\ q.call \in {"getPaymentSummary", "getPayments", "getUserPayments"} =>
        q.key \in {<<"payments", "summary">>, <<"payments", "all">>, <<"payments", "user">>}
  /\ q.call = "getParkingLots" => q.key = <<"parking-lots">>
  /\ q.call = "getParkingLot" => q.key = <<"parking-lots", "lot">>
  /\ q.call = "getFloors" => q.key = <<"parking-lots", "lot", "floors">>
  /\ q.call = "getSlots" => q.key = <<"parking-lots", "lot", "slots">>
  /\ q.call = "getSlotMap" => q.key = <<"slot-map", "lot">>
  /\ q.call = "listConversations" => q.key = <<"conversations", "list">>
  /\ q.call = "getConversationMessages" => q.key = <<"conversations", "conversation", "messages">>
  /\ q.call \notin {"getBooking"}

\* Every query of a page is kept under the key of its call.
LEMMA KeysOfCalls ==
  ASSUME NEW role, NEW q \in KnownQueries(role)
  PROVE  KeyOfCall(role, q)
BY DEF KeyOfCall, KnownQueries, Query, When, gatesQuery, liveStatusQuery

\* The calls whose answer depends on a table.
ReaderOf(table, call) ==
  /\ table = "bookings" =>
        call \in {"getMyBookings", "getBookings", "getBooking", "getSlotMap", "getOperatorMetrics"}
  /\ table = "events" =>
        call \in {"getActiveParkingEvents", "getParkingEventHistory", "getParkingEvents", "getSlotMap",
                  "getOperatorMetrics", "getRecentActivity"}
  /\ table = "slots" =>
        call \in {"getSlots", "getAvailableSlotsForBooking", "getSlotMap", "getOperatorMetrics"}
  /\ table = "slot count" => call = "getOnboardingStatus"
  /\ table = "vehicles" => call \in {"getMyVehicles", "getVehicles"}
  /\ table = "vehicle count" => call = "getOperatorMetrics"
  /\ table = "credentials" => call = "getVehicleCredentials"
  /\ table = "lots" =>
        call \in {"getParkingLots", "getParkingLot", "getOnboardingStatus", "getOperatorMetrics"}
  /\ table = "floors" => call \in {"getFloors", "getSlotMap", "getOnboardingStatus"}
  /\ table = "conversations" => call = "listConversations"
  /\ table = "messages" => call \in {"listConversations", "getConversationMessages"}
  /\ table = "users" => call \in {"getOnboardingStatus", "getUsers", "getUserSummary"}
  /\ table = "payments" => call \in {"getPayments", "getUserPayments", "getPaymentSummary"}

\* No other call reads the table.
LEMMA ReadersOf ==
  ASSUME NEW role, NEW call, NEW table, <<call, table>> \in Reads(role)
  PROVE  ReaderOf(table, call)
<1>1. getOperatorMetrics(role) \subseteq {"slots", "bookings", "events", "lots", "vehicle count"}
  BY DEF getOperatorMetrics
<1> QED BY <1>1 DEF ReaderOf, Reads, Touch

\* The tables that a call writes, of those the pages show.
WriterOf(table, call) ==
  /\ call \in {"createBooking", "cancelBooking"} => table \in {"bookings", "slots"}
  /\ call \in {"checkInParkingEvent", "checkOutParkingEvent"} => table \in {"events", "bookings", "slots"}
  /\ call \in {"createVehicle", "deleteVehicle"} => table \in {"vehicles", "vehicle count"}
  /\ call = "updateVehicle" => table = "vehicles"
  /\ call \in {"assignRfidCredential", "generateQrCredential", "revokeVehicleCredential"} =>
        table = "credentials"
  /\ call \in {"createParkingLot", "updateParkingLot", "deleteParkingLot"} => table = "lots"
  /\ call \in {"createFloor", "updateFloor"} => table = "floors"
  /\ call = "deleteFloor" => table \in {"floors", "slots", "slot count"}
  /\ call \in {"createSlot", "createBulkSlots", "updateSlotStatus", "deleteSlot", "deleteSlots"} =>
        table \in {"slots", "slot count"}
  /\ call \in {"startSecurityConversation", "startCustomerCareConversation", "sendConversationMessage",
               "resolveConversation"} => table \in {"conversations", "messages"}
  /\ call = "createUser" => table = "users"
  /\ call \in {"mockPaymentSuccess", "mockPaymentFailure", "verifyRazorpayPayment"} => table = "payments"

\* No call writes another of these tables.
LEMMA WritersOf ==
  ASSUME NEW call, NEW table, <<call, table>> \in Writes
  PROVE  WriterOf(table, call)
BY DEF WriterOf, Writes, Touch

\* A change refreshes the queries whose key begins with one it invalidates.
LEMMA RefreshedBy ==
  ASSUME NEW m, NEW q, NEW prefix \in m.refreshes, IsPrefix(prefix, q.key)
  PROVE  Refreshes(m, q)
BY DEF Refreshes

\* The prefixes that changes invalidate, of the keys that pages use.
LEMMA KeyPrefixes ==
  /\ \A key \in {<<"bookings", "my">>, <<"bookings", "all">>, <<"slot-map", "lot">>, <<"parking-events", "active">>,
                <<"parking-events", "all">>, <<"dashboard", "operator-metrics">>,
                <<"dashboard", "recent-activity">>, <<"parking-lots">>, <<"users">>, <<"users", "summary">>,
                <<"parking-lots", "lot", "floors">>, <<"parking-lots", "lot", "slots">>,
                <<"vehicles", "vehicle", "credentials">>} : IsPrefix(key, key)
  /\ \A key \in {<<"parking-lots", "lot", "slots">>, <<"parking-lots", "lot", "available-slots">>} :
        IsPrefix(<<"parking-lots", "lot">>, key)
  /\ \A key \in {<<"vehicles", "all">>, <<"vehicles", "my">>} : IsPrefix(<<"vehicles">>, key)
  /\ IsPrefix(<<"parking-lots">>, <<"parking-lots", "lot">>)
  /\ \A key \in {<<"dashboard", "operator-metrics">>, <<"dashboard", "onboarding-status">>} :
        IsPrefix(<<"dashboard">>, key)
  /\ \A key \in {<<"conversations", "list">>, <<"conversations", "conversation", "messages">>} :
        IsPrefix(<<"conversations">>, key)
  /\ \A key \in {<<"payments", "summary">>, <<"payments", "all">>, <<"payments", "user">>} :
        IsPrefix(<<"payments">>, key)
BY ShortPrefixes

\* A change made on a page refreshes every query that it concerns, except where
\* noted in NotRefreshed.
LEMMA OwnWritesRefreshed ==
  ASSUME NEW role \in Role, NEW m \in KnownMutations(role), NEW q \in KnownQueries(role), Concerns(role, m, q)
  PROVE  Refreshes(m, q) \/ <<m.call, q.call>> \in NotRefreshed
<1>1. PICK table \in Tables : <<m.call, table>> \in Writes /\ <<q.call, table>> \in Reads(role)
  BY DEF Concerns
<1> WriterOf(table, m.call) /\ ReaderOf(table, q.call) /\ KeyOfCall(role, q)
  BY <1>1, WritersOf, ReadersOf, KeysOfCalls
<1>2. CASE m \in Mutations({"createBooking", "cancelBooking"}, invalidateBookingOperationQueries)
  <2>1. m.call \in {"createBooking", "cancelBooking"} /\ m.refreshes = invalidateBookingOperationQueries
    BY <1>2 DEF Mutations, Mutation
  <2>2. table \in {"bookings", "slots"}
    BY <2>1 DEF WriterOf
  <2>3. q.key \in {<<"bookings", "my">>, <<"bookings", "all">>, <<"slot-map", "lot">>, <<"parking-lots",
                  "lot", "slots">>, <<"parking-lots", "lot", "available-slots">>} \/ q.call \in {"getOperatorMetrics"}
    BY <2>2 DEF ReaderOf, KeyOfCall
  <2>4. CASE q.call \in {"getOperatorMetrics"}
    BY <2>1, <2>3, <2>4 DEF NotRefreshed
  <2>5. CASE q.call \notin {"getOperatorMetrics"}
    BY <2>1, <2>3, <2>5, KeyPrefixes, RefreshedBy DEF invalidateBookingOperationQueries
  <2> QED BY <2>4, <2>5
<1>3. CASE role \in Staff /\ m \in checkInAndOut
  <2>1. /\ m.call \in {"checkInParkingEvent", "checkOutParkingEvent"}
        /\ invalidateOperationalQueries("check-in") \subseteq m.refreshes
    BY <1>3 DEF Mutations, Mutation, invalidateOperationalQueries, checkInAndOut, When
  <2>2. table \in {"events", "bookings", "slots"}
    BY <2>1 DEF WriterOf
  <2>3. q.key \in {<<"bookings", "my">>, <<"bookings", "all">>, <<"parking-events", "active">>,
                  <<"parking-events", "all">>, <<"dashboard", "operator-metrics">>, <<"dashboard",
                  "recent-activity">>, <<"slot-map", "lot">>, <<"parking-lots", "lot", "slots">>}
    BY <1>3, <2>2 DEF ReaderOf, KeyOfCall, Staff, Managers
  <2> QED BY <2>1, <2>3, KeyPrefixes, RefreshedBy DEF invalidateOperationalQueries, When
<1>4. CASE m \in Mutations({"createVehicle", "updateVehicle", "deleteVehicle"}, {<<"vehicles">>})
  <2>1. m.call \in {"createVehicle", "updateVehicle", "deleteVehicle"} /\ m.refreshes = {<<"vehicles">>}
    BY <1>4 DEF Mutations, Mutation
  <2>2. table \in {"vehicles", "vehicle count"}
    BY <2>1 DEF WriterOf
  <2>3. q.key \in {<<"vehicles", "all">>, <<"vehicles", "my">>} \/ q.call = "getOperatorMetrics"
    BY <2>2 DEF ReaderOf, KeyOfCall
  <2>4. CASE q.call \in {"getOperatorMetrics"}
    BY <2>1, <2>2, <2>4 DEF NotRefreshed, WriterOf, ReaderOf
  <2>5. CASE q.call \notin {"getOperatorMetrics"}
    BY <2>1, <2>3, <2>5, KeyPrefixes, RefreshedBy
  <2> QED BY <2>4, <2>5
<1>5. CASE m \in Mutations({"assignRfidCredential", "generateQrCredential", "revokeVehicleCredential"},
                       {<<"vehicles", "vehicle", "credentials">>})
  <2>1. /\ m.call \in {"assignRfidCredential", "generateQrCredential", "revokeVehicleCredential"}
        /\ m.refreshes = {<<"vehicles", "vehicle", "credentials">>}
    BY <1>5 DEF Mutations, Mutation
  <2>2. table \in {"credentials"}
    BY <2>1 DEF WriterOf
  <2>3. q.key \in {<<"vehicles", "vehicle", "credentials">>}
    BY <2>2 DEF ReaderOf, KeyOfCall
  <2> QED BY <2>1, <2>3, KeyPrefixes, RefreshedBy
<1>6. CASE \/ m \in Mutations({"createParkingLot", "updateParkingLot", "deleteParkingLot"},
                           {<<"parking-lots">>})
           \/ m = Mutation("updateParkingLot", {<<"parking-lots", "lot">>, <<"parking-lots">>})
  <2>1. /\ m.call \in {"createParkingLot", "updateParkingLot", "deleteParkingLot"}
        /\ <<"parking-lots">> \in m.refreshes
    BY <1>6 DEF Mutations, Mutation
  <2>2. table \in {"lots"}
    BY <2>1 DEF WriterOf
  <2>3. \/ q.key \in {<<"parking-lots">>, <<"parking-lots", "lot">>}
        \/ q.call \in {"getOperatorMetrics", "getOnboardingStatus"}
    BY <2>2 DEF ReaderOf, KeyOfCall
  <2>4. CASE q.call \in {"getOperatorMetrics", "getOnboardingStatus"}
    BY <2>1, <2>3, <2>4 DEF NotRefreshed
  <2>5. CASE q.call \notin {"getOperatorMetrics", "getOnboardingStatus"}
    BY <2>1, <2>3, <2>5, KeyPrefixes, RefreshedBy
  <2> QED BY <2>4, <2>5
<1>7. CASE /\ role \in Managers
           /\ m \in Mutations({"createFloor", "updateFloor", "deleteFloor", "createSlot", "createBulkSlots",
                             "updateSlotStatus", "deleteSlot", "deleteSlots"}, invalidateStructure)
  <2>1. m.call \in {"createFloor", "updateFloor", "deleteFloor", "createSlot", "createBulkSlots",
                    "updateSlotStatus", "deleteSlot", "deleteSlots"} /\ m.refreshes = invalidateStructure
    BY <1>7 DEF Mutations, Mutation
  <2>2. table \in {"floors", "slots", "slot count"}
    BY <2>1 DEF WriterOf
  <2>3. q.key \in {<<"parking-lots", "lot", "floors">>, <<"parking-lots", "lot", "slots">>,
                  <<"dashboard", "operator-metrics">>, <<"dashboard", "onboarding-status">>} \/ q.call \in {"getSlotMap"}
    BY <1>7, <2>2 DEF ReaderOf, KeyOfCall, Managers
  <2>4. CASE q.call \in {"getSlotMap"}
    BY <2>1, <2>3, <2>4 DEF NotRefreshed
  <2>5. CASE q.call \notin {"getSlotMap"}
    <3>1. CASE q.key = <<"parking-lots", "lot", "floors">>
      BY <2>1, <3>1, KeyPrefixes, RefreshedBy DEF invalidateStructure
    <3>2. CASE q.key = <<"parking-lots", "lot", "slots">>
      BY <2>1, <3>2, KeyPrefixes, RefreshedBy DEF invalidateStructure
    <3>3. CASE q.key = <<"dashboard", "operator-metrics">>
      BY <2>1, <3>3, KeyPrefixes, RefreshedBy DEF invalidateStructure
    <3>4. CASE q.key = <<"dashboard", "onboarding-status">>
      BY <2>1, <3>4, KeyPrefixes, RefreshedBy DEF invalidateStructure
    <3> QED BY <2>3, <2>5, <3>1, <3>2, <3>3, <3>4
  <2> QED BY <2>4, <2>5
<1>8. CASE m \in Mutations({"startSecurityConversation", "startCustomerCareConversation", "sendConversationMessage",
                        "resolveConversation"}, {<<"conversations">>})
  <2>1. m.call \in {"startSecurityConversation", "startCustomerCareConversation",
                    "sendConversationMessage", "resolveConversation"} /\ m.refreshes = {<<"conversations">>}
    BY <1>8 DEF Mutations, Mutation
  <2>2. table \in {"conversations", "messages"}
    BY <2>1 DEF WriterOf
  <2>3. q.key \in {<<"conversations", "list">>, <<"conversations", "conversation", "messages">>}
    BY <2>2 DEF ReaderOf, KeyOfCall
  <2> QED BY <2>1, <2>3, KeyPrefixes, RefreshedBy
<1>9. CASE m = Mutation("createUser", {<<"users">>, <<"users", "summary">>})
  <2>1. m.call \in {"createUser"} /\ m.refreshes = {<<"users">>, <<"users", "summary">>}
    BY <1>9 DEF Mutations, Mutation
  <2>2. table \in {"users"}
    BY <2>1 DEF WriterOf
  <2>3. q.key \in {<<"users">>, <<"users", "summary">>} \/ q.call \in {"getOnboardingStatus"}
    BY <2>2 DEF ReaderOf, KeyOfCall
  <2>4. CASE q.call \in {"getOnboardingStatus"}
    BY <2>1, <2>3, <2>4 DEF NotRefreshed
  <2>5. CASE q.call \notin {"getOnboardingStatus"}
    <3>1. CASE q.key = <<"users">>
      BY <2>1, <3>1, KeyPrefixes, RefreshedBy
    <3>2. CASE q.key = <<"users", "summary">>
      BY <2>1, <3>2, KeyPrefixes, RefreshedBy
    <3> QED BY <2>3, <2>5, <3>1, <3>2
  <2> QED BY <2>4, <2>5
<1>10. CASE m \in Mutations({"mockPaymentSuccess", "mockPaymentFailure", "verifyRazorpayPayment"}, invalidatePayments)
  <2>1. /\ m.call \in {"mockPaymentSuccess", "mockPaymentFailure", "verifyRazorpayPayment"}
        /\ m.refreshes = invalidatePayments
    BY <1>10 DEF Mutations, Mutation
  <2>2. table \in {"payments"}
    BY <2>1 DEF WriterOf
  <2>3. q.key \in {<<"payments", "summary">>, <<"payments", "all">>, <<"payments", "user">>}
    BY <2>2 DEF ReaderOf, KeyOfCall
  <2> QED BY <2>1, <2>3, KeyPrefixes, RefreshedBy DEF invalidatePayments
<1> QED BY <1>2, <1>3, <1>4, <1>5, <1>6, <1>7, <1>8, <1>9, <1>10 DEF KnownMutations, When

\* Everybody may open the page they land on.
LEMMA HomesReachable ==
  ASSUME NEW role \in Role
  PROVE  getRoleHomePath(role) \in Reachable(role)
BY ReachablePages DEF Role, getRoleHomePath, Managers

\* Once a change that refreshes the query was answered, the answer kept is from after
\* it, or marked as old, and then being fetched again while a page shows it, unless
\* the last attempt failed. No fetch that began before is left.
CacheInv ==
  /\ actor \in Actors
  /\ page \in Visited
  /\ overtaken \in BOOLEAN
  /\ change = "answered" /\ ~ overtaken /\ Refreshes(actor.change, actor.query) =>
       /\ fetch # "before"
       /\ data = "before" => stale /\ (mounted => fetch # "none" \/ failed)

\* It holds of an empty cache.
LEMMA CacheInitInv == CacheInit => CacheInv
BY DEF CacheInit, CacheInv, Visited

\* Every step of the cache, of the pages and of the backend keeps it.
LEMMA CacheStepInv == CacheInv /\ [CacheNext]_cacheVars => CacheInv'
<1> SUFFICES ASSUME CacheInv, [CacheNext]_cacheVars
             PROVE  CacheInv'
  OBVIOUS
<1> USE DEF CacheInv
<1>1. CASE CacheNext
  <2>1. actor' = actor /\ Visited' = Visited
    BY <1>1 DEF CacheNext, OpenPage, ServeFetch, FetchSucceeds, FetchFails, mutate, ServeChange,
         onError, onSuccess,
                Visited
  <2>2. ASSUME NEW p \in Visited, OpenPage(p)
        PROVE  CacheInv'
    BY <2>1, <2>2 DEF OpenPage, mounted
  <2>3. CASE ServeFetch \/ FetchSucceeds \/ FetchFails
    BY <2>1, <2>3 DEF ServeFetch, FetchSucceeds, FetchFails, mounted
  <2>4. CASE mutate \/ ServeChange \/ onError
    BY <2>1, <2>4 DEF mutate, ServeChange, onError
  <2>5. CASE onSuccess
    BY <2>1, <2>5 DEF onSuccess, invalidateQueries, mounted
  <2> QED BY <1>1, <2>2, <2>3, <2>4, <2>5 DEF CacheNext
<1>2. CASE UNCHANGED cacheVars
  BY <1>2 DEF cacheVars, Visited, mounted
<1> QED BY <1>1, <1>2

\* Who acts in a behaviour, on which pages: one of the roles, on pages it may open.
LEMMA ActorsKnown ==
  ASSUME actor \in Actors
  PROVE  /\ actor.role \in Role
         /\ actor.writer \in Reachable(actor.role) /\ actor.reader \in Reachable(actor.role)
         /\ actor.change \in Page(actor.writer, actor.role).writes
         /\ actor.query \in Page(actor.reader, actor.role).reads
         /\ Concerns(actor.role, actor.change, actor.query)
BY DEF Actors

\* The invariant says that a person sees what they changed.
LEMMA OwnWritesInv == CacheInv => OwnWritesShown /\ PagesServed
<1> SUFFICES ASSUME CacheInv PROVE OwnWritesShown /\ PagesServed
  OBVIOUS
<1>1. actor.role \in Role /\ page \in Reachable(actor.role)
  BY ActorsKnown, HomesReachable DEF CacheInv, Visited
<1>2. PagesServed
  BY <1>1, PagesAreServed DEF PagesServed
<1>3. \/ Refreshes(actor.change, actor.query)
      \/ <<actor.change.call, actor.query.call>> \in NotRefreshed
  <2>1. actor.query \in KnownQueries(actor.role)
    BY ActorsKnown, PagesAsk DEF CacheInv
  <2>2. CASE actor.change \in KnownMutations(actor.role)
    BY <2>1, <2>2, ActorsKnown, OwnWritesRefreshed DEF CacheInv
  <2>3. CASE actor.change.call \in {"createGate", "updateGate", "deleteGate", "manualOpenGate", "searchSecurityGate",
                                    "updateOrganizationBranding"}
    <3>1. PICK table \in Tables :
            <<actor.change.call, table>> \in Writes /\ <<actor.query.call, table>> \in Reads(actor.role)
      BY ActorsKnown DEF CacheInv, Concerns
    <3>2. table = "gates"
      BY <2>3, <3>1 DEF Writes, Touch
    <3> QED BY <3>1, <3>2 DEF Reads, Touch, getOperatorMetrics
  <2> QED BY <2>2, <2>3, ActorsKnown, PagesOffer DEF CacheInv
<1> QED BY <1>2, <1>3 DEF CacheInv, OwnWritesShown

\* The navigation offers nobody a page they may not open.
LEMMA NavigationLeads ==
  ASSUME NEW role \in Role, NEW path \in visibleNavItems(role)
  PROVE  path \in Reachable(role)
BY ReachablePages DEF Role, Managers, Staff, visibleNavItems, navItems

\* The forms that links open are on the pages the links lead to.
LEMMA FormsOffered ==
  /\ \A role \in Managers :
       /\ \E w \in Page("parking-lots", role).writes : w.call = "createParkingLot"
       /\ \E w \in Page("lot", role).writes : w.call = "createFloor"
       /\ \E w \in Page("lot", role).writes : w.call = "createSlot"
  /\ \E w \in Page("vehicles", "USER").writes : w.call = "createVehicle"
  /\ \A path \in {"bookings", "bookings/new"} : \E w \in Page(path, "USER").writes : w.call = "createBooking"
<1>1. ASSUME NEW role \in Managers
      PROVE  /\ \E w \in Page("parking-lots", role).writes : w.call = "createParkingLot"
             /\ \E w \in Page("lot", role).writes : w.call = "createFloor"
             /\ \E w \in Page("lot", role).writes : w.call = "createSlot"
  <2>1. Mutation("createParkingLot", {<<"parking-lots">>}) \in Page("parking-lots", role).writes
    BY PageOf DEF ParkingLotsPage, Mutations, When
  <2>2. \A call \in {"createFloor", "createSlot"} : Mutation(call, invalidateStructure) \in Page("lot", role).writes
    BY PageOf DEF ParkingLotDetailsPage, Mutations, When
  <2> QED BY <2>1, <2>2 DEF Mutation
<1>2. Mutation("createVehicle", {<<"vehicles">>}) \in Page("vehicles", "USER").writes
  BY PageOf DEF VehiclesPage, Both, Mutations
<1>3. \A path \in {"bookings", "bookings/new"} :
        Mutation("createBooking", invalidateBookingOperationQueries) \in Page(path, "USER").writes
  BY PageOf DEF BookingsPage, Mutations, When
<1> QED BY <1>1, <1>2, <1>3 DEF Mutation

\* The link leads to a page of the role that has the form it opens, or is noted in
\* DeadLinks.
Leads(role, link) ==
  \/ <<role, link.to>> \in DeadLinks
  \/ /\ link.to \in Reachable(role)
     /\ \/ link.form = "none"
        \/ \E w \in Page(link.to, role).writes : w.call = link.form

\* So do the links on every page,
LEMMA PageLinksLead ==
  ASSUME NEW role \in Role, NEW path \in Reachable(role), NEW link \in PageLinks(path)
  PROVE  Leads(role, link)
<1> USE ReachablePages, FormsOffered DEF Leads, Role, Managers, Staff, Links, CreateLink
<1>1. CASE path = "admin/dashboard"
  BY <1>1 DEF PageLinks, TenantAdminQuickActionLinks, handleStatusNavigate, LotUtilizationCompactList,
       viewAllHref
<1>2. CASE path = "security/dashboard"
  BY <1>2 DEF PageLinks, SecurityQuickActions, handleStatusNavigate, viewAllHref
<1>3. CASE path = "user/dashboard"
  BY <1>3 DEF PageLinks, UserQuickActions, viewAllHref
<1>4. CASE path = "parking-lots"
  BY <1>4 DEF PageLinks
<1>5. CASE path \in {"lot", "gates"}
  BY <1>5 DEF PageLinks, ParkingLotWorkspaceShell
<1>6. CASE path = "slot-map"
  BY <1>6 DEF PageLinks, ParkingLotWorkspaceShell, SlotDetailDrawer
<1>7. CASE path \notin {"admin/dashboard", "security/dashboard", "user/dashboard", "parking-lots", "lot", "gates", "slot-map"}
  BY <1>7 DEF PageLinks
<1> QED BY <1>1, <1>2, <1>3, <1>4, <1>5, <1>6, <1>7

\* those of the dialog that a limit of the plan opens,
LEMMA DialogLeads ==
  ASSUME NEW role \in Role, NEW path \in Reachable(role), NEW link \in PlanLimitUpgradeDialog(path, role)
  PROVE  Leads(role, link)
<1>1. PICK w \in Page(path, role).writes : w.call \in {"createParkingLot", "createUser", "createBooking"}
  BY DEF PlanLimitUpgradeDialog, When
<1>2. link.to = "settings/billing"
  BY <1>1 DEF PlanLimitUpgradeDialog, When, Links
<1>3. Serves(role, w.call) \/ <<role, w.call>> \in Refusals
  BY PagesAreServed
<1>4. role \in Managers \union {"USER"}
  BY <1>1, <1>3 DEF Refusals, Staff, Managers, Serves, canActivate, Served, Open, AuthController,
       BookingsController,
     ParkingEventsController, SecurityGateController, VehiclesController,
           VehicleAccessCredentialsController,
     ParkingLotsController, FloorsController, SlotsController, GatesController, ConversationsController,
     DashboardController, OrganizationsController, UsersController, PublicParkingFinderController,
           PaymentController
<1> QED BY <1>2, <1>4 DEF Leads, DeadLinks

\* and all there are.
LEMMA EveryLinkLeads == LinksLead
<1> SUFFICES ASSUME NEW role \in Role,
                    NEW link \in {getSafeBookingRedirect} \union UNION {AppLayout(path, role) : path \in Reachable(role)}
             PROVE  Leads(role, link)
  BY DEF LinksLead, Leads
<1>1. CASE link = getSafeBookingRedirect
  BY <1>1, ReachablePages, FormsOffered DEF Leads, getSafeBookingRedirect, CreateLink, DeadLinks, Role
<1>2. ASSUME NEW path \in Reachable(role), link \in AppLayout(path, role)
      PROVE  Leads(role, link)
  <2>1. CASE link \in Links(visibleNavItems(role))
    BY <2>1, NavigationLeads DEF Leads, Links
  <2> QED BY <1>2, <2>1, PageLinksLead, DialogLeads DEF AppLayout
<1> QED BY <1>1, <1>2

\* A link in the frame of a page is one click.
LEMMA ClickLeads ==
  ASSUME NEW role, NEW pages, NEW p \in pages, NEW to \in Reachable(role),
         [to |-> to, form |-> "none"] \in AppLayout(p, role)
  PROVE  to \in OneClick(role, pages)
BY DEF OneClick

\* More clicks lead to no fewer pages.
LEMMA ClicksKeep ==
  ASSUME NEW role, NEW pages
  PROVE  /\ pages \intersect Reachable(role) \subseteq OneClick(role, pages)
         /\ Landing(role) \subseteq OneClick(role, OneClick(role, Landing(role)))
         /\ OneClick(role, Landing(role)) \subseteq OneClick(role, OneClick(role, Landing(role)))
BY DEF OneClick, Landing

\* Two clicks lead everybody to every page they may open, but for the branding, which
\* the platform's administrators open by its address.
LEMMA EveryPageLinked == PagesLinked
<1> SUFFICES ASSUME NEW role \in Role, NEW path \in Reachable(role), role = "SUPER_ADMIN" => path # "admin/branding"
             PROVE  path \in OneClick(role, OneClick(role, Landing(role)))
  BY DEF PagesLinked
<1> DEFINE home == getRoleHomePath(role)
           first == OneClick(role, Landing(role))
<1>1. home \in Landing(role)
  BY HomesReachable DEF Landing
<1>2. visibleNavItems(role) \subseteq first
  <2>1. ASSUME NEW p \in visibleNavItems(role)
        PROVE  p \in first
    <3>1. [to |-> p, form |-> "none"] \in AppLayout(home, role)
      BY DEF AppLayout, Links
    <3> QED BY <1>1, <3>1, ClickLeads, NavigationLeads
  <2> QED BY <2>1
<1>3. role \in Staff => "lot" \in first
  <2>1. role \in Staff => [to |-> "lot", form |-> "none"] \in AppLayout(home, role)
    BY DEF AppLayout, PageLinks, handleStatusNavigate, Links, Staff, Managers, getRoleHomePath
  <2>2. role \in Staff => "lot" \in Reachable(role)
    BY ReachablePages DEF Staff, Managers
  <2> QED BY <1>1, <2>1, <2>2, ClickLeads
<1>4. ASSUME role \in Staff
      PROVE  {"slot-map", "gates", "parking-lots"} \subseteq OneClick(role, first)
  <2>1. \A p \in {"slot-map", "gates", "parking-lots"} : [to |-> p, form |-> "none"] \in AppLayout("lot", role)
    BY DEF AppLayout, PageLinks, ParkingLotWorkspaceShell, Links
  <2>2. \A p \in {"slot-map", "gates", "parking-lots"} : p \in Reachable(role)
    BY <1>4, ReachablePages DEF Staff, Managers
  <2> HIDE DEF first
  <2>3. "lot" \in first
    BY <1>3, <1>4
  <2> QED BY <2>1, <2>2, <2>3, ClickLeads
<1>5. \/ path = home \/ path = "bookings/new"
      \/ path \in visibleNavItems(role)
      \/ role \in Staff /\ path \in {"lot", "slot-map", "gates", "parking-lots"}
  BY ReachablePages, AllPaths DEF Role, Staff, Managers, getRoleHomePath, visibleNavItems, navItems
<1>6. path = "bookings/new" => path \in Landing(role)
  BY DEF Landing, getSafeBookingRedirect, CreateLink
<1> QED BY <1>1, <1>2, <1>3, <1>4, <1>5, <1>6, ClicksKeep

\* Whatever a person opens, changes and leaves, in any order with the answers, the pages
\* ask for what their role is served, show what the person changed, and link to where
\* the person may go (lib/query-client.ts, App.tsx, the pages, the controllers).
THEOREM CacheStaysSound == CacheSpec => []CacheSound
<1>1. CacheInv => CacheSound
  BY OwnWritesInv, EveryLinkLeads, EveryPageLinked DEF CacheSound
<1> QED BY <1>1, CacheInitInv, CacheStepInv, PTL DEF CacheSpec

-----------------------------------------------------------------------------
(* The activity feed                                                        *)

\* The rows that are stored, as the feed orders them.
FeedRows == [checkInTime : Int, id : Nat]

\* Rows come one after the other: a row is not after itself, and of two rows one is.
LEMMA AfterIsOrder ==
  ASSUME NEW a \in FeedRows, NEW b \in FeedRows
  PROVE  /\ ~ After(a, a)
         /\ After(a, b) => ~ After(b, a) /\ a # b
         /\ a # b => After(a, b) \/ After(b, a)
BY DEF FeedRows, After

\* A row after one that is after a third is after the third.
LEMMA AfterTransitive ==
  ASSUME NEW a \in FeedRows, NEW b \in FeedRows, NEW c \in FeedRows, After(a, b), After(b, c)
  PROVE  After(a, c)
BY DEF FeedRows, After

\* The rows the feed shows before a row ...
RowsAbove(stored, r) == {x \in stored : After(r, x)}

\* ... and how many there are.
Rank(stored, r) == Cardinality(RowsAbove(stored, r))

\* A row after another has more rows above it.
LEMMA RankGrows ==
  ASSUME NEW stored \in SUBSET FeedRows, IsFiniteSet(stored), NEW a \in stored, NEW b \in stored, After(b, a)
  PROVE  Rank(stored, a) < Rank(stored, b)
<1>1. RowsAbove(stored, a) \subseteq RowsAbove(stored, b)
  BY AfterTransitive DEF RowsAbove
<1>2. a \in RowsAbove(stored, b) /\ a \notin RowsAbove(stored, a)
  BY AfterIsOrder DEF RowsAbove
<1>3. IsFiniteSet(RowsAbove(stored, b))
  BY FS_Subset DEF RowsAbove
<1>4. /\ Cardinality(RowsAbove(stored, a)) <= Cardinality(RowsAbove(stored, b))
      /\ Cardinality(RowsAbove(stored, a)) # Cardinality(RowsAbove(stored, b))
  BY <1>1, <1>2, <1>3, FS_Subset
<1>5. IsFiniteSet(RowsAbove(stored, a))
  BY <1>1, <1>3, FS_Subset
<1> QED BY <1>3, <1>4, <1>5, FS_CardinalityType DEF Rank

\* A row has fewer rows above it than there are.
LEMMA RankRange ==
  ASSUME NEW stored \in SUBSET FeedRows, IsFiniteSet(stored), NEW a \in stored
  PROVE  Rank(stored, a) \in 0..(Cardinality(stored) - 1)
<1>1. RowsAbove(stored, a) \subseteq stored /\ a \notin RowsAbove(stored, a)
  BY AfterIsOrder DEF RowsAbove
<1>2. IsFiniteSet(RowsAbove(stored, a)) /\ Cardinality(RowsAbove(stored, a)) <= Cardinality(stored)
      /\ Cardinality(RowsAbove(stored, a)) # Cardinality(stored)
  BY <1>1, FS_Subset
<1> QED BY <1>2, FS_CardinalityType DEF Rank

\* For every number less than how many rows there are, one row has so many above it.
LEMMA RankTaken ==
  ASSUME NEW stored \in SUBSET FeedRows, IsFiniteSet(stored), NEW n \in 0..(Cardinality(stored) - 1)
  PROVE  \E r \in stored : Rank(stored, r) = n
<1> DEFINE T == 0..(Cardinality(stored) - 1)
           rank == [r \in stored |-> Rank(stored, r)]
<1>1. Cardinality(stored) \in Nat
  BY FS_CardinalityType
<1>2. IsFiniteSet(T) /\ Cardinality(T) = Cardinality(stored)
  BY <1>1, FS_Interval
<1>3. rank \in Injection(stored, T)
  <2>1. rank \in [stored -> T]
    BY RankRange
  <2>2. \A a, b \in stored : rank[a] = rank[b] => a = b
    <3> SUFFICES ASSUME NEW a \in stored, NEW b \in stored, a # b PROVE rank[a] # rank[b]
      OBVIOUS
    <3>1. After(a, b) \/ After(b, a)
      BY AfterIsOrder
    <3>2. Rank(stored, a) < Rank(stored, b) \/ Rank(stored, b) < Rank(stored, a)
      BY <3>1, RankGrows
    <3>3. Rank(stored, a) \in Int /\ Rank(stored, b) \in Int
      BY <2>1, <1>1
    <3> QED BY <3>2, <3>3
  <2> QED BY <2>1, <2>2 DEF Injection, IsInjective
<1>4. rank \in Surjection(stored, T)
  BY <1>2, <1>3, FS_Injection
<1> QED BY <1>4 DEF Surjection

\* The rows in order: each once, none before one that it comes after.
LEMMA InOrder ==
  ASSUME NEW stored \in SUBSET FeedRows, IsFiniteSet(stored)
  PROVE  /\ inOrder(stored) \in Seq(stored) /\ Len(inOrder(stored)) = Cardinality(stored)
         /\ \A i, j \in 1..Cardinality(stored) : i < j => After(inOrder(stored)[j], inOrder(stored)[i])
         /\ \A r \in stored : \E i \in 1..Cardinality(stored) : inOrder(stored)[i] = r
<1> DEFINE n == Cardinality(stored)
           o == inOrder(stored)
<1>1. n \in Nat
  BY FS_CardinalityType
<1>2. ASSUME NEW i \in 1..n
      PROVE  o[i] \in stored /\ Rank(stored, o[i]) = i - 1
  <2>1. \E r \in stored : Rank(stored, r) = i - 1
    BY <1>1, RankTaken
  <2>2. o[i] = CHOOSE r \in stored : Rank(stored, r) = i - 1
    BY DEF inOrder, Rank, RowsAbove
  <2> QED BY <2>1, <2>2
<1>3. o \in Seq(stored) /\ Len(o) = n
  <2> DEFINE pick(i) == CHOOSE r \in stored : Cardinality({x \in stored : After(r, x)}) = i - 1
  <2>1. o = [i \in 1..n |-> pick(i)]
    BY DEF inOrder
  <2> HIDE DEF pick
  <2>2. o \in [1..n -> stored]
    BY <1>2, <2>1
  <2> HIDE DEF o, n
  <2> QED BY <1>1, <2>2
<1>4. ASSUME NEW i \in 1..n, NEW j \in 1..n, i < j
      PROVE  After(o[j], o[i])
  <2>1. o[i] # o[j] /\ ~ (Rank(stored, o[j]) < Rank(stored, o[i]))
    BY <1>1, <1>2, <1>4
  <2> QED BY <1>2, <2>1, AfterIsOrder, RankGrows
<1>5. ASSUME NEW r \in stored
      PROVE  \E i \in 1..n : o[i] = r
  <2> DEFINE i == Rank(stored, r) + 1
  <2>1. i \in 1..n /\ Rank(stored, o[i]) = Rank(stored, r)
    BY <1>1, <1>2, RankRange
  <2>2. o[i] = r
    <3> SUFFICES ASSUME o[i] # r PROVE FALSE
      OBVIOUS
    <3>1. After(o[i], r) \/ After(r, o[i])
      BY <1>2, <2>1, AfterIsOrder
    <3>2. Rank(stored, r) < Rank(stored, o[i]) \/ Rank(stored, o[i]) < Rank(stored, r)
      BY <1>2, <2>1, <3>1, RankGrows
    <3> QED BY <1>1, <2>1, <3>2, RankRange
  <2> QED BY <2>1, <2>2
<1> QED BY <1>3, <1>4, <1>5

\* A page the server answers with.
PageType == [items : Seq(FeedRows), hasMore : BOOLEAN, nextCursor : FeedRows]

\* The entry of every id has a time, or none yet, or is gone.
FeedPlain ==
  checkInTime \in [EventIds -> Gone..LastTime]

\* The rows the query finds are finitely many.
LEMMA StoredRowsFinite ==
  ASSUME FeedPlain, NEW cursor
  PROVE  cursorFilter(cursor) \in SUBSET FeedRows /\ IsFiniteSet(cursorFilter(cursor))
<1>1. StoredRows \in SUBSET FeedRows
  BY FeedAssumption DEF StoredRows, Row, FeedRows, FeedPlain, Gone
<1>2. IsFiniteSet(StoredRows)
  <2> DEFINE ids == {i \in EventIds : checkInTime[i] > 0}
             rowOf == [i \in ids |-> Row(i)]
  <2>1. IsFiniteSet(ids)
    BY FeedAssumption, FS_Subset
  <2>2. rowOf \in Surjection(ids, StoredRows)
    BY DEF Surjection, StoredRows
  <2> QED BY <2>1, <2>2, FS_Surjection
<1> QED BY <1>1, <1>2, FS_Subset DEF cursorFilter

\* The page shows rows in order, and none is left out but those after its cursor, which
\* is its last row.
PageOfRows(p, stored) ==
  /\ p \in PageType
  /\ \A i \in DOMAIN p.items : p.items[i] \in stored
  /\ \A i, j \in DOMAIN p.items : i < j => After(p.items[j], p.items[i])
  /\ p.hasMore =>
        /\ \E i \in DOMAIN p.items : p.items[i] = p.nextCursor
        /\ \A i \in DOMAIN p.items : p.items[i] = p.nextCursor \/ After(p.nextCursor, p.items[i])
  /\ \A r \in stored :
        \/ \E i \in DOMAIN p.items : p.items[i] = r
        \/ p.hasMore /\ After(r, p.nextCursor)

\* The first rows of an ordered sequence, with the last of them as the cursor if there
\* are more, are such a page.
LEMMA FirstRows ==
  ASSUME NEW stored \in SUBSET FeedRows, NEW events \in Seq(stored), NEW n \in Nat, n = Len(events),
         \A i, j \in 1..n : i < j => After(events[j], events[i]),
         \A r \in stored : \E i \in 1..n : events[i] = r,
         NEW size \in 0..n, NEW p \in PageType,
         p.items = SubSeq(events, 1, size),
         p.hasMore => size > 0 /\ p.nextCursor = events[size],
         ~ p.hasMore => size = n
  PROVE  PageOfRows(p, stored)
<1>1. Len(p.items) = size /\ DOMAIN p.items = 1..size /\ \A i \in 1..size : p.items[i] = events[i]
  OBVIOUS
<1>2. \A i \in 1..size : i \in 1..n /\ p.items[i] = events[i] /\ events[i] \in stored
  BY <1>1
<1>3. \A i, j \in DOMAIN p.items : i < j => After(p.items[j], p.items[i])
  BY <1>1, <1>2
<1>4. p.hasMore => /\ \E i \in DOMAIN p.items : p.items[i] = p.nextCursor
                   /\ \A i \in DOMAIN p.items : p.items[i] = p.nextCursor \/ After(p.nextCursor, p.items[i])
  <2> SUFFICES ASSUME p.hasMore
               PROVE  /\ \E i \in DOMAIN p.items : p.items[i] = p.nextCursor
                      /\ \A i \in DOMAIN p.items : p.items[i] = p.nextCursor \/ After(p.nextCursor, p.items[i])
    OBVIOUS
  <2>1. size \in 1..size /\ p.items[size] = p.nextCursor
    BY <1>1
  <2>2. \A i \in 1..size : i = size \/ i < size
    OBVIOUS
  <2> QED BY <1>1, <1>3, <2>1, <2>2
<1>5. ASSUME NEW r \in stored
      PROVE  \/ \E i \in DOMAIN p.items : p.items[i] = r
             \/ p.hasMore /\ After(r, p.nextCursor)
  <2>1. PICK i \in 1..n : events[i] = r
    OBVIOUS
  <2>2. CASE i <= size
    <3>1. i \in DOMAIN p.items /\ p.items[i] = r
      BY <1>1, <2>1, <2>2
    <3> QED BY <3>1
  <2>3. CASE i > size
    <3>1. p.hasMore /\ size \in 1..n
      BY <2>3
    <3> QED BY <2>1, <2>3, <3>1
  <2> QED BY <2>2, <2>3
<1>6. \A i \in DOMAIN p.items : p.items[i] \in stored
  BY <1>1, <1>2
<1> QED BY <1>3, <1>4, <1>5, <1>6 DEF PageOfRows

\* The handler answers with a page of the rows after the cursor it got.
LEMMA PageRead ==
  ASSUME FeedPlain, NEW cursor
  PROVE  PageOfRows(getRecentActivity(cursor), cursorFilter(cursor))
<1> DEFINE stored == cursorFilter(cursor)
           events == inOrder(stored)
           n == Cardinality(stored)
           size == Min({Limit, n})
           p == getRecentActivity(cursor)
<1>1. stored \in SUBSET FeedRows /\ IsFiniteSet(stored) /\ n \in Nat
  BY StoredRowsFinite, FS_CardinalityType
<1>2. /\ events \in Seq(stored) /\ Len(events) = n
      /\ \A i, j \in 1..n : i < j => After(events[j], events[i])
      /\ \A r \in stored : \E i \in 1..n : events[i] = r
  BY <1>1, InOrder
<1>3. size \in 0..n /\ (n > Limit => size = Limit /\ size > 0) /\ (~ (n > Limit) => size = n)
  <2>1. \E x \in {Limit, n} : \A y \in {Limit, n} : x <= y
    BY <1>1, FeedAssumption
  <2>2. size \in {Limit, n} /\ \A y \in {Limit, n} : size <= y
    BY <2>1 DEF Min
  <2> QED BY <1>1, <2>2, FeedAssumption
<1>4. p = [items |-> SubSeq(events, 1, size), hasMore |-> n > Limit,
           nextCursor |-> IF n > Limit THEN Last(SubSeq(events, 1, size)) ELSE NoCursor]
  BY <1>2 DEF getRecentActivity
<1> HIDE DEF stored, events, n, size, p
<1>5. n > Limit => Last(SubSeq(events, 1, size)) = events[size] /\ events[size] \in FeedRows
  BY <1>1, <1>2, <1>3 DEF Last
<1>6. p \in PageType
  <2>1. SubSeq(events, 1, size) \in Seq(FeedRows)
    BY <1>1, <1>2, <1>3
  <2>2. NoCursor \in FeedRows
    BY FeedAssumption DEF NoCursor, FeedRows
  <2> QED BY <1>4, <1>5, <2>1, <2>2 DEF PageType
<1>7. /\ p.items = SubSeq(events, 1, size)
      /\ p.hasMore => size > 0 /\ p.nextCursor = events[size]
      /\ ~ p.hasMore => size = n
  BY <1>3, <1>4, <1>5
<1>8. PageOfRows(p, stored)
  BY <1>1, <1>2, <1>3, <1>6, <1>7, FirstRows
<1> QED BY <1>8 DEF stored, p

\* No id twice, and every row after all above it.
Sorted(pages) ==
  \A k, l \in DOMAIN pages : \A i \in DOMAIN pages[k].items, j \in DOMAIN pages[l].items :
    Above(k, i, l, j) => /\ pages[k].items[i].id # pages[l].items[j].id
                         /\ After(pages[l].items[j], pages[k].items[i])

\* If there are more pages, no row is after the cursor of the last.
UpToCursor(pages) ==
  pages # <<>> /\ pages[Len(pages)].hasMore =>
    \A k \in DOMAIN pages : \A i \in DOMAIN pages[k].items :
      \/ pages[k].items[i] = pages[Len(pages)].nextCursor
      \/ After(pages[Len(pages)].nextCursor, pages[k].items[i])

\* A row shown was stored, at a time not after the one stored now.
ItemKnown(item) ==
  item.id \in EventIds /\ (checkInTime[item.id] = Gone \/ checkInTime[item.id] >= item.checkInTime)

\* All rows of the pages were.
KnownItems(pages) == \A k \in DOMAIN pages : \A i \in DOMAIN pages[k].items : ItemKnown(pages[k].items[i])

\* Every entry that was not written meanwhile is on the pages or still to come.
Covered(pages, written) ==
  pages # <<>> =>
    \A id \in EventIds \ written :
      checkInTime[id] > 0 =>
        \/ \E k \in DOMAIN pages : \E i \in DOMAIN pages[k].items : pages[k].items[i] = Row(id)
        \/ pages[Len(pages)].hasMore /\ After(Row(id), pages[Len(pages)].nextCursor)

\* What the client is fetching.
Fetches == [at : {"idle", "next", "all"}, pages : Seq(PageType), target : Int, unsettled : SUBSET EventIds]

\* The pages shown and those fetched so far are in order and end at their cursor; none
\* shows what was never stored, and all that was not written meanwhile is covered.
FeedInv ==
  /\ FeedPlain
  /\ feed \in Seq(PageType) /\ fetching \in Fetches
  /\ Sorted(feed) /\ UpToCursor(feed) /\ KnownItems(feed)
  /\ Sorted(fetching.pages) /\ UpToCursor(fetching.pages) /\ KnownItems(fetching.pages)
  /\ Covered(feed, unsettled)
  /\ fetching.at = "all" => Covered(fetching.pages, fetching.unsettled)
  /\ fetching.at = "next" => Covered(fetching.pages, unsettled)

\* It holds of no pages.
LEMMA NoPages ==
  ASSUME NEW written
  PROVE  Sorted(<<>>) /\ UpToCursor(<<>>) /\ KnownItems(<<>>) /\ Covered(<<>>, written)
BY DEF Sorted, UpToCursor, KnownItems, Covered

\* It holds of a feed that was not opened.
LEMMA FeedInitInv == FeedInit => FeedInv
<1> SUFFICES ASSUME FeedInit PROVE FeedInv
  OBVIOUS
<1>1. FeedPlain
  BY FeedAssumption DEF FeedInit, FeedPlain, Gone
<1>2. feed = <<>> /\ fetching = Idle
  BY DEF FeedInit
<1>3. Idle \in Fetches /\ Idle.pages = <<>> /\ Idle.at = "idle" /\ <<>> \in Seq(PageType)
  BY DEF Idle, Fetches
<1> QED BY <1>1, <1>2, <1>3, NoPages DEF FeedInv

\* A page that was read from the last cursor may follow.
LEMMA NextPage ==
  ASSUME FeedPlain, NEW pages \in Seq(PageType), Sorted(pages), UpToCursor(pages), KnownItems(pages),
         pages # <<>> => pages[Len(pages)].hasMore,
         NEW cursor, cursor = IF pages = <<>> THEN NoCursor ELSE pages[Len(pages)].nextCursor,
         NEW p, PageOfRows(p, cursorFilter(cursor))
  PROVE  /\ Append(pages, p) \in Seq(PageType)
         /\ Sorted(Append(pages, p)) /\ UpToCursor(Append(pages, p)) /\ KnownItems(Append(pages, p))
         /\ \A written : Covered(pages, written) => Covered(Append(pages, p), written)
<1> DEFINE longer == Append(pages, p)
           n == Len(pages)
<1>1. p \in PageType /\ n \in Nat
  BY DEF PageOfRows
<1>2. /\ longer \in Seq(PageType) /\ Len(longer) = n + 1 /\ longer # <<>>
      /\ \A k \in 1..n : longer[k] = pages[k]
      /\ longer[n + 1] = p /\ DOMAIN longer = 1..(n + 1) /\ DOMAIN pages = 1..n
  BY <1>1
<1>3. \A k \in 1..n : pages[k] \in PageType
  BY <1>1, <1>2
<1>4. ASSUME NEW q \in PageType, NEW i \in DOMAIN q.items
      PROVE  q.items[i] \in FeedRows
  BY DEF PageType
<1>5. ASSUME NEW i \in DOMAIN p.items
      PROVE  /\ p.items[i] \in FeedRows /\ After(p.items[i], cursor)
             /\ p.items[i].id \in EventIds /\ checkInTime[p.items[i].id] > 0
             /\ p.items[i] = Row(p.items[i].id)
  <2>1. p.items[i] \in StoredRows /\ After(p.items[i], cursor)
    BY DEF PageOfRows, cursorFilter
  <2> QED BY <1>1, <1>4, <2>1 DEF StoredRows, Row
<1>6. ASSUME NEW k \in 1..n, NEW i \in DOMAIN pages[k].items, NEW r \in FeedRows, After(r, cursor)
      PROVE  After(r, pages[k].items[i])
  <2>1. pages[k].items[i] = cursor \/ After(cursor, pages[k].items[i])
    BY <1>1, <1>2 DEF UpToCursor
  <2>2. cursor \in FeedRows /\ pages[k].items[i] \in FeedRows
    BY <1>1, <1>2, <1>3, <1>4 DEF PageType
  <2> QED BY <1>6, <2>1, <2>2, AfterTransitive
<1>7. Sorted(longer)
  <2> SUFFICES ASSUME NEW k \in 1..(n + 1), NEW l \in 1..(n + 1),
                      NEW i \in DOMAIN longer[k].items, NEW j \in DOMAIN longer[l].items, Above(k, i, l, j)
               PROVE  /\ longer[k].items[i].id # longer[l].items[j].id
                      /\ After(longer[l].items[j], longer[k].items[i])
    BY <1>2 DEF Sorted
  <2>1. CASE k \in 1..n /\ l \in 1..n
    BY <1>2, <2>1 DEF Sorted
  <2>2. CASE k \in 1..n /\ l = n + 1
    <3>1. After(longer[l].items[j], longer[k].items[i])
      BY <1>2, <1>5, <1>6, <2>2
    <3>2. ItemKnown(longer[k].items[i]) /\ longer[k].items[i] \in FeedRows
      BY <1>2, <1>3, <1>4, <2>2 DEF KnownItems
    <3>3. longer[l].items[j] = Row(longer[l].items[j].id) /\ longer[l].items[j] \in FeedRows
          /\ checkInTime[longer[l].items[j].id] > 0
      BY <1>2, <1>5, <2>2
    <3> QED BY <3>1, <3>2, <3>3 DEF After, ItemKnown, Row, Gone, FeedRows
  <2>3. CASE k = n + 1 /\ l = n + 1 /\ i < j
    <3>1. After(p.items[j], p.items[i])
      BY <1>2, <2>3 DEF PageOfRows
    <3>2. p.items[i].id # p.items[j].id
      BY <1>2, <1>5, <2>3, <3>1, AfterIsOrder
    <3> QED BY <1>2, <2>3, <3>1, <3>2
  <2> QED BY <2>1, <2>2, <2>3, <1>1 DEF Above
<1>8. UpToCursor(longer)
  <2> SUFFICES ASSUME p.hasMore, NEW k \in 1..(n + 1), NEW i \in DOMAIN longer[k].items
               PROVE  longer[k].items[i] = p.nextCursor \/ After(p.nextCursor, longer[k].items[i])
    BY <1>2 DEF UpToCursor
  <2>1. PICK last \in DOMAIN p.items : p.items[last] = p.nextCursor
    BY DEF PageOfRows
  <2>2. CASE k \in 1..n
    BY <1>2, <1>5, <1>6, <2>1, <2>2
  <2>3. CASE k = n + 1
    BY <1>2, <2>3 DEF PageOfRows
  <2> QED BY <2>2, <2>3, <1>1
<1>9. KnownItems(longer)
  <2> SUFFICES ASSUME NEW k \in 1..(n + 1), NEW i \in DOMAIN longer[k].items
               PROVE  ItemKnown(longer[k].items[i])
    BY <1>2 DEF KnownItems
  <2>1. CASE k \in 1..n
    BY <1>2, <2>1 DEF KnownItems
  <2>2. CASE k = n + 1
    <3>1. /\ p.items[i].id \in EventIds /\ p.items[i] = Row(p.items[i].id)
      BY <1>2, <1>5, <2>2
    <3>2. \A id \in EventIds : Row(id).checkInTime = checkInTime[id] /\ checkInTime[id] \in Int
      BY FeedAssumption DEF Row, FeedPlain, Gone
    <3>3. p.items[i].checkInTime = checkInTime[p.items[i].id] /\ checkInTime[p.items[i].id] \in Int
      BY <3>1, <3>2
    <3> QED BY <1>2, <2>2, <3>1, <3>3 DEF ItemKnown
  <2> QED BY <2>1, <2>2, <1>1
<1>10. ASSUME NEW written, Covered(pages, written)
       PROVE  Covered(longer, written)
  <2> SUFFICES ASSUME NEW id \in EventIds \ written, checkInTime[id] > 0
               PROVE  \/ \E k \in 1..(n + 1) : \E i \in DOMAIN longer[k].items : longer[k].items[i] = Row(id)
                      \/ p.hasMore /\ After(Row(id), p.nextCursor)
    BY <1>2 DEF Covered
  <2>1. CASE \E k \in 1..n : \E i \in DOMAIN pages[k].items : pages[k].items[i] = Row(id)
    BY <1>1, <1>2, <2>1
  <2>2. CASE After(Row(id), cursor)
    <3>1. Row(id) \in cursorFilter(cursor)
      BY <2>2 DEF cursorFilter, StoredRows
    <3>2. \/ \E i \in DOMAIN p.items : p.items[i] = Row(id)
          \/ p.hasMore /\ After(Row(id), p.nextCursor)
      BY <3>1 DEF PageOfRows
    <3> QED BY <1>1, <1>2, <3>2
  <2>3. CASE pages = <<>>
    <3>1. checkInTime[id] \in Int /\ checkInTime[id] < LastTime + 1
      BY FeedAssumption DEF FeedPlain, Gone
    <3>2. Row(id).checkInTime = checkInTime[id] /\ NoCursor.checkInTime = LastTime + 1
      BY DEF Row, NoCursor
    <3>3. After(Row(id), NoCursor)
      BY <3>1, <3>2 DEF After
    <3> QED BY <2>2, <2>3, <3>3
  <2> QED BY <1>2, <1>10, <2>1, <2>2, <2>3 DEF Covered
<1> QED BY <1>2, <1>7, <1>8, <1>9, <1>10

\* An entry that is written moves up, if anywhere: what is shown of it was stored, and
\* the others are where they were.
LEMMA RowChanged ==
  ASSUME FeedPlain, NEW id \in EventIds, NEW time \in Gone..LastTime,
         checkInTime' = [checkInTime EXCEPT ![id] = time],
         checkInTime[id] = Gone => time = Gone, time = Gone \/ time >= checkInTime[id],
         NEW pages \in Seq(PageType)
  PROVE  /\ FeedPlain'
         /\ KnownItems(pages) => KnownItems(pages)'
         /\ \A written : Covered(pages, written) => Covered(pages, written \union {id})'
<1>1. FeedPlain'
  BY DEF FeedPlain
<1>2. ASSUME NEW item, ItemKnown(item), item \in FeedRows
      PROVE  ItemKnown(item)'
  BY <1>2, FeedAssumption DEF ItemKnown, FeedPlain, Gone, FeedRows
<1>3. ASSUME NEW k \in DOMAIN pages, NEW i \in DOMAIN pages[k].items
      PROVE  pages[k].items[i] \in FeedRows
  <2>1. pages[k] \in PageType
    OBVIOUS
  <2>2. pages[k].items \in Seq(FeedRows)
    BY <2>1 DEF PageType
  <2> QED BY <2>2
<1>4. KnownItems(pages) => KnownItems(pages)'
  BY <1>2, <1>3 DEF KnownItems
<1>5. \A a \in EventIds \ {id} : Row(a)' = Row(a) /\ checkInTime'[a] = checkInTime[a]
  BY DEF Row, FeedPlain
<1>6. ASSUME NEW written, Covered(pages, written)
      PROVE  Covered(pages, written \union {id})'
  BY <1>5, <1>6 DEF Covered, After
<1> QED BY <1>1, <1>4, <1>6

\* So a write keeps the invariant.
LEMMA RowStepInv ==
  ASSUME FeedInv, NEW id \in EventIds, NEW time \in Gone..LastTime,
         checkInTime' = [checkInTime EXCEPT ![id] = time],
         checkInTime[id] = Gone => time = Gone, time = Gone \/ time >= checkInTime[id],
         RowWritten(id), feed' = feed
  PROVE  FeedInv'
<1> USE DEF FeedInv
<1>1. /\ fetching'.at = fetching.at /\ fetching'.pages = fetching.pages /\ fetching' \in Fetches
      /\ fetching.pages = <<>> \/ fetching'.unsettled = fetching.unsettled \union {id}
      /\ unsettled' = unsettled \union {id} /\ fetching.pages \in Seq(PageType)
  BY DEF RowWritten, Fetches
<1>2. FeedPlain' /\ KnownItems(feed)' /\ Covered(feed, unsettled)'
  BY <1>1, RowChanged
<1>3. KnownItems(fetching.pages)'
  BY <1>1, RowChanged
<1>4. Sorted(feed)' /\ UpToCursor(feed)' /\ Sorted(fetching.pages)' /\ UpToCursor(fetching.pages)'
  BY <1>1
<1>5. ASSUME fetching'.at = "all" PROVE Covered(fetching.pages, fetching.unsettled)'
  <2>1. CASE fetching.pages = <<>>
    BY <1>1, <2>1 DEF Covered
  <2>2. CASE fetching.pages # <<>>
    <3>1. Covered(fetching.pages, fetching.unsettled)
      BY <1>1, <1>5
    <3> QED BY <1>1, <2>2, <3>1, RowChanged
  <2> QED BY <2>1, <2>2
<1>6. fetching'.at = "next" => Covered(fetching.pages, unsettled)'
  BY <1>1, RowChanged
<1> QED BY <1>1, <1>2, <1>3, <1>4, <1>5, <1>6

\* A step of the client keeps it if the pages it leaves have its parts.
LEMMA PagesStepInv ==
  ASSUME FeedInv, checkInTime' = checkInTime,
         feed' \in Seq(PageType), Sorted(feed'), UpToCursor(feed'), KnownItems(feed'), Covered(feed', unsettled'),
         fetching' \in Fetches,
         Sorted(fetching'.pages), UpToCursor(fetching'.pages), KnownItems(fetching'.pages),
         fetching'.at = "all" => Covered(fetching'.pages, fetching'.unsettled),
         fetching'.at = "next" => Covered(fetching'.pages, unsettled')
  PROVE  FeedInv'
<1>1. ASSUME NEW pages, KnownItems(pages)
      PROVE  KnownItems(pages)'
  BY <1>1 DEF KnownItems, ItemKnown
<1>2. ASSUME NEW pages, NEW written, Covered(pages, written)
      PROVE  Covered(pages, written)'
  BY <1>2 DEF Covered, Row
<1>3. KnownItems(feed)' /\ KnownItems(fetching.pages)' /\ Covered(feed, unsettled)'
  BY <1>1, <1>2
<1>4. /\ fetching'.at = "all" => Covered(fetching.pages, fetching.unsettled)'
      /\ fetching'.at = "next" => Covered(fetching.pages, unsettled)'
  BY <1>2
<1> QED BY <1>3, <1>4 DEF FeedInv, FeedPlain

\* Every step keeps it.
LEMMA FeedStepInv == FeedInv /\ [FeedNext]_feedVars => FeedInv'
<1> SUFFICES ASSUME FeedInv, [FeedNext]_feedVars
             PROVE  FeedInv'
  OBVIOUS
<1>1. ASSUME NEW id \in EventIds, NEW time \in 1..LastTime, CheckIn(id, time)
      PROVE  FeedInv'
  <2>1. checkInTime[id] \in Int /\ checkInTime[id] # Gone /\ time >= checkInTime[id] /\ time \in Gone..LastTime
    BY <1>1, FeedAssumption DEF CheckIn, FeedInv, FeedPlain, Gone
  <2> QED BY <1>1, <2>1, RowStepInv DEF CheckIn
<1>2. ASSUME NEW id \in EventIds, Delete(id)
      PROVE  FeedInv'
  <2>1. Gone \in Gone..LastTime
    BY FeedAssumption DEF Gone
  <2> QED BY <1>2, <2>1, RowStepInv DEF Delete
<1>3. CASE fetchNextPage
  <2>1. fetching' \in Fetches /\ fetching'.at = "next" /\ fetching'.pages = feed
    BY <1>3 DEF fetchNextPage, Fetches, FeedInv
  <2> QED BY <1>3, <2>1, PagesStepInv DEF fetchNextPage, FeedInv
<1>4. CASE Refetch
  <2>1. Max({1, Len(feed)}) \in Int
    <3>1. \E x \in {1, Len(feed)} : \A y \in {1, Len(feed)} : x >= y
      BY DEF FeedInv
    <3> QED BY <3>1 DEF Max, FeedInv
  <2>2. fetching' \in Fetches /\ fetching'.pages = <<>> /\ fetching'.at = "all"
    BY <1>4, <2>1 DEF Refetch, Fetches
  <2> QED BY <1>4, <2>2, NoPages, PagesStepInv DEF Refetch, FeedInv
<1>5. CASE queryFn
  <2> DEFINE pages == fetching.pages
             cursor == IF pages = <<>> THEN NoCursor ELSE Last(pages).nextCursor
             p == getRecentActivity(cursor)
  <2>1. PageOfRows(p, cursorFilter(cursor))
    BY PageRead DEF FeedInv
  <2>2. pages \in Seq(PageType) /\ (pages # <<>> => pages[Len(pages)].hasMore)
    BY <1>5 DEF queryFn, FeedInv, Fetches, Last
  <2>3. cursor = IF pages = <<>> THEN NoCursor ELSE pages[Len(pages)].nextCursor
    BY DEF Last
  <2>4. fetching' = [fetching EXCEPT !.pages = Append(pages, p)]
    BY <1>5 DEF queryFn
  <2> HIDE DEF cursor, p
  <2>5. /\ Append(pages, p) \in Seq(PageType)
        /\ Sorted(Append(pages, p)) /\ UpToCursor(Append(pages, p)) /\ KnownItems(Append(pages, p))
        /\ \A written : Covered(pages, written) => Covered(Append(pages, p), written)
    BY <2>1, <2>2, <2>3, NextPage DEF FeedInv
  <2>6. /\ fetching' \in Fetches /\ fetching'.pages = Append(pages, p)
        /\ fetching'.at = fetching.at /\ fetching'.unsettled = fetching.unsettled
    BY <2>4, <2>5 DEF FeedInv, Fetches
  <2> QED BY <1>5, <2>5, <2>6, PagesStepInv DEF queryFn, FeedInv
<1>6. CASE Show
  <2>1. fetching' = Idle /\ Idle \in Fetches /\ Idle.pages = <<>> /\ Idle.at = "idle"
    BY <1>6 DEF Show, Idle, Fetches
  <2>2. feed' = fetching.pages /\ feed' \in Seq(PageType) /\ Covered(feed', unsettled')
    BY <1>6 DEF Show, FeedInv, Fetches
  <2> QED BY <1>6, <2>1, <2>2, NoPages, PagesStepInv DEF Show, FeedInv
<1>7. CASE FetchError
  <2>1. fetching' = Idle /\ Idle \in Fetches /\ Idle.pages = <<>> /\ Idle.at = "idle"
    BY <1>7 DEF FetchError, Idle, Fetches
  <2> QED BY <1>7, <2>1, NoPages, PagesStepInv DEF FetchError, FeedInv
<1>8. CASE UNCHANGED feedVars
  BY <1>8, PagesStepInv DEF feedVars, FeedInv
<1> QED BY <1>1, <1>2, <1>3, <1>4, <1>5, <1>6, <1>7, <1>8 DEF FeedNext

\* Whatever is written while pages of the activity feed are fetched, the feed shows no
\* entry twice, none out of order and none that was never stored, and after the last page
\* it has left out no entry that was not written meanwhile (dashboard.service.ts
\* getRecentActivity, RecentActivityTimeline).
THEOREM FeedStaysSound == FeedSpec => []ActivityFeedSound
<1>1. FeedInv => ActivityFeedSound
  <2> SUFFICES ASSUME FeedInv PROVE ActivityFeedSound
    OBVIOUS
  <2>1. Sorted(feed) /\ Covered(feed, unsettled)
    BY DEF FeedInv
  <2>2. feed # <<>> =>
          \A id \in EventIds \ unsettled :
            checkInTime[id] > 0 =>
              \/ \E p \in ToSet(feed) : Row(id) \in ToSet(p.items)
              \/ Last(feed).hasMore /\ After(Row(id), Last(feed).nextCursor)
    BY <2>1 DEF Covered, ToSet, Last
  <2> QED BY <2>1, <2>2 DEF Sorted, ActivityFeedSound
<1> QED BY <1>1, FeedInitInv, FeedStepInv, PTL DEF FeedSpec
===============================================================================
