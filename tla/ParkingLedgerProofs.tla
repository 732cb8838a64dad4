------------------------- MODULE ParkingLedgerProofs -------------------------
(***************************************************************************)
(* What holds of ParkingLedger for any slots, bookings and vehicles.       *)
(***************************************************************************)
EXTENDS ParkingLedger, ParkingTablesProofs

\* A handler changes the rows as one commit does, or deletes a vehicle that has
\* no booking.
LEMMA LedgerStepShape ==
  ASSUME TablesTypeOK, Next
  PROVE  \/ RowChange
         \/ \E v \in RemovableVehicles :
              DeleteVehicle(v) /\ \A b \in Bookings : BookingExists(b) => VehicleOf[b] # v
<1>1. ASSUME NEW b \in Bookings, CheckInReturn(b)
      PROVE  RowChange
  <2>1. bookingStatus[b] \in BookingStatus
    BY <1>1 DEF CheckInReturn, BookingStatus
  <2> QED
    BY <1>1, <2>1 DEF CheckInReturn, RowChange
<1>2. ASSUME NEW b \in Bookings, CheckOut(b)
      PROVE  RowChange
  <2>1. visit[b] \in Nat
    BY DEF TablesTypeOK
  <2> QED
    BY <1>2, <2>1 DEF CheckOut, RowChange
<1> QED
  BY <1>1, <1>2
     DEF Next, Book, BookAssigned, Cancel, CheckInFirst, RemoveVehicle, RowChange

\* Deleting a vehicle that has no booking touches no booking, event or slot.
LEMMA UnbookedVehicle ==
  ASSUME TablesTypeOK, NEW v, DeleteVehicle(v),
         \A b \in Bookings : BookingExists(b) => VehicleOf[b] # v
  PROVE  /\ TablesTypeOK'
         /\ UNCHANGED <<slot, bookingStatus, bookingSlot, eventStatus, visit, closed, billed>>
<1>1. {b \in Bookings : BookingExists(b) /\ VehicleOf[b] = v} = {}
  OBVIOUS
<1>2. UNCHANGED <<slot, bookingStatus, bookingSlot, eventStatus, visit, closed, billed>>
  BY <1>1 DEF TablesTypeOK, DeleteVehicle, CascadeDelete
<1> QED
  BY <1>2 DEF TablesTypeOK, DeleteVehicle

\* Rows stay well typed.
THEOREM LedgerTypeCorrect == Spec => []TablesTypeOK
<1>1. TablesTypeOK /\ [Next]_rows => TablesTypeOK'
  BY LedgerStepShape, RowChangeType, UnbookedVehicle, RowsStutter
<1> QED
  BY <1>1, TablesInitType, PTL DEF Spec

\* Run one at a time, handlers leave no reservation without an owner, the
\* deletion of vehicles included (VehiclesService.remove).
THEOREM LedgerReservationsOwned ==
  ASSUME "RESERVED" \notin OverrideStatuses
  PROVE  Spec => []NoOrphanReservation
<1>1. TablesInit => NoOrphanReservation
  BY TablesInitOwned
<1>2. TablesTypeOK /\ NoOrphanReservation /\ [Next]_rows => NoOrphanReservation'
  <2> SUFFICES ASSUME TablesTypeOK, NoOrphanReservation, [Next]_rows
               PROVE  NoOrphanReservation'
    OBVIOUS
  <2>1. ASSUME NEW v, DeleteVehicle(v),
               \A b \in Bookings : BookingExists(b) => VehicleOf[b] # v
        PROVE  NoOrphanReservation'
    BY <2>1, UnbookedVehicle DEF NoOrphanReservation, OnSlot, BookingExists
  <2> QED
    BY <2>1, LedgerStepShape, RowChangeReservation, RowsStutter
<1> QED
  BY <1>1, <1>2, LedgerTypeCorrect, PTL DEF Spec

-----------------------------------------------------------------------------

(***************************************************************************)
(* Sessions and their slots.  Neither part is inductive alone: a check-in  *)
(* keeps one session per slot because an ACTIVE session would have the     *)
(* slot OCCUPIED, a check-out frees the slot of no other session because   *)
(* there is none.                                                          *)
(***************************************************************************)
Parked == OneSessionPerSlot /\ ActiveSessionOccupiesSlot

\* Every row change of a handler keeps sessions and slots in agreement.
LEMMA ParkedStep ==
  ASSUME TablesTypeOK, Parked, Next, OverrideStatuses \subseteq {"OCCUPIED"}
  PROVE  Parked'
<1> USE DEF TablesTypeOK, Parked, OneSessionPerSlot, ActiveSessionOccupiesSlot
<1>o. ASSUME NEW b \in Bookings, BookingExists(b), eventStatus[b] # "ACTIVE",
             UNCHANGED bookingSlot,
             eventStatus' = [eventStatus EXCEPT ![b] = "ACTIVE"],
             slot' = [slot EXCEPT ![bookingSlot[b]] = "OCCUPIED"],
             ActiveOn(bookingSlot[b]) = {}
      PROVE  Parked'
  <2>1. \A a \in Bookings : eventStatus[a] = "ACTIVE" => bookingSlot[a] # bookingSlot[b]
    BY <1>o DEF ActiveOn, OnSlot, BookingExists
  <2> QED
    BY <1>o, <2>1 DEF BookingExists
<1>e. ASSUME NEW sl, slot[sl] # "OCCUPIED"
      PROVE  ActiveOn(sl) = {}
  BY <1>e DEF ActiveOn, OnSlot
<1>1. ASSUME NEW b \in Bookings, NEW sl \in Slots,
             reserveSlot(sl) \/ UNCHANGED slot, InsertBooking(b, sl)
      PROVE  Parked'
  <2>1. eventStatus[b] # "ACTIVE"
    BY <1>1 DEF InsertBooking, BookingStatus
  <2>2. \A a \in Bookings : eventStatus[a] = "ACTIVE" =>
          bookingSlot'[a] = bookingSlot[a] /\ slot'[bookingSlot[a]] = "OCCUPIED"
    BY <1>1, <2>1 DEF InsertBooking, reserveSlot, MoveSlot
  <2> QED
    BY <1>1, <2>2 DEF InsertBooking
<1>2. ASSUME NEW b \in Bookings, CheckInFirst(b)
      PROVE  Parked'
  BY <1>2, <1>o, <1>e DEF CheckInFirst, FirstVisit, OpenVisit, occupySlot, MoveSlot
<1>3. ASSUME NEW b \in Bookings, CheckInReturn(b)
      PROVE  Parked'
  <2>1. BookingExists(b) /\ bookingSlot[b] \in Slots
    BY <1>3 DEF CheckInReturn, BookingExists, BookingStatus
  <2>2. /\ slot' = [slot EXCEPT ![bookingSlot[b]] = "OCCUPIED"]
        /\ ActiveOn(bookingSlot[b]) = {}
    BY <1>3, <1>e, <2>1 DEF CheckInReturn, occupyAvailableSlot, occupySlot, MoveSlot
  <2> QED
    BY <1>3, <1>o, <2>1, <2>2 DEF CheckInReturn, ReturnVisit, OpenVisit
<1>4. ASSUME NEW b \in Bookings, CheckOut(b)
      PROVE  Parked'
  BY <1>4 DEF CheckOut, CloseVisit, releaseOccupiedSlot, MoveSlot
<1>5. ASSUME NEW b \in Bookings, Cancel(b)
      PROVE  Parked'
  BY <1>5 DEF Cancel, CancelBooking, releaseReservedSlot, MoveSlot
<1>6. ASSUME NEW v, DeleteVehicle(v)
      PROVE  Parked'
  BY <1>6 DEF DeleteVehicle, CascadeDelete
<1>7. ASSUME NEW sl \in Slots, NEW status \in SlotStatus,
             CreateSlot(sl, status) \/ UpdateSlotStatus(sl, "OCCUPIED")
      PROVE  Parked'
  BY <1>7 DEF CreateSlot, UpdateSlotStatus
<1>8. ASSUME NEW sl \in Slots, RemoveSlot(sl)
      PROVE  Parked'
  BY <1>8 DEF RemoveSlot, CascadeDelete, OnSlot, BookingExists
<1>9. CASE Administration
  BY <1>7, <1>8, <1>9, TablesAssumption DEF Administration, SlotStatus
<1> QED
  BY <1>1, <1>2, <1>3, <1>4, <1>5, <1>6, <1>9 DEF Next, Book, BookAssigned, RemoveVehicle

\* Sessions and occupied slots correspond in every state of the ledger.
LEMMA ParkedAlways ==
  ASSUME OverrideStatuses \subseteq {"OCCUPIED"}
  PROVE  Spec => []Parked
<1>1. TablesInit => Parked
  BY TablesInitSessions DEF Parked, OneSessionPerSlot, ActiveSessionOccupiesSlot
<1>2. TablesTypeOK /\ Parked /\ [Next]_rows => Parked'
  BY ParkedStep DEF rows, Parked, OneSessionPerSlot, ActiveSessionOccupiesSlot
<1> QED
  BY <1>1, <1>2, LedgerTypeCorrect, PTL DEF Spec

\* Run one at a time, check-ins never put two sessions on a slot, assigned slots
\* with several bookings included (ensureSlotReadyForReturnCheckIn).
THEOREM LedgerOneSession ==
  ASSUME OverrideStatuses \subseteq {"OCCUPIED"}
  PROVE  Spec => []OneSessionPerSlot
<1>1. Parked => OneSessionPerSlot
  BY DEF Parked
<1> QED
  BY <1>1, ParkedAlways, PTL

\* Run one at a time, the slot of an ACTIVE session is OCCUPIED, so its check-out
\* can release it (validateSlotOccupied).
THEOREM LedgerSessionSlot ==
  ASSUME OverrideStatuses \subseteq {"OCCUPIED"}
  PROVE  Spec => []ActiveSessionOccupiesSlot
<1>1. Parked => ActiveSessionOccupiesSlot
  BY DEF Parked
<1> QED
  BY <1>1, ParkedAlways, PTL

\* Run one at a time, no booking with an ACTIVE session is cancelled: cancelling
\* needs a RESERVED slot, and the session has it OCCUPIED (BookingsService.cancel).
THEOREM LedgerSessionConfirmed ==
  ASSUME OverrideStatuses \subseteq {"OCCUPIED"}
  PROVE  Spec => []ActiveSessionConfirmed
<1>1. TablesInit => ActiveSessionConfirmed
  BY TablesInitSessions DEF ActiveSessionConfirmed
<1>2. TablesTypeOK /\ Parked /\ ActiveSessionConfirmed /\ [Next]_rows => ActiveSessionConfirmed'
  <2> SUFFICES ASSUME TablesTypeOK, Parked, ActiveSessionConfirmed, [Next]_rows
               PROVE  ActiveSessionConfirmed'
    OBVIOUS
  <2> USE DEF TablesTypeOK, ActiveSessionConfirmed
  <2>1. ASSUME NEW b \in Bookings, NEW sl, InsertBooking(b, sl)
        PROVE  ActiveSessionConfirmed'
    BY <2>1 DEF InsertBooking
  <2>2. ASSUME NEW b \in Bookings, CheckInFirst(b)
        PROVE  ActiveSessionConfirmed'
    BY <2>2 DEF CheckInFirst, FirstVisit, OpenVisit
  <2>3. ASSUME NEW b \in Bookings, CheckInReturn(b)
        PROVE  ActiveSessionConfirmed'
    BY <2>3 DEF CheckInReturn, ReturnVisit, OpenVisit
  <2>4. ASSUME NEW b \in Bookings, CheckOut(b)
        PROVE  ActiveSessionConfirmed'
    BY <2>4 DEF CheckOut, CloseVisit
  <2>5. ASSUME NEW b \in Bookings, Cancel(b)
        PROVE  ActiveSessionConfirmed'
    <3>1. eventStatus[b] # "ACTIVE"
      BY <2>5 DEF Cancel, CancelBooking, releaseReservedSlot, MoveSlot, Parked,
                  ActiveSessionOccupiesSlot
    <3> QED
      BY <2>5, <3>1 DEF Cancel, CancelBooking
  <2>6. ASSUME NEW v, DeleteVehicle(v)
        PROVE  ActiveSessionConfirmed'
    BY <2>6 DEF DeleteVehicle, CascadeDelete
  <2>7. CASE Administration
    BY <2>7 DEF Administration, CreateSlot, UpdateSlotStatus, RemoveSlot, CascadeDelete
  <2>8. CASE UNCHANGED rows
    BY <2>8 DEF rows
  <2> QED
    BY <2>1, <2>2, <2>3, <2>4, <2>5, <2>6, <2>7, <2>8
       DEF Next, Book, BookAssigned, RemoveVehicle
<1> QED
  BY <1>1, <1>2, LedgerTypeCorrect, ParkedAlways, PTL DEF Spec
=============================================================================
