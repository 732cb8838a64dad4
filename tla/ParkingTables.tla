---------------------------- MODULE ParkingTables ----------------------------
(***************************************************************************)
(* The rows of the slots, bookings and parking_events tables, and the      *)
(* row changes that the transactions of SlotLifecycleService,              *)
(* BookingsService, ParkingEventsService, SlotsService and VehiclesService *)
(* commit.  ParkingLedger and ParkingCore give the transactions that use   *)
(* them: one atomically, the other statement by statement.                 *)
(*                                                                         *)
(* parking_events.bookingId is unique, so the event row of a booking is    *)
(* keyed by the booking.  A check-in time is abstracted to the number of   *)
(* the visit it opens.                                                     *)
(***************************************************************************)
EXTENDS Naturals

CONSTANTS
  Slots,              \* slot ids
  Bookings,           \* booking ids, handed out in any order
  Vehicles,           \* vehicle ids
  None,               \* no slot, no booking, no vehicle
  VehicleOf,          \* the vehicle each booking id will be made for
  AssignedSlots,      \* the slots of a vehicle's ACTIVE slot assignments
  OverrideStatuses,   \* statuses administrators write to slots directly
  RemovableVehicles,  \* vehicles their owners may try to delete
  MaxVisits           \* bound: visits opened per booking

SlotStatus == {"AVAILABLE", "RESERVED", "OCCUPIED", "MAINTENANCE"}
BookingStatus == {"PENDING", "CONFIRMED", "CANCELLED", "COMPLETED", "EXPIRED"}
EventStatus == {"ACTIVE", "COMPLETED", "CANCELLED"}
ActiveBookingStatuses == {"PENDING", "CONFIRMED"}

ASSUME TablesAssumption ==
  /\ None \notin Slots \cup Bookings \cup Vehicles
  /\ VehicleOf \in [Bookings -> Vehicles]
  /\ AssignedSlots \in [Vehicles -> SUBSET Slots]
  /\ OverrideStatuses \subseteq SlotStatus
  /\ RemovableVehicles \subseteq Vehicles
  /\ MaxVisits \in Nat

VARIABLES
  slot,           \* status of a slot row; "NONE" before it is created, "GONE" after it is deleted
  bookingStatus,  \* status of a booking row; "NONE" and "GONE" as for slots
  bookingSlot,    \* slotId of a booking row
  eventStatus,    \* status of the booking's parking event; "NONE" when there is no row
  visit,          \* visits opened on the booking: its PARKING_CHECKED_IN messages
  closed,         \* visits closed: its PARKING_CHECKED_OUT messages
  billed,         \* the visit whose check-in time the stored fee was computed from; 0: null
  registered      \* the vehicle rows

rows == <<slot, bookingStatus, bookingSlot, eventStatus, visit, closed, billed, registered>>

TablesTypeOK ==
  /\ slot \in [Slots -> SlotStatus \cup {"NONE", "GONE"}]
  /\ bookingStatus \in [Bookings -> BookingStatus \cup {"NONE", "GONE"}]
  /\ bookingSlot \in [Bookings -> Slots \cup {None}]
  /\ \A b \in Bookings : bookingStatus[b] \in BookingStatus => bookingSlot[b] \in Slots
  /\ eventStatus \in [Bookings -> EventStatus \cup {"NONE"}]
  /\ \A b \in Bookings : eventStatus[b] # "NONE" => bookingStatus[b] \in BookingStatus
  /\ visit \in [Bookings -> Nat]
  /\ closed \in [Bookings -> Nat]
  /\ billed \in [Bookings -> Nat]
  /\ registered \subseteq Vehicles

(***************************************************************************)
(* The database as the demo seed leaves it: at most one booking per slot,  *)
(* a finished visit on an AVAILABLE one, a CONFIRMED booking on a RESERVED *)
(* one, an open visit on an OCCUPIED one; none on a MAINTENANCE one.  Rows *)
(* that the seed makes for show and no handler can make are left out: the  *)
(* RESERVED slots after the first six have no booking, and its test data   *)
(* add second bookings and second ACTIVE events to slots in use.           *)
(***************************************************************************)
TablesInit ==
  /\ slot \in [Slots -> SlotStatus \cup {"NONE"}]
  /\ bookingSlot \in [Bookings -> Slots \cup {None}]
  /\ \A a, b \in Bookings : a # b /\ bookingSlot[a] = bookingSlot[b] => bookingSlot[a] = None
  /\ \A b \in Bookings : bookingSlot[b] # None => slot[bookingSlot[b]] \notin {"MAINTENANCE", "NONE"}
  /\ \A sl \in Slots : slot[sl] \in {"RESERVED", "OCCUPIED"} => \E b \in Bookings : bookingSlot[b] = sl
  /\ LET onSlot(b, status) == bookingSlot[b] # None /\ slot[bookingSlot[b]] = status
     IN  /\ bookingStatus = [b \in Bookings |->
               IF bookingSlot[b] = None THEN "NONE"
               ELSE IF onSlot(b, "AVAILABLE") THEN "COMPLETED" ELSE "CONFIRMED"]
         /\ eventStatus = [b \in Bookings |->
               IF onSlot(b, "AVAILABLE") THEN "COMPLETED"
               ELSE IF onSlot(b, "OCCUPIED") THEN "ACTIVE" ELSE "NONE"]
         /\ visit = [b \in Bookings |-> IF eventStatus[b] = "NONE" THEN 0 ELSE 1]
         /\ closed = [b \in Bookings |-> IF onSlot(b, "AVAILABLE") THEN 1 ELSE 0]
  /\ billed = closed
  /\ registered = Vehicles

-----------------------------------------------------------------------------
(* The row changes.                                                        *)

BookingExists(b) == bookingStatus[b] \in BookingStatus
SlotExists(sl) == slot[sl] \in SlotStatus
OnSlot(sl) == {b \in Bookings : BookingExists(b) /\ bookingSlot[b] = sl}
ActiveOn(sl) == {b \in OnSlot(sl) : eventStatus[b] = "ACTIVE"}

\* updateMany with the expected status in its WHERE clause: count # 1 rolls back.
MoveSlot(sl, from, to) ==
  /\ slot[sl] = from
  /\ slot' = [slot EXCEPT ![sl] = to]

reserveSlot(sl) == MoveSlot(sl, "AVAILABLE", "RESERVED")
occupySlot(sl) == MoveSlot(sl, "RESERVED", "OCCUPIED")
occupyAvailableSlot(sl) == MoveSlot(sl, "AVAILABLE", "OCCUPIED")
releaseReservedSlot(sl) == MoveSlot(sl, "RESERVED", "AVAILABLE")
releaseOccupiedSlot(sl) == MoveSlot(sl, "OCCUPIED", "AVAILABLE")

\* INSERT of a booking: its vehicle and slot must exist (foreign keys).
InsertBooking(b, sl) ==
  /\ bookingStatus[b] = "NONE"
  /\ VehicleOf[b] \in registered
  /\ SlotExists(sl)
  /\ bookingStatus' = [bookingStatus EXCEPT ![b] = "CONFIRMED"]
  /\ bookingSlot' = [bookingSlot EXCEPT ![b] = sl]
  /\ UNCHANGED <<eventStatus, visit, closed, billed, registered>>

\* The event becomes ACTIVE, by INSERT or by UPDATE, with a new check-in time
\* and no fee, and PARKING_CHECKED_IN is published.
OpenVisit(b) ==
  /\ visit[b] < MaxVisits
  /\ eventStatus' = [eventStatus EXCEPT ![b] = "ACTIVE"]
  /\ visit' = [visit EXCEPT ![b] = @ + 1]
  /\ billed' = [billed EXCEPT ![b] = 0]
  /\ UNCHANGED <<bookingSlot, closed, registered>>

\* First visit: the slot was reserved, the event row must not exist yet.
FirstVisit(b) ==
  /\ BookingExists(b)
  /\ eventStatus[b] = "NONE"
  /\ occupySlot(bookingSlot[b])
  /\ OpenVisit(b)
  /\ UNCHANGED bookingStatus

\* Return visit: the event row is reused; a booking that was read as COMPLETED
\* is CONFIRMED again.
ReturnVisit(b, seenStatus) ==
  /\ eventStatus[b] # "NONE"
  /\ OpenVisit(b)
  /\ bookingStatus' =
       IF seenStatus = "COMPLETED" THEN [bookingStatus EXCEPT ![b] = "CONFIRMED"]
                                   ELSE bookingStatus

\* Fault: the update of the event is not conditional on its status.
CloseVisitUnchecked(b, seenVisit) ==
  /\ eventStatus' = [eventStatus EXCEPT ![b] = "COMPLETED"]
  /\ billed' = [billed EXCEPT ![b] = seenVisit]
  /\ closed' = [closed EXCEPT ![b] = @ + 1]
  /\ bookingStatus' = [bookingStatus EXCEPT ![b] = "CONFIRMED"]
  /\ releaseOccupiedSlot(bookingSlot[b])
  /\ UNCHANGED <<bookingSlot, visit, registered>>

\* Fault: the slot is not released.
CloseVisitKeepingSlot(b, seenVisit) ==
  /\ eventStatus[b] = "ACTIVE"
  /\ eventStatus' = [eventStatus EXCEPT ![b] = "COMPLETED"]
  /\ billed' = [billed EXCEPT ![b] = seenVisit]
  /\ closed' = [closed EXCEPT ![b] = @ + 1]
  /\ bookingStatus' = [bookingStatus EXCEPT ![b] = "CONFIRMED"]
  /\ UNCHANGED <<slot, bookingSlot, visit, registered>>

\* Check-out: event COMPLETED with the fee of the visit that was read, booking
\* CONFIRMED, slot released, PARKING_CHECKED_OUT published.
CloseVisit(b, seenVisit) ==
  /\ eventStatus[b] = "ACTIVE"
  /\ eventStatus' = [eventStatus EXCEPT ![b] = "COMPLETED"]
  /\ billed' = [billed EXCEPT ![b] = seenVisit]
  /\ closed' = [closed EXCEPT ![b] = @ + 1]
  /\ bookingStatus' = [bookingStatus EXCEPT ![b] = "CONFIRMED"]
  /\ releaseOccupiedSlot(bookingSlot[b])
  /\ UNCHANGED <<bookingSlot, visit, registered>>

\* Fault: the slot is not released.
CancelBookingKeepingSlot(b) ==
  /\ BookingExists(b)
  /\ bookingStatus' = [bookingStatus EXCEPT ![b] = "CANCELLED"]
  /\ UNCHANGED <<slot, bookingSlot, eventStatus, visit, closed, billed, registered>>

CancelBooking(b) ==
  /\ BookingExists(b)
  /\ bookingStatus' = [bookingStatus EXCEPT ![b] = "CANCELLED"]
  /\ releaseReservedSlot(bookingSlot[b])
  /\ UNCHANGED <<bookingSlot, eventStatus, visit, closed, billed, registered>>

\* Fault: the events stay behind.
CascadeDeleteBookings(bs) ==
  /\ bookingStatus' = [b \in Bookings |-> IF b \in bs THEN "GONE" ELSE bookingStatus[b]]
  /\ UNCHANGED <<bookingSlot, eventStatus, visit, closed, billed>>

\* ON DELETE CASCADE from a slot or a vehicle to its bookings and their events.
CascadeDelete(bs) ==
  /\ bookingStatus' = [b \in Bookings |-> IF b \in bs THEN "GONE" ELSE bookingStatus[b]]
  /\ eventStatus' = [b \in Bookings |-> IF b \in bs THEN "NONE" ELSE eventStatus[b]]
  /\ UNCHANGED <<bookingSlot, visit, closed, billed>>

DeleteVehicle(v) ==
  /\ v \in registered
  /\ registered' = registered \ {v}
  /\ CascadeDelete({b \in Bookings : BookingExists(b) /\ VehicleOf[b] = v})
  /\ UNCHANGED slot

-----------------------------------------------------------------------------
(* Administration of slots: single statements, whatever the slot's state.  *)

CreateSlot(sl, status) ==
  /\ slot[sl] = "NONE"
  /\ slot' = [slot EXCEPT ![sl] = status]
  /\ UNCHANGED <<bookingStatus, bookingSlot, eventStatus, visit, closed, billed, registered>>

UpdateSlotStatus(sl, status) ==
  /\ SlotExists(sl)
  /\ slot' = [slot EXCEPT ![sl] = status]
  /\ UNCHANGED <<bookingStatus, bookingSlot, eventStatus, visit, closed, billed, registered>>

RemoveSlot(sl) ==
  /\ SlotExists(sl)
  /\ slot' = [slot EXCEPT ![sl] = "GONE"]
  /\ CascadeDelete(OnSlot(sl))
  /\ UNCHANGED registered

Administration ==
  \E sl \in Slots :
    \/ CreateSlot(sl, "AVAILABLE")
    \/ \E status \in OverrideStatuses : CreateSlot(sl, status) \/ UpdateSlotStatus(sl, status)
    \/ RemoveSlot(sl)

-----------------------------------------------------------------------------
(* What the rows should say about each other.                              *)

\* A RESERVED slot is held by a CONFIRMED booking that has not been started:
\* cancelling, checking in or deleting never leaves a reservation nobody owns
\* (slot-lifecycle.service.ts, bookings.service.ts).
NoOrphanReservation ==
  \A sl \in Slots : slot[sl] = "RESERVED" =>
    \E b \in OnSlot(sl) : bookingStatus[b] = "CONFIRMED" /\ eventStatus[b] = "NONE"

\* An OCCUPIED slot has an ACTIVE parking event that can release it
\* (parking-events.service.ts).
NoPhantomOccupancy ==
  \A sl \in Slots : slot[sl] = "OCCUPIED" => ActiveOn(sl) # {}

\* Every PARKING_CHECKED_OUT has its own PARKING_CHECKED_IN before it, and a
\* visit that is still open has not been closed: no visit is billed twice.
VisitsBalance ==
  \A b \in Bookings : closed[b] <= visit[b] /\ (eventStatus[b] = "ACTIVE" => closed[b] < visit[b])

\* A slot holds at most one ACTIVE parking event.
OneSessionPerSlot ==
  \A a, b \in Bookings :
    /\ eventStatus[a] = "ACTIVE" /\ eventStatus[b] = "ACTIVE"
    /\ bookingSlot[a] = bookingSlot[b]
    => a = b

\* The slot of an ACTIVE parking event is OCCUPIED, so check-out can release it.
ActiveSessionOccupiesSlot ==
  \A b \in Bookings : eventStatus[b] = "ACTIVE" => slot[bookingSlot[b]] = "OCCUPIED"

\* A session is ACTIVE only on a CONFIRMED booking.
ActiveSessionConfirmed ==
  \A b \in Bookings : eventStatus[b] = "ACTIVE" => bookingStatus[b] = "CONFIRMED"
=============================================================================
