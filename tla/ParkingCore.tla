----------------------------- MODULE ParkingCore -----------------------------
(***************************************************************************)
(* Bookings, slots and parking events under concurrent requests.           *)
(*                                                                         *)
(* Each session runs one request at a time in a READ COMMITTED transaction *)
(* (the Prisma default).  A plain read is a step of its own: what it saw   *)
(* may be stale when it is used.  The writes of a transaction touch rows   *)
(* it then holds locked until it commits, and nobody sees them before, so  *)
(* they are one step with the commit; a conditional update is evaluated    *)
(* on the rows as committed at that step.  A read that only repeats the    *)
(* condition of the update after it is merged with that update.            *)
(*                                                                         *)
(* A transaction whose guard fails is refused and rolls back; so does one  *)
(* that loses its connection or exceeds its time: Rollback.                *)
(***************************************************************************)
EXTENDS ParkingTables

CONSTANT Sessions  \* requests being served at the same time

VARIABLE tx        \* the transaction of each session

vars == <<rows, tx>>

Steps == {"idle", "create.count", "create.write", "assign.write",
          "in.event", "in.first", "in.return", "in.busy", "in.write",
          "out.write", "cancel.write", "vehicle.delete"}

\* What a transaction remembers of its request and of the rows it has read.
Transaction == [at      : Steps,
                booking : Bookings \cup {None},
                slot    : Slots \cup {None},
                vehicle : Vehicles \cup {None},
                seen    : SlotStatus \cup BookingStatus \cup {None},
                visit   : Nat]

Idle == [at |-> "idle", booking |-> None, slot |-> None, vehicle |-> None,
         seen |-> None, visit |-> 0]

\* What a transaction knows by the step it is at.
TransactionOK(t) ==
  /\ t.at \in {"create.count", "create.write", "assign.write"} => t.slot \in Slots
  /\ t.at \in {"in.event", "in.first", "in.return", "in.busy", "in.write"} =>
       t.booking \in Bookings /\ t.seen \in BookingStatus
  /\ t.at \in {"out.write", "cancel.write"} => t.booking \in Bookings
  /\ t.at = "vehicle.delete" => t.vehicle \in RemovableVehicles

TypeOK ==
  /\ TablesTypeOK
  /\ tx \in [Sessions -> Transaction]
  /\ \A s \in Sessions : TransactionOK(tx[s])

Init == TablesInit /\ tx = [s \in Sessions |-> Idle]

\* The session reads, and remembers what it needs.
Begin(s, remembered) ==
  /\ tx[s] = Idle
  /\ tx' = [tx EXCEPT ![s] = remembered]
  /\ UNCHANGED rows

At(s, step) == tx[s].at = step

\* The session reads again and goes on.
Continue(s, to) ==
  /\ tx' = [tx EXCEPT ![s].at = to]
  /\ UNCHANGED rows

\* The session commits its writes.
Commit(s, step) ==
  /\ At(s, step)
  /\ tx' = [tx EXCEPT ![s] = Idle]

Rollback(s) ==
  /\ tx[s] # Idle
  /\ tx' = [tx EXCEPT ![s] = Idle]
  /\ UNCHANGED rows

-----------------------------------------------------------------------------
(* BookingsService.create *)

ReadSlotAvailable(s, v, sl) ==
  /\ v \in registered
  /\ slot[sl] = "AVAILABLE"
  /\ Begin(s, [Idle EXCEPT !.at = "create.count", !.slot = sl, !.vehicle = v])

\* Fault: other bookings on the slot are not counted.
CountNoBookings(s) ==
  /\ At(s, "create.count")
  /\ Continue(s, "create.write")

CountActiveBookings(s) ==
  /\ At(s, "create.count")
  /\ \A b \in OnSlot(tx[s].slot) : bookingStatus[b] \notin ActiveBookingStatuses
  /\ Continue(s, "create.write")

CommitBooking(s, b) ==
  /\ Commit(s, "create.write")
  /\ VehicleOf[b] = tx[s].vehicle
  /\ reserveSlot(tx[s].slot)
  /\ InsertBooking(b, tx[s].slot)

-----------------------------------------------------------------------------
(* IotParkingOrchestrationService.ensureAssignmentBooking: the slot status  *)
(* is read with the assignment, before the transaction.  The vehicle has no *)
(* CONFIRMED booking whose time window is open; times are not modelled, so  *)
(* any vehicle may come this way.                                           *)

ReadAssignment(s, v, sl) ==
  /\ v \in registered
  /\ sl \in AssignedSlots[v]
  /\ SlotExists(sl)
  /\ Begin(s, [Idle EXCEPT !.at = "assign.write", !.slot = sl, !.vehicle = v, !.seen = slot[sl]])

CommitAssignedBooking(s, b) ==
  /\ Commit(s, "assign.write")
  /\ VehicleOf[b] = tx[s].vehicle
  /\ IF tx[s].seen = "AVAILABLE" THEN reserveSlot(tx[s].slot) ELSE UNCHANGED slot
  /\ InsertBooking(b, tx[s].slot)

-----------------------------------------------------------------------------
(* BookingsService.cancel *)

ReadCancellable(s, b) ==
  /\ bookingStatus[b] \in ActiveBookingStatuses
  /\ Begin(s, [Idle EXCEPT !.at = "cancel.write", !.booking = b])

CommitCancel(s) ==
  /\ Commit(s, "cancel.write")
  /\ CancelBooking(tx[s].booking)

-----------------------------------------------------------------------------
(* ParkingEventsService.checkIn and checkInForSystem *)

ReadBooking(s, b) ==
  /\ bookingStatus[b] \in {"CONFIRMED", "COMPLETED"}
  /\ Begin(s, [Idle EXCEPT !.at = "in.event", !.booking = b, !.seen = bookingStatus[b]])

ReadNoEvent(s) ==
  /\ At(s, "in.event")
  /\ eventStatus[tx[s].booking] = "NONE"
  /\ tx[s].seen = "CONFIRMED"
  /\ Continue(s, "in.first")

ReadCompletedEvent(s) ==
  /\ At(s, "in.event")
  /\ eventStatus[tx[s].booking] = "COMPLETED"
  /\ Continue(s, "in.return")

CommitFirstCheckIn(s) ==
  /\ Commit(s, "in.first")
  /\ FirstVisit(tx[s].booking)

CommitReturnCheckIn(s) ==
  /\ Commit(s, "in.return")
  /\ \/ occupyAvailableSlot(bookingSlot[tx[s].booking])
     \/ occupySlot(bookingSlot[tx[s].booking])
  /\ ReturnVisit(tx[s].booking, tx[s].seen)

\* ensureSlotReadyForReturnCheckIn on an OCCUPIED slot: ready if a second read
\* finds no ACTIVE event there.  No write re-checks the slot after that.
ReadSlotOccupied(s) ==
  /\ At(s, "in.return")
  /\ slot[bookingSlot[tx[s].booking]] = "OCCUPIED"
  /\ Continue(s, "in.busy")

ReadNoActiveEventOnSlot(s) ==
  /\ At(s, "in.busy")
  /\ ActiveOn(bookingSlot[tx[s].booking]) = {}
  /\ Continue(s, "in.write")

CommitReturnToOccupied(s) ==
  /\ Commit(s, "in.write")
  /\ ReturnVisit(tx[s].booking, tx[s].seen)
  /\ UNCHANGED slot

-----------------------------------------------------------------------------
(* ParkingEventsService.executeCheckOutTransaction *)

ReadActiveEvent(s, b) ==
  /\ eventStatus[b] = "ACTIVE"
  /\ Begin(s, [Idle EXCEPT !.at = "out.write", !.booking = b, !.visit = visit[b]])

CommitCheckOut(s) ==
  /\ Commit(s, "out.write")
  /\ CloseVisit(tx[s].booking, tx[s].visit)

-----------------------------------------------------------------------------
(* VehiclesService.remove *)

CountVehicleBookings(s, v) ==
  /\ v \in RemovableVehicles \cap registered
  /\ \A b \in Bookings : BookingExists(b) => VehicleOf[b] # v
  /\ Begin(s, [Idle EXCEPT !.at = "vehicle.delete", !.vehicle = v])

CommitRemoveVehicle(s) ==
  /\ Commit(s, "vehicle.delete")
  /\ DeleteVehicle(tx[s].vehicle)

-----------------------------------------------------------------------------

Booking(s) ==
  \/ \E v \in Vehicles, sl \in Slots : ReadSlotAvailable(s, v, sl) \/ ReadAssignment(s, v, sl)
  \/ CountActiveBookings(s)
  \/ \E b \in Bookings : CommitBooking(s, b) \/ CommitAssignedBooking(s, b)

Cancelling(s) ==
  \/ \E b \in Bookings : ReadCancellable(s, b)
  \/ CommitCancel(s)

CheckingIn(s) ==
  \/ \E b \in Bookings : ReadBooking(s, b)
  \/ ReadNoEvent(s) \/ ReadCompletedEvent(s)
  \/ CommitFirstCheckIn(s)
  \/ CommitReturnCheckIn(s)
  \/ ReadSlotOccupied(s)
  \/ ReadNoActiveEventOnSlot(s)
  \/ CommitReturnToOccupied(s)

CheckingOut(s) ==
  \/ \E b \in Bookings : ReadActiveEvent(s, b)
  \/ CommitCheckOut(s)

RemovingVehicle(s) ==
  \/ \E v \in Vehicles : CountVehicleBookings(s, v)
  \/ CommitRemoveVehicle(s)

Next ==
  \/ \E s \in Sessions :
       \/ Booking(s) \/ Cancelling(s) \/ CheckingIn(s) \/ CheckingOut(s)
       \/ RemovingVehicle(s) \/ Rollback(s)
  \/ Administration /\ UNCHANGED tx

Spec == Init /\ [][Next]_vars

-----------------------------------------------------------------------------
(* What the documents say of it.                                           *)

\* "Double booking the same slot returns conflict" (backend/README.md): a slot
\* has at most one booking that has been confirmed and not started.
NoDoubleBooking ==
  \A a, b \in Bookings :
    /\ bookingStatus[a] = "CONFIRMED" /\ eventStatus[a] = "NONE"
    /\ bookingStatus[b] = "CONFIRMED" /\ eventStatus[b] = "NONE"
    /\ bookingSlot[a] = bookingSlot[b]
    => a = b

\* "Booking must be CONFIRMED" (backend/README.md): no check-in opens a visit on
\* a booking that has been cancelled.
CancelledNeverAdmitted ==
  [][\A b \in Bookings : visit'[b] > visit[b] => bookingStatus[b] # "CANCELLED"]_vars

\* "Duplicate check-in for the same booking is blocked" (backend/README.md):
\* no check-in succeeds while a visit of its booking is open.
DuplicateCheckInBlocked ==
  [][\A b \in Bookings : visit'[b] > visit[b] => eventStatus[b] # "ACTIVE"]_vars

\* "Check-out marks the booking as COMPLETED" (backend/README.md).
CheckOutCompletesBooking ==
  [][\A b \in Bookings : closed'[b] > closed[b] => bookingStatus'[b] = "COMPLETED"]_vars

\* "Vehicle with bookings cannot be deleted" (vehicles.service.ts): deleting a
\* vehicle never deletes a booking with it.
BookedVehicleKept ==
  [][\A b \in Bookings :
       VehicleOf[b] \in registered \ registered' => ~BookingExists(b)]_vars
=============================================================================
