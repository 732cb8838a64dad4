--------------------------- MODULE ParkingOverlaps ---------------------------
(***************************************************************************)
(* What overlapping requests may do that requests one after the other      *)
(* would not.  The code serialises nothing: ParkingCore is compared with   *)
(* the atomic handlers of ParkingLedger as it runs, and a history variable *)
(* tells which open transactions have been overtaken: since they began to  *)
(* read, somebody else has changed a row that they read.                   *)
(***************************************************************************)
EXTENDS ParkingCore

VARIABLE overtaken  \* history: the sessions whose transaction has been overtaken

overlapVars == <<vars, overtaken>>

\* The slot that a request is about.
SlotOf(t) == IF t.booking = None THEN t.slot ELSE bookingSlot[t.booking]

BookingRow(b) == <<bookingStatus[b], bookingSlot[b], eventStatus[b], visit[b]>>

\* A step changes a row that t has read or reads next: its slot, a booking on that
\* slot or the event of one; for the deletion of a vehicle, a booking for it.
Touches(t) ==
  \/ \E sl \in Slots : sl = SlotOf(t) /\ slot'[sl] # slot[sl]
  \/ \E b \in Bookings :
       /\ BookingRow(b)' # BookingRow(b)
       /\ \/ bookingSlot'[b] = SlotOf(t)
          \/ t.at = "vehicle.delete" /\ VehicleOf[b] = t.vehicle

Record ==
  overtaken' = {s \in Sessions : /\ Idle \notin {tx[s], tx'[s]}
                                 /\ s \in overtaken \/ Touches(tx[s])}

OverlapInit == Init /\ overtaken = {}

OverlapSpec == OverlapInit /\ [][Next /\ Record]_overlapVars

-----------------------------------------------------------------------------
(* What a commit writes when what it had read no longer holds.             *)

\* The slot was counted free, and has an active booking.
BooksOverActive(t) ==
  /\ t.at = "create.write"
  /\ \E b \in Bookings :
       /\ reserveSlot(t.slot)
       /\ InsertBooking(b, t.slot)
  /\ \E other \in OnSlot(t.slot) : bookingStatus[other] \in ActiveBookingStatuses

\* The assigned slot was read in use, and is AVAILABLE: it is booked, not reserved.
BooksUnreserved(t) ==
  /\ t.at = "assign.write"
  /\ \E b \in Bookings : InsertBooking(b, t.slot)
  /\ slot[t.slot] = "AVAILABLE" /\ UNCHANGED slot

\* The booking has been cancelled by another: a reservation that is not its own goes.
CancelsAgain(t) ==
  /\ t.at = "cancel.write"
  /\ bookingStatus[t.booking] = "CANCELLED"
  /\ CancelBooking(t.booking)

\* The booking has been cancelled: a reservation that is not its own is used.
AdmitsCancelledFirst(t) ==
  /\ t.at = "in.first"
  /\ bookingStatus[t.booking] = "CANCELLED"
  /\ FirstVisit(t.booking)

\* The booking has been cancelled, or admitted by another; or its slot, read as
\* OCCUPIED by nobody, is in another state or has a session.
ReturnsLate(t) ==
  /\ t.at \in {"in.return", "in.write"}
  /\ \/ bookingStatus[t.booking] = "CANCELLED"
     \/ eventStatus[t.booking] = "ACTIVE"
     \/ t.at = "in.write" /\ slot[bookingSlot[t.booking]] # "OCCUPIED"
     \/ t.at = "in.write" /\ ActiveOn(bookingSlot[t.booking]) # {}
  /\ ReturnVisit(t.booking, t.seen)
  /\ IF t.at = "in.return" THEN slot'[bookingSlot[t.booking]] = "OCCUPIED" ELSE UNCHANGED slot

\* The visit has been closed and another opened: the fee is that of the one read.
BillsEarlierVisit(t) ==
  /\ t.at = "out.write"
  /\ t.visit < visit[t.booking]
  /\ CloseVisit(t.booking, t.visit)

\* A booking for the vehicle has been made: it is deleted with the vehicle.
DeletesBooked(t) ==
  /\ t.at = "vehicle.delete"
  /\ \E b \in Bookings : BookingExists(b) /\ VehicleOf[b] = t.vehicle
  /\ DeleteVehicle(t.vehicle)

Deviates(t) ==
  \/ BooksOverActive(t) \/ BooksUnreserved(t)
  \/ CancelsAgain(t)
  \/ AdmitsCancelledFirst(t) \/ ReturnsLate(t)
  \/ BillsEarlierVisit(t)
  \/ DeletesBooked(t)

-----------------------------------------------------------------------------

Ledger == INSTANCE ParkingLedger

\* However requests overlap, every change of the rows is what one handler of
\* ParkingLedger does in one step, or the commit of a request that was overtaken,
\* and then one of the seven deviations above: only a read that went stale does
\* harm, and no other harm (bookings.service.ts, parking-events.service.ts,
\* iot-parking-orchestration.service.ts, vehicles.service.ts).
OnlyOvertakenDeviate ==
  [][Ledger!Next \/ \E s \in overtaken : Deviates(tx[s]) /\ tx'[s] = Idle]_rows
=============================================================================
