---------------------------- MODULE ParkingLedger ----------------------------
(***************************************************************************)
(* The parking handlers as they read in the source, each one atomic: what  *)
(* ParkingCore does whenever no transaction has been overtaken by another. *)
(***************************************************************************)
EXTENDS ParkingTables

Book(sl, b) ==
  /\ \A other \in OnSlot(sl) : bookingStatus[other] \notin ActiveBookingStatuses
  /\ reserveSlot(sl)
  /\ InsertBooking(b, sl)

\* Entry of a vehicle with a slot assignment and no booking: the slot is
\* reserved only if it is AVAILABLE, the booking is made in any case.
BookAssigned(sl, b) ==
  /\ sl \in AssignedSlots[VehicleOf[b]]
  /\ \/ reserveSlot(sl)
     \/ slot[sl] # "AVAILABLE" /\ UNCHANGED slot
  /\ InsertBooking(b, sl)

Cancel(b) ==
  /\ bookingStatus[b] \in ActiveBookingStatuses
  /\ CancelBooking(b)

CheckInFirst(b) ==
  /\ bookingStatus[b] = "CONFIRMED"
  /\ FirstVisit(b)

\* Fault: an OCCUPIED slot is taken to be free for the returning booking.
CheckInReturnAnyOccupied(b) ==
  /\ bookingStatus[b] \in {"CONFIRMED", "COMPLETED"}
  /\ eventStatus[b] = "COMPLETED"
  /\ \/ occupyAvailableSlot(bookingSlot[b])
     \/ occupySlot(bookingSlot[b])
     \/ slot[bookingSlot[b]] = "OCCUPIED" /\ UNCHANGED slot
  /\ ReturnVisit(b, bookingStatus[b])

\* Fault: a slot that is AVAILABLE is not occupied.
CheckInReturnNotOccupying(b) ==
  /\ bookingStatus[b] \in {"CONFIRMED", "COMPLETED"}
  /\ eventStatus[b] = "COMPLETED"
  /\ slot[bookingSlot[b]] = "AVAILABLE" /\ UNCHANGED slot
  /\ ReturnVisit(b, bookingStatus[b])

\* Fault: the status of the booking is not looked at.
CheckInReturnAnyBooking(b) ==
  /\ eventStatus[b] = "COMPLETED"
  /\ \/ occupyAvailableSlot(bookingSlot[b])
     \/ occupySlot(bookingSlot[b])
  /\ ReturnVisit(b, bookingStatus[b])

CheckInReturn(b) ==
  /\ bookingStatus[b] \in {"CONFIRMED", "COMPLETED"}
  /\ eventStatus[b] = "COMPLETED"
  /\ \/ occupyAvailableSlot(bookingSlot[b])
     \/ occupySlot(bookingSlot[b])
     \/ slot[bookingSlot[b]] = "OCCUPIED" /\ ActiveOn(bookingSlot[b]) = {} /\ UNCHANGED slot
  /\ ReturnVisit(b, bookingStatus[b])

CheckOut(b) == CloseVisit(b, visit[b])

RemoveVehicle(v) ==
  /\ v \in RemovableVehicles
  /\ \A b \in Bookings : BookingExists(b) => VehicleOf[b] # v
  /\ DeleteVehicle(v)

Next ==
  \/ \E b \in Bookings :
       \/ \E sl \in Slots : Book(sl, b) \/ BookAssigned(sl, b)
       \/ Cancel(b)
       \/ CheckInFirst(b)
       \/ CheckInReturn(b)
       \/ CheckOut(b)
  \/ \E v \in Vehicles : RemoveVehicle(v)
  \/ Administration

Spec == TablesInit /\ [][Next]_rows
=============================================================================
