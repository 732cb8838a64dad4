----------------------------- MODULE SecurityGate -----------------------------
(***************************************************************************)
(* security-gate.service.ts: what the guard's search offers for a booking,  *)
(* a vehicle or a phone number, next to the ledger it reads.  A search      *)
(* changes nothing; the guard then calls the check-in or check-out itself.  *)
(***************************************************************************)
EXTENDS ParkingLedger

VARIABLE
  later     \* pairs of bookings of one vehicle: the first one's event got its time,
            \* the check-in if it is ACTIVE or the check-out, after the second one's

\* Strict and total between the events of a vehicle.
TimesOrdered ==
  /\ \A pair \in later :
       /\ VehicleOf[pair[1]] = VehicleOf[pair[2]]
       /\ eventStatus[pair[1]] # "NONE" /\ eventStatus[pair[2]] # "NONE"
  /\ \A a, b \in Bookings :
       /\ ~ (<<a, b>> \in later /\ <<b, a>> \in later)
       /\ a # b /\ VehicleOf[a] = VehicleOf[b] /\ eventStatus[a] # "NONE" /\ eventStatus[b] # "NONE"
            => <<a, b>> \in later \/ <<b, a>> \in later
  /\ \A a, b, c \in Bookings : <<a, b>> \in later /\ <<b, c>> \in later => <<a, c>> \in later

SearchInit ==
  /\ TablesInit
  /\ later \in SUBSET (Bookings \X Bookings)
  /\ TimesOrdered

\* A visit that opens or closes gives the event its time; a deleted event has none.
Stamped ==
  LET stamps(b) == visit'[b] # visit[b] \/ closed'[b] # closed[b]
      keeps(b) == eventStatus'[b] # "NONE" /\ ~ stamps(b)
  IN {pair \in later : keeps(pair[1]) /\ keeps(pair[2])}
       \cup {pair \in Bookings \X Bookings :
               VehicleOf[pair[1]] = VehicleOf[pair[2]] /\ stamps(pair[1]) /\ keeps(pair[2])}

SearchNext == Next /\ later' = Stamped

SearchSpec == SearchInit /\ [][SearchNext]_<<rows, later>>

Later(a, b) == <<a, b>> \in later
Latest(bs) == {b \in bs : \A other \in bs \ {b} : Later(b, other)}
EventsOf(v) == {b \in Bookings : eventStatus[b] # "NONE" /\ VehicleOf[b] = v}

-----------------------------------------------------------------------------
(* The searches.  Without a booking there is no result.                    *)

Offer(action, b) == [action |-> action, booking |-> b]

\* Fault: a slot that is not AVAILABLE is taken to be left behind OCCUPIED.
isSlotReadyForReturnCheckInWhenQuiet(sl) == slot[sl] = "AVAILABLE" \/ ActiveOn(sl) = {}

isSlotReadyForReturnCheckIn(sl) ==
  slot[sl] = "AVAILABLE" \/ (slot[sl] = "OCCUPIED" /\ ActiveOn(sl) = {})

\* A car that has left may come back on a CONFIRMED booking.
buildReturnCheckInResolved(b) ==
  /\ bookingStatus[b] = "CONFIRMED" /\ isSlotReadyForReturnCheckIn(bookingSlot[b])
  /\ eventStatus[b] = "COMPLETED"

\* resolveBookingGateActionForBooking.
resolveBookingGateAction(b) ==
  IF eventStatus[b] = "ACTIVE" THEN Offer("CHECK_OUT", b)
  ELSE IF \/ bookingStatus[b] = "CONFIRMED" /\ eventStatus[b] = "NONE"
          \/ buildReturnCheckInResolved(b)
  THEN Offer("CHECK_IN", b)
  ELSE Offer("NONE", b)

BookingsOf(v) == {b \in Bookings : BookingExists(b) /\ VehicleOf[b] = v}

\* The latest session of a confirmed booking, if its slot is ready: not the latest
\* whose slot is ready.
findLatestReturnCheckInSession(v) ==
  {b \in Latest({e \in BookingsOf(v) : eventStatus[e] = "COMPLETED" /\ bookingStatus[e] = "CONFIRMED"}) :
     isSlotReadyForReturnCheckIn(bookingSlot[b])}

\* Fault: any visit that has ended hides the one that has not.
CheckOutOfVehicleNeverLeft(v) ==
  {b \in Latest({e \in BookingsOf(v) : eventStatus[e] = "ACTIVE"}) :
     \A other \in BookingsOf(v) : eventStatus[other] # "COMPLETED"}

\* The ACTIVE session that began last, unless the vehicle has left since then.
CheckOutOfVehicle(v) ==
  {b \in Latest({e \in BookingsOf(v) : eventStatus[e] = "ACTIVE"}) :
     \A other \in BookingsOf(v) : eventStatus[other] = "COMPLETED" => ~ Later(other, b)}

FirstVisits(v) == {b \in BookingsOf(v) : bookingStatus[b] = "CONFIRMED" /\ eventStatus[b] = "NONE"}

\* Among the first visits it takes the newest booking; ids have no order here.
resolveVehicleGateAction(v) ==
  IF CheckOutOfVehicle(v) # {} THEN {Offer("CHECK_OUT", b) : b \in CheckOutOfVehicle(v)}
  ELSE IF findLatestReturnCheckInSession(v) # {}
  THEN {Offer("CHECK_IN", b) : b \in findLatestReturnCheckInSession(v)}
  ELSE IF FirstVisits(v) # {} THEN {Offer("CHECK_IN", b) : b \in FirstVisits(v)}
  ELSE LET left == Latest({b \in BookingsOf(v) : eventStatus[b] = "COMPLETED"})
       IN {Offer("NONE", b) : b \in IF left # {} THEN left ELSE BookingsOf(v)}

\* A user has one vehicle here, so his bookings are those of the vehicle.
resolvePhoneGateAction(v) ==
  {resolveBookingGateAction(b) : b \in {x \in BookingsOf(v) : bookingStatus[x] # "CANCELLED"}}

-----------------------------------------------------------------------------
(* Properties                                                              *)

\* What the API would do next.
CheckOutSucceeds(b) == eventStatus[b] = "ACTIVE" /\ slot[bookingSlot[b]] = "OCCUPIED"
CheckInSucceeds(b) ==
  IF eventStatus[b] = "NONE"
  THEN bookingStatus[b] = "CONFIRMED" /\ slot[bookingSlot[b]] = "RESERVED"
  ELSE /\ eventStatus[b] = "COMPLETED" /\ bookingStatus[b] \in {"CONFIRMED", "COMPLETED"}
       /\ \/ slot[bookingSlot[b]] \in {"AVAILABLE", "RESERVED"}
          \/ slot[bookingSlot[b]] = "OCCUPIED" /\ ActiveOn(bookingSlot[b]) = {}

Offered == {resolveBookingGateAction(b) : b \in {x \in Bookings : BookingExists(x)}}
             \cup UNION {resolveVehicleGateAction(v) : v \in Vehicles}

\* An offer the guard takes at once succeeds: the search and the API agree about
\* bookings, events and slots.  A first visit is offered without a look at its
\* slot, and fails when an administrator, a returning car or an assignment has
\* left it without a reservation.
OffersSucceed ==
  \A o \in Offered :
    /\ o.action = "CHECK_OUT" => CheckOutSucceeds(o.booking)
    /\ o.action = "CHECK_IN" =>
         CheckInSucceeds(o.booking)
         \/ (eventStatus[o.booking] = "NONE" /\ slot[bookingSlot[o.booking]] # "RESERVED")

\* The search never offers a returning car the slot that is reserved for another,
\* which the API would let it take.
OffersKeepReservations ==
  \A o \in Offered :
    o.action = "CHECK_IN" /\ slot[bookingSlot[o.booking]] = "RESERVED" => eventStatus[o.booking] = "NONE"

\* Looking for the vehicle or for the booking the vehicle search came up with makes
\* no difference to what is offered.
SearchesAgree ==
  \A v \in Vehicles : \A o \in resolveVehicleGateAction(v) :
    o.action # "NONE" => resolveBookingGateAction(o.booking) = o

\* A parked car is found: by its booking or by the phone number always, by its
\* plate unless it is parked twice or a visit ended after this one began.
ParkedCarsFound ==
  \A b \in Bookings : eventStatus[b] = "ACTIVE" =>
    /\ Offer("CHECK_OUT", b) \in resolvePhoneGateAction(VehicleOf[b])
    /\ (\A other \in EventsOf(VehicleOf[b]) \ {b} : Later(b, other)) =>
         resolveVehicleGateAction(VehicleOf[b]) = {Offer("CHECK_OUT", b)}

\* The guard can act on every offer at once and takes no other's place, and whatever
\* he looks for, the searches lead him to the same car.
GateViewSound == OffersSucceed /\ OffersKeepReservations /\ SearchesAgree /\ ParkedCarsFound
===============================================================================
