------------------------------ MODULE Dashboards ------------------------------
(***************************************************************************)
(* What the slot map, the operator dashboard, the public parking finder and *)
(* the list of slots to book say of the ledger at one moment.  They are     *)
(* queries; the only state added is the order in which bookings were made,  *)
(* which the slot map sorts by.  The slots are those of one public parking  *)
(* lot of one organization.                                                *)
(***************************************************************************)
EXTENDS SecurityGate, FiniteSets

VARIABLE newer    \* pairs of bookings of one slot: the first was made after the second

ViewInit == SearchInit /\ newer = {}

\* A booking is newer than those of its slot that were made before it, and leaves
\* the order with its row.
Created ==
  {pair \in newer : BookingExists(pair[1])' /\ BookingExists(pair[2])'}
    \cup {pair \in Bookings \X Bookings :
            /\ ~ BookingExists(pair[1]) /\ BookingExists(pair[1])'
            /\ BookingExists(pair[2]) /\ BookingExists(pair[2])'
            /\ bookingSlot'[pair[1]] = bookingSlot[pair[2]]}

ViewNext == SearchNext /\ newer' = Created

ViewSpec == ViewInit /\ [][ViewNext]_<<rows, later, newer>>

-----------------------------------------------------------------------------
(* slot-map.util.ts.                                                       *)

resolveSlotMapDisplayStatus(sl) == IF ActiveOn(sl) # {} THEN "OCCUPIED" ELSE slot[sl]

ConfirmedOn(sl) == {b \in OnSlot(sl) : bookingStatus[b] = "CONFIRMED"}

\* Fault: the oldest CONFIRMED booking is taken.
slotMapOldestBooking(sl) ==
  {b \in ConfirmedOn(sl) : \A other \in ConfirmedOn(sl) \ {b} : <<other, b>> \in newer}

\* The CONFIRMED booking of the slot that was made last.
slotMapBooking(sl) ==
  {b \in ConfirmedOn(sl) : \A other \in ConfirmedOn(sl) \ {b} : <<b, other>> \in newer}

Shown(state, b) == [state |-> state, booking |-> b]

\* What the card of the slot says of its use: nothing, or a state and a booking.
buildSlotMapOccupancy(sl) ==
  IF ActiveOn(sl) # {} THEN {Shown("OCCUPIED", b) : b \in ActiveOn(sl)}
  ELSE IF slot[sl] = "RESERVED" THEN {Shown("RESERVED", b) : b \in slotMapBooking(sl)}
  ELSE {}

Legend == [status \in SlotStatus |->
             Cardinality({sl \in Slots : SlotExists(sl) /\ resolveSlotMapDisplayStatus(sl) = status})]

-----------------------------------------------------------------------------
(* dashboard.service.ts, public-parking-finder.service.ts, slots.service.ts. *)

\* Fault: RESERVED slots are counted as AVAILABLE.
getSlotStatusCountsFree == [status \in SlotStatus |->
  Cardinality({sl \in Slots : slot[sl] = status \/ (status = "AVAILABLE" /\ slot[sl] = "RESERVED")})]

getSlotStatusCounts == [status \in SlotStatus |-> Cardinality({sl \in Slots : slot[sl] = status})]

totalSlots == Cardinality({sl \in Slots : SlotExists(sl)})
activeParkingEvents == Cardinality({b \in Bookings : eventStatus[b] = "ACTIVE"})

\* buildOccupancySummary counts reserved slots as used, buildLotUtilizationItem does not.
utilizedSlots == getSlotStatusCounts["OCCUPIED"] + getSlotStatusCounts["RESERVED"]

getParkingLotSummary ==
  [totalSlots |-> totalSlots, slots |-> getSlotStatusCounts, activeEvents |-> activeParkingEvents]

\* The events of today, which is the day of every visit here.
Events(statuses) == Cardinality({b \in Bookings : eventStatus[b] \in statuses})
BookingsIn(statuses) == Cardinality({b \in Bookings : bookingStatus[b] \in statuses})

\* Fault: who has left is not counted as having come.
checkInsTodayStill == Events({"ACTIVE"})

checkInsToday == Events(EventStatus)

checkOutsToday == Events({"COMPLETED"})

\* getTenantOperatorMetrics; what a role is not told is 0.
getTenantOperatorMetrics ==
  [reserved |-> getSlotStatusCounts["RESERVED"], utilized |-> utilizedSlots,
   pending |-> BookingsIn({"PENDING"}), active |-> Events({"ACTIVE"}),
   completed |-> Events({"COMPLETED"}), checkIns |-> checkInsToday, checkOuts |-> checkOutsToday]

getSecurityOperatorMetrics == [getTenantOperatorMetrics EXCEPT !.pending = 0, !.completed = 0]
getPlatformOperatorMetrics ==
  [getTenantOperatorMetrics EXCEPT !.pending = 0, !.checkIns = 0, !.checkOuts = 0]

\* The owner of the vehicle; a booking without an end is upcoming until it is cancelled.
getUserOperatorMetrics(v) ==
  LET own(bs) == Cardinality({b \in bs : VehicleOf[b] = v})
  IN [upcoming |-> own({b \in Bookings : bookingStatus[b] \in ActiveBookingStatuses}),
      active |-> own({b \in Bookings : eventStatus[b] = "ACTIVE"}),
      completed |-> own({b \in Bookings : eventStatus[b] = "COMPLETED"})]

\* operatorDashboardMetrics.ts: the cards at the top of a dashboard.
buildSecurityHeroKpis(m) ==
  [activeSessions |-> m.active, checkIns |-> m.checkIns, checkOuts |-> m.checkOuts,
   reservedSlots |-> m.reserved]
buildTenantHeroKpis(m) ==
  [utilization |-> <<m.utilized, totalSlots>>, activeSessions |-> m.active, checkIns |-> m.checkIns]
buildUserHeroKpis(m) == m

\* The visits whose fees are in the revenue: the sum runs over the stored fees of the
\* COMPLETED events.
CompletedFees == {<<b, billed[b]>> : b \in {x \in Bookings : eventStatus[x] = "COMPLETED" /\ billed[x] # 0}}

\* The list a customer books from, and the finder.
findAvailableByParkingLot == {sl \in Slots : slot[sl] = "AVAILABLE"}
availableSlots == Cardinality(findAvailableByParkingLot)
bookable == availableSlots > 0

-----------------------------------------------------------------------------
(* Properties                                                              *)

\* The map shows a parked car exactly where the gate would check one out, although one
\* goes by the slot's events and the other by the booking.
MapShowsParkedCars ==
  \A b \in Bookings :
    resolveBookingGateAction(b) = Offer("CHECK_OUT", b) <=>
      \E sl \in Slots : Shown("OCCUPIED", b) \in buildSlotMapOccupancy(sl)

\* A RESERVED slot is shown with a booking that can be checked in on it: the newest
\* CONFIRMED booking, although bookings stay CONFIRMED after their car has left and
\* assigned vehicles are booked on slots that are taken.
MapShowsReservations ==
  \A sl \in Slots : slot[sl] = "RESERVED" =>
    \E o \in buildSlotMapOccupancy(sl) :
      eventStatus[o.booking] = "NONE" /\ CheckInSucceeds(o.booking)

\* The map overrides the stored status where a car is parked, the counts do not: they
\* agree all the same, on the map's legend, the dashboard and the finder; and the cars
\* parked are never more than the slots counted as occupied.
CountsAgree ==
  /\ Legend = getSlotStatusCounts
  /\ getParkingLotSummary.activeEvents <= getParkingLotSummary.slots["OCCUPIED"]
  /\ utilizedSlots + availableSlots + getSlotStatusCounts["MAINTENANCE"] = totalSlots
  /\ bookable <=> Legend["AVAILABLE"] > 0

\* The sum of a count over the vehicles.
Total(count) ==
  Cardinality({pair \in Vehicles \X (1 .. Cardinality(Bookings)) : pair[2] <= count[pair[1]]})

\* The cards of guards, managers and customers are about the same cars.  Of those that
\* came today the ones that have not left are parked; no more slots are "Booked, not
\* checked in" (operatorDashboardMetrics.ts:188) than there are such bookings; the
\* customers' sessions add up to the operators'; and the lot is used to the full
\* exactly when nothing is free or in maintenance.
CardsAgree ==
  LET guard == buildSecurityHeroKpis(getSecurityOperatorMetrics)
      manager == buildTenantHeroKpis(getTenantOperatorMetrics)
      customers == [v \in Vehicles |-> buildUserHeroKpis(getUserOperatorMetrics(v))]
      notCheckedIn == {b \in Bookings : bookingStatus[b] = "CONFIRMED" /\ eventStatus[b] = "NONE"}
  IN /\ guard.checkIns - guard.checkOuts = manager.activeSessions
     /\ guard.reservedSlots <= Cardinality(notCheckedIn)
     /\ Total([v \in Vehicles |-> customers[v].active]) = guard.activeSessions
     /\ Total([v \in Vehicles |-> customers[v].completed]) =
          getPlatformOperatorMetrics.completed
     /\ manager.utilization[1] = manager.utilization[2] <=>
          ~ bookable /\ getSlotStatusCounts["MAINTENANCE"] = 0

\* The views of the ledger agree with each other and with what the gate would do.
ViewsAgree == MapShowsParkedCars /\ MapShowsReservations /\ CountsAgree /\ CardsAgree

\* "Money from completed checkouts" (README.md:384) does not become less, unless a
\* vehicle or a slot is deleted with its events.  It does: a return check-in clears the
\* fee of the visit before it, and the next check-out overwrites it.
RevenueKept ==
  [][\A b \in Bookings : BookingExists(b)' =>
       \A fee \in CompletedFees : fee[1] = b => fee \in CompletedFees']_<<rows, later, newer>>
===============================================================================
