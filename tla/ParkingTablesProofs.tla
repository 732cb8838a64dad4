------------------------- MODULE ParkingTablesProofs -------------------------
(***************************************************************************)
(* Facts about the row changes of ParkingTables, for the proofs about      *)
(* ParkingLedger and ParkingCore.                                          *)
(***************************************************************************)
EXTENDS ParkingTables, TLAPS

\* Everything a commit may do to the rows, except deleting a vehicle.
RowChange ==
  \/ \E b \in Bookings :
       \/ \E sl \in Slots : (reserveSlot(sl) \/ UNCHANGED slot) /\ InsertBooking(b, sl)
       \/ FirstVisit(b)
       \/ /\ \/ occupyAvailableSlot(bookingSlot[b])
             \/ occupySlot(bookingSlot[b])
             \/ UNCHANGED slot
          /\ \E seen \in BookingStatus : ReturnVisit(b, seen)
       \/ \E n \in Nat : CloseVisit(b, n)
       \/ CancelBooking(b)
  \/ Administration

\* The initial rows are well typed: every seeded booking has its slot.
LEMMA TablesInitType == TablesInit => TablesTypeOK
  BY DEF TablesInit, TablesTypeOK, SlotStatus, BookingStatus, EventStatus

\* A seeded slot in use has the booking, or the session, that the seed made for it.
LEMMA TablesInitOwned == TablesInit => NoOrphanReservation /\ NoPhantomOccupancy
<1> SUFFICES ASSUME TablesInit
             PROVE  NoOrphanReservation /\ NoPhantomOccupancy
  OBVIOUS
<1>1. ASSUME NEW sl \in Slots, slot[sl] \in {"RESERVED", "OCCUPIED"}
      PROVE  \E b \in OnSlot(sl) :
               /\ bookingStatus[b] = "CONFIRMED"
               /\ eventStatus[b] = IF slot[sl] = "OCCUPIED" THEN "ACTIVE" ELSE "NONE"
  <2>1. PICK b \in Bookings : bookingSlot[b] = sl
    BY <1>1 DEF TablesInit
  <2>2. bookingSlot[b] # None
    BY <2>1, TablesAssumption
  <2>3. bookingStatus[b] = "CONFIRMED"
    BY <1>1, <2>1, <2>2 DEF TablesInit
  <2>4. eventStatus[b] = IF slot[sl] = "OCCUPIED" THEN "ACTIVE" ELSE "NONE"
    BY <1>1, <2>1, <2>2 DEF TablesInit
  <2> QED
    BY <2>1, <2>3, <2>4 DEF OnSlot, BookingExists, BookingStatus
<1> QED
  BY <1>1 DEF NoOrphanReservation, NoPhantomOccupancy, ActiveOn

\* A seeded session is CONFIRMED and alone on its slot, which is OCCUPIED.
LEMMA TablesInitSessions ==
  ASSUME TablesInit
  PROVE  /\ \A b \in Bookings : eventStatus[b] = "ACTIVE" =>
              /\ bookingStatus[b] = "CONFIRMED"
              /\ bookingSlot[b] \in Slots /\ slot[bookingSlot[b]] = "OCCUPIED"
         /\ \A a, b \in Bookings :
              eventStatus[a] = "ACTIVE" /\ eventStatus[b] = "ACTIVE" /\ bookingSlot[a] = bookingSlot[b] =>
                a = b
<1>1. ASSUME NEW b \in Bookings, eventStatus[b] = "ACTIVE"
      PROVE  /\ bookingStatus[b] = "CONFIRMED" /\ bookingSlot[b] # None
             /\ bookingSlot[b] \in Slots /\ slot[bookingSlot[b]] = "OCCUPIED"
  BY <1>1 DEF TablesInit
<1>2. \A a, b \in Bookings : a # b /\ bookingSlot[a] = bookingSlot[b] => bookingSlot[a] = None
  BY DEF TablesInit
<1> QED
  BY <1>1, <1>2

\* Every row change keeps the types, bookings on slots, and events on bookings.
LEMMA RowChangeType ==
  ASSUME TablesTypeOK, RowChange
  PROVE  TablesTypeOK'
<1> USE DEF TablesTypeOK, SlotStatus, BookingStatus, EventStatus
<1>1. ASSUME NEW b \in Bookings, NEW sl \in Slots,
             reserveSlot(sl) \/ UNCHANGED slot, InsertBooking(b, sl)
      PROVE  TablesTypeOK'
  BY <1>1 DEF reserveSlot, MoveSlot, InsertBooking, SlotExists
<1>2. ASSUME NEW b \in Bookings, FirstVisit(b)
      PROVE  TablesTypeOK'
  BY <1>2 DEF FirstVisit, BookingExists, occupySlot, MoveSlot, OpenVisit
<1>3. ASSUME NEW b \in Bookings, NEW seen \in BookingStatus,
             \/ occupyAvailableSlot(bookingSlot[b])
             \/ occupySlot(bookingSlot[b])
             \/ UNCHANGED slot,
             ReturnVisit(b, seen)
      PROVE  TablesTypeOK'
  BY <1>3 DEF occupyAvailableSlot, occupySlot, MoveSlot, ReturnVisit, OpenVisit
<1>4. ASSUME NEW b \in Bookings, NEW n \in Nat, CloseVisit(b, n)
      PROVE  TablesTypeOK'
  BY <1>4 DEF CloseVisit, releaseOccupiedSlot, MoveSlot
<1>5. ASSUME NEW b \in Bookings, CancelBooking(b)
      PROVE  TablesTypeOK'
  BY <1>5 DEF CancelBooking, BookingExists, releaseReservedSlot, MoveSlot
<1>6. ASSUME Administration
      PROVE  TablesTypeOK'
  BY <1>6, TablesAssumption
     DEF Administration, CreateSlot, UpdateSlotStatus, RemoveSlot, CascadeDelete,
         SlotExists, OnSlot, BookingExists
<1>7. QED
  BY <1>1, <1>2, <1>3, <1>4, <1>5, <1>6 DEF RowChange

\* A reservation keeps an owner: whatever takes an unstarted CONFIRMED booking
\* out of that state also takes its slot out of RESERVED.
LEMMA RowChangeReservation ==
  ASSUME TablesTypeOK, NoOrphanReservation, RowChange,
         "RESERVED" \notin OverrideStatuses
  PROVE  NoOrphanReservation'
<1> DEFINE Owner(b, sl) == /\ BookingExists(b) /\ bookingSlot[b] = sl
                           /\ bookingStatus[b] = "CONFIRMED" /\ eventStatus[b] = "NONE"
<1> SUFFICES ASSUME NEW sl \in Slots, slot'[sl] = "RESERVED"
             PROVE  \E b \in Bookings : Owner(b, sl)'
  BY DEF NoOrphanReservation, OnSlot
<1>b. slot[sl] = "RESERVED" => \E b \in Bookings : Owner(b, sl)
  BY DEF NoOrphanReservation, OnSlot
<1> USE DEF TablesTypeOK, BookingExists, BookingStatus
<1>1. ASSUME NEW b \in Bookings, NEW on \in Slots,
             reserveSlot(on) \/ UNCHANGED slot, InsertBooking(b, on)
      PROVE  \E c \in Bookings : Owner(c, sl)'
  <2>1. CASE slot[sl] = "RESERVED"
    BY <1>1, <1>b, <2>1 DEF InsertBooking
  <2>2. CASE slot[sl] # "RESERVED"
    <3>1. on = sl
      BY <1>1, <2>2 DEF reserveSlot, MoveSlot
    <3>2. Owner(b, sl)'
      BY <1>1, <3>1 DEF InsertBooking
    <3> QED
      BY <3>2
  <2> QED
    BY <2>1, <2>2
<1>2. ASSUME NEW b \in Bookings, FirstVisit(b)
      PROVE  \E c \in Bookings : Owner(c, sl)'
  <2>1. slot[sl] = "RESERVED" /\ bookingSlot[b] # sl
    BY <1>2 DEF FirstVisit, occupySlot, MoveSlot
  <2> QED
    BY <1>2, <1>b, <2>1 DEF FirstVisit, OpenVisit
<1>3. ASSUME NEW b \in Bookings, NEW seen \in BookingStatus,
             \/ occupyAvailableSlot(bookingSlot[b])
             \/ occupySlot(bookingSlot[b])
             \/ UNCHANGED slot,
             ReturnVisit(b, seen)
      PROVE  \E c \in Bookings : Owner(c, sl)'
  <2>1. slot[sl] = "RESERVED"
    BY <1>3 DEF occupyAvailableSlot, occupySlot, MoveSlot, ReturnVisit
  <2>2. PICK c \in Bookings : Owner(c, sl)
    BY <1>b, <2>1
  <2>3. c # b
    BY <1>3, <2>2 DEF ReturnVisit
  <2> QED
    BY <1>3, <2>2, <2>3 DEF ReturnVisit, OpenVisit
<1>4. ASSUME NEW b \in Bookings, NEW n \in Nat, CloseVisit(b, n)
      PROVE  \E c \in Bookings : Owner(c, sl)'
  <2>1. slot[sl] = "RESERVED"
    BY <1>4 DEF CloseVisit, releaseOccupiedSlot, MoveSlot
  <2>2. PICK c \in Bookings : Owner(c, sl)
    BY <1>b, <2>1
  <2> QED
    BY <1>4, <2>2 DEF CloseVisit
<1>5. ASSUME NEW b \in Bookings, CancelBooking(b)
      PROVE  \E c \in Bookings : Owner(c, sl)'
  <2>1. slot[sl] = "RESERVED" /\ bookingSlot[b] # sl
    BY <1>5 DEF CancelBooking, releaseReservedSlot, MoveSlot
  <2> QED
    BY <1>5, <1>b, <2>1 DEF CancelBooking
<1>6. ASSUME Administration
      PROVE  \E c \in Bookings : Owner(c, sl)'
  <2>1. slot[sl] = "RESERVED"
    BY <1>6 DEF Administration, CreateSlot, UpdateSlotStatus, RemoveSlot
  <2>2. PICK c \in Bookings : Owner(c, sl)
    BY <1>b, <2>1
  <2> QED
    BY <1>6, <2>2
       DEF Administration, CreateSlot, UpdateSlotStatus, RemoveSlot, CascadeDelete, OnSlot
<1>7. QED
  BY <1>1, <1>2, <1>3, <1>4, <1>5, <1>6 DEF RowChange

\* An occupancy keeps a session: only closing a visit ends one, and that releases
\* the slot.
LEMMA RowChangeOccupancy ==
  ASSUME TablesTypeOK, NoPhantomOccupancy, RowChange,
         "OCCUPIED" \notin OverrideStatuses
  PROVE  NoPhantomOccupancy'
<1> DEFINE Parked(b, sl) ==
      BookingExists(b) /\ bookingSlot[b] = sl /\ eventStatus[b] = "ACTIVE"
<1> SUFFICES ASSUME NEW sl \in Slots, slot'[sl] = "OCCUPIED"
             PROVE  \E b \in Bookings : Parked(b, sl)'
  BY DEF NoPhantomOccupancy, ActiveOn, OnSlot
<1>b. slot[sl] = "OCCUPIED" => \E b \in Bookings : Parked(b, sl)
  BY DEF NoPhantomOccupancy, ActiveOn, OnSlot
<1> USE DEF TablesTypeOK, BookingExists, BookingStatus, EventStatus
<1>1. ASSUME NEW b \in Bookings, NEW on \in Slots,
             reserveSlot(on) \/ UNCHANGED slot, InsertBooking(b, on)
      PROVE  \E c \in Bookings : Parked(c, sl)'
  <2>1. slot[sl] = "OCCUPIED"
    BY <1>1 DEF reserveSlot, MoveSlot
  <2> QED
    BY <1>1, <1>b, <2>1 DEF InsertBooking
<1>2. ASSUME NEW b \in Bookings, FirstVisit(b)
      PROVE  \E c \in Bookings : Parked(c, sl)'
  <2>1. CASE bookingSlot[b] = sl
    <3>1. Parked(b, sl)'
      BY <1>2, <2>1 DEF FirstVisit, OpenVisit
    <3> QED
      BY <3>1
  <2>2. CASE bookingSlot[b] # sl
    BY <1>2, <1>b, <2>2 DEF FirstVisit, OpenVisit, occupySlot, MoveSlot
  <2> QED
    BY <2>1, <2>2
<1>3. ASSUME NEW b \in Bookings, NEW seen \in BookingStatus,
             \/ occupyAvailableSlot(bookingSlot[b])
             \/ occupySlot(bookingSlot[b])
             \/ UNCHANGED slot,
             ReturnVisit(b, seen)
      PROVE  \E c \in Bookings : Parked(c, sl)'
  <2>1. CASE bookingSlot[b] = sl
    <3>1. Parked(b, sl)'
      BY <1>3, <2>1 DEF ReturnVisit, OpenVisit
    <3> QED
      BY <3>1
  <2>2. CASE bookingSlot[b] # sl
    <3>1. slot[sl] = "OCCUPIED"
      BY <1>3, <2>2 DEF occupyAvailableSlot, occupySlot, MoveSlot
    <3>2. PICK c \in Bookings : Parked(c, sl)
      BY <1>b, <3>1
    <3> QED
      BY <1>3, <3>2 DEF ReturnVisit, OpenVisit
  <2> QED
    BY <2>1, <2>2
<1>4. ASSUME NEW b \in Bookings, NEW n \in Nat, CloseVisit(b, n)
      PROVE  \E c \in Bookings : Parked(c, sl)'
  <2>1. slot[sl] = "OCCUPIED" /\ bookingSlot[b] # sl
    BY <1>4 DEF CloseVisit, releaseOccupiedSlot, MoveSlot
  <2> QED
    BY <1>4, <1>b, <2>1 DEF CloseVisit
<1>5. ASSUME NEW b \in Bookings, CancelBooking(b)
      PROVE  \E c \in Bookings : Parked(c, sl)'
  <2>1. slot[sl] = "OCCUPIED"
    BY <1>5 DEF CancelBooking, releaseReservedSlot, MoveSlot
  <2> QED
    BY <1>5, <1>b, <2>1 DEF CancelBooking
<1>6. ASSUME Administration
      PROVE  \E c \in Bookings : Parked(c, sl)'
  <2>1. slot[sl] = "OCCUPIED"
    BY <1>6 DEF Administration, CreateSlot, UpdateSlotStatus, RemoveSlot
  <2>2. PICK c \in Bookings : Parked(c, sl)
    BY <1>b, <2>1
  <2> QED
    BY <1>6, <2>2
       DEF Administration, CreateSlot, UpdateSlotStatus, RemoveSlot, CascadeDelete, OnSlot
<1>7. QED
  BY <1>1, <1>2, <1>3, <1>4, <1>5, <1>6 DEF RowChange

\* Check-outs never outnumber check-ins: the update that closes a visit requires
\* its event to be ACTIVE.
LEMMA RowChangeBalance ==
  ASSUME TablesTypeOK, VisitsBalance, RowChange
  PROVE  VisitsBalance'
<1> USE DEF TablesTypeOK, VisitsBalance
<1>1. ASSUME NEW b \in Bookings, NEW sl \in Slots, InsertBooking(b, sl)
      PROVE  VisitsBalance'
  BY <1>1 DEF InsertBooking
<1>2. ASSUME NEW b \in Bookings, OpenVisit(b)
      PROVE  VisitsBalance'
  BY <1>2 DEF OpenVisit
<1>3. ASSUME NEW b \in Bookings, NEW n \in Nat, CloseVisit(b, n)
      PROVE  VisitsBalance'
  BY <1>3 DEF CloseVisit
<1>4. ASSUME NEW b \in Bookings, CancelBooking(b)
      PROVE  VisitsBalance'
  BY <1>4 DEF CancelBooking
<1>5. ASSUME Administration
      PROVE  VisitsBalance'
  BY <1>5 DEF Administration, CreateSlot, UpdateSlotStatus, RemoveSlot, CascadeDelete
<1>6. QED
  BY <1>1, <1>2, <1>3, <1>4, <1>5 DEF RowChange, FirstVisit, ReturnVisit

\* Deleting a vehicle keeps the types and the balance of visits, whatever it
\* deletes with it.
LEMMA DeleteVehicleType ==
  ASSUME TablesTypeOK, VisitsBalance, NEW v, DeleteVehicle(v)
  PROVE  TablesTypeOK' /\ VisitsBalance'
  BY DEF TablesTypeOK, VisitsBalance, DeleteVehicle, CascadeDelete, BookingExists,
         BookingStatus, EventStatus

\* What holds of the rows holds after a step that leaves them alone.
LEMMA RowsStutter ==
  ASSUME UNCHANGED rows
  PROVE  /\ TablesTypeOK => TablesTypeOK'
         /\ NoOrphanReservation => NoOrphanReservation'
         /\ NoPhantomOccupancy => NoPhantomOccupancy'
         /\ VisitsBalance => VisitsBalance'
  BY DEF rows, TablesTypeOK, NoOrphanReservation, NoPhantomOccupancy, VisitsBalance,
         OnSlot, ActiveOn, BookingExists
=============================================================================
