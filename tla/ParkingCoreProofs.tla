-------------------------- MODULE ParkingCoreProofs --------------------------
(***************************************************************************)
(* What holds of ParkingCore however its transactions interleave, for any  *)
(* slots, bookings, vehicles and sessions.                                 *)
(***************************************************************************)
EXTENDS ParkingOverlaps, ParkingTablesProofs

\* A step changes the rows as one commit does, deletes a vehicle, or leaves them
\* alone; in each case it leaves well-typed transactions.
LEMMA StepShape ==
  ASSUME TypeOK, [Next]_vars
  PROVE  /\ \/ RowChange
            \/ \E v \in RemovableVehicles : DeleteVehicle(v)
            \/ UNCHANGED rows
         /\ tx' \in [Sessions -> Transaction]
         /\ \A s \in Sessions : TransactionOK(tx'[s])
<1> DEFINE TxOK == tx' \in [Sessions -> Transaction] /\ \A s \in Sessions : TransactionOK(tx'[s])
           Shape == \/ RowChange
                    \/ \E v \in RemovableVehicles : DeleteVehicle(v)
                    \/ UNCHANGED rows
<1> SUFFICES Shape /\ TxOK
  OBVIOUS
<1>s. TablesTypeOK /\ tx \in [Sessions -> Transaction] /\ \A s \in Sessions : TransactionOK(tx[s])
  BY DEF TypeOK
<1>i. Idle \in Transaction /\ TransactionOK(Idle)
  BY DEF Idle, Transaction, TransactionOK, Steps
<1>b. ASSUME NEW s \in Sessions, NEW t \in Transaction, TransactionOK(t), Begin(s, t)
      PROVE  Shape /\ TxOK
  BY <1>s, <1>b DEF Begin
<1>c. ASSUME NEW s \in Sessions, NEW step, Commit(s, step)
      PROVE  TxOK
  BY <1>s, <1>i, <1>c DEF Commit
<1>d. ASSUME NEW s \in Sessions, NEW step \in Steps, Continue(s, step),
             TransactionOK([tx[s] EXCEPT !.at = step])
      PROVE  Shape /\ TxOK
  <2>1. [tx[s] EXCEPT !.at = step] \in Transaction
    BY <1>s, <1>d DEF Transaction
  <2>2. tx' = [tx EXCEPT ![s] = [tx[s] EXCEPT !.at = step]]
    BY <1>d DEF Continue
  <2> QED
    BY <1>s, <1>d, <2>1, <2>2 DEF Continue
<1>1. ASSUME NEW s \in Sessions, Booking(s)
      PROVE  Shape /\ TxOK
  <2>1. ASSUME NEW v \in Vehicles, NEW sl \in Slots, ReadSlotAvailable(s, v, sl)
        PROVE  Shape /\ TxOK
    <3> DEFINE t == [Idle EXCEPT !.at = "create.count", !.slot = sl, !.vehicle = v]
    <3>1. t \in Transaction /\ TransactionOK(t)
      BY DEF Idle, Transaction, TransactionOK, Steps
    <3> QED
      BY <1>b, <2>1, <3>1 DEF ReadSlotAvailable
  <2>2. ASSUME NEW v \in Vehicles, NEW sl \in Slots, ReadAssignment(s, v, sl)
        PROVE  Shape /\ TxOK
    <3> DEFINE t == [Idle EXCEPT !.at = "assign.write", !.slot = sl, !.vehicle = v, !.seen = slot[sl]]
    <3>1. t \in Transaction /\ TransactionOK(t)
      BY <2>2 DEF Idle, Transaction, TransactionOK, Steps, ReadAssignment, SlotExists
    <3> QED
      BY <1>b, <2>2, <3>1 DEF ReadAssignment
  <2>3. CASE CountActiveBookings(s)
    <3>1. TransactionOK([tx[s] EXCEPT !.at = "create.write"])
      BY <1>s, <2>3 DEF CountActiveBookings, At, TransactionOK, Transaction
    <3> QED
      BY <1>d, <2>3, <3>1 DEF CountActiveBookings, Steps
  <2>4. ASSUME NEW b \in Bookings, CommitBooking(s, b)
        PROVE  Shape /\ TxOK
    <3>1. tx[s].slot \in Slots
      BY <1>s, <2>4 DEF CommitBooking, Commit, At, TransactionOK
    <3> QED
      BY <1>c, <2>4, <3>1 DEF CommitBooking, RowChange
  <2>5. ASSUME NEW b \in Bookings, CommitAssignedBooking(s, b)
        PROVE  Shape /\ TxOK
    <3>1. tx[s].slot \in Slots
      BY <1>s, <2>5 DEF CommitAssignedBooking, Commit, At, TransactionOK
    <3> QED
      BY <1>c, <2>5, <3>1 DEF CommitAssignedBooking, RowChange
  <2> QED
    BY <1>1, <2>1, <2>2, <2>3, <2>4, <2>5 DEF Booking
<1>2. ASSUME NEW s \in Sessions, Cancelling(s)
      PROVE  Shape /\ TxOK
  <2>1. ASSUME NEW b \in Bookings, ReadCancellable(s, b)
        PROVE  Shape /\ TxOK
    <3> DEFINE t == [Idle EXCEPT !.at = "cancel.write", !.booking = b]
    <3>1. t \in Transaction /\ TransactionOK(t)
      BY DEF Idle, Transaction, TransactionOK, Steps
    <3> QED
      BY <1>b, <2>1, <3>1 DEF ReadCancellable
  <2>2. CASE CommitCancel(s)
    <3>1. tx[s].booking \in Bookings
      BY <1>s, <2>2 DEF CommitCancel, Commit, At, TransactionOK
    <3> QED
      BY <1>c, <2>2, <3>1 DEF CommitCancel, RowChange
  <2> QED
    BY <1>2, <2>1, <2>2 DEF Cancelling
<1>3. ASSUME NEW s \in Sessions, CheckingIn(s)
      PROVE  Shape /\ TxOK
  <2>1. ASSUME NEW b \in Bookings, ReadBooking(s, b)
        PROVE  Shape /\ TxOK
    <3> DEFINE t == [Idle EXCEPT !.at = "in.event", !.booking = b, !.seen = bookingStatus[b]]
    <3>1. t \in Transaction /\ TransactionOK(t)
      BY <2>1 DEF Idle, Transaction, TransactionOK, Steps, ReadBooking, BookingStatus
    <3> QED
      BY <1>b, <2>1, <3>1 DEF ReadBooking
  <2>2. ASSUME tx[s].at \in {"in.event", "in.return", "in.busy"},
               NEW step \in {"in.first", "in.return", "in.busy", "in.write"},
               Continue(s, step)
        PROVE  Shape /\ TxOK
    <3>1. TransactionOK([tx[s] EXCEPT !.at = step])
      BY <1>s, <2>2 DEF TransactionOK, Transaction
    <3> QED
      BY <1>d, <2>2, <3>1 DEF Steps
  <2>3. ASSUME tx[s].at \in {"in.first", "in.return", "in.write"}
        PROVE  tx[s].booking \in Bookings /\ tx[s].seen \in BookingStatus
    BY <1>s, <2>3 DEF TransactionOK
  <2>4. CASE CommitFirstCheckIn(s)
    BY <1>c, <2>3, <2>4 DEF CommitFirstCheckIn, Commit, At, RowChange
  <2>5. CASE CommitReturnCheckIn(s)
    BY <1>c, <2>3, <2>5 DEF CommitReturnCheckIn, Commit, At, RowChange
  <2>6. CASE CommitReturnToOccupied(s)
    BY <1>c, <2>3, <2>6 DEF CommitReturnToOccupied, Commit, At, RowChange
  <2> QED
    BY <1>3, <2>1, <2>2, <2>4, <2>5, <2>6
       DEF CheckingIn, At, ReadNoEvent, ReadCompletedEvent, ReadSlotOccupied, ReadNoActiveEventOnSlot
<1>4. ASSUME NEW s \in Sessions, CheckingOut(s)
      PROVE  Shape /\ TxOK
  <2>1. ASSUME NEW b \in Bookings, ReadActiveEvent(s, b)
        PROVE  Shape /\ TxOK
    <3> DEFINE t == [Idle EXCEPT !.at = "out.write", !.booking = b, !.visit = visit[b]]
    <3>1. t \in Transaction /\ TransactionOK(t)
      BY <1>s DEF Idle, Transaction, TransactionOK, Steps, TablesTypeOK
    <3> QED
      BY <1>b, <2>1, <3>1 DEF ReadActiveEvent
  <2>2. CASE CommitCheckOut(s)
    <3>1. tx[s].booking \in Bookings /\ tx[s].visit \in Nat
      BY <1>s, <2>2 DEF CommitCheckOut, Commit, At, TransactionOK, Transaction
    <3> QED
      BY <1>c, <2>2, <3>1 DEF CommitCheckOut, RowChange
  <2> QED
    BY <1>4, <2>1, <2>2 DEF CheckingOut
<1>5. ASSUME NEW s \in Sessions, RemovingVehicle(s)
      PROVE  Shape /\ TxOK
  <2>1. ASSUME NEW v \in Vehicles, CountVehicleBookings(s, v)
        PROVE  Shape /\ TxOK
    <3> DEFINE t == [Idle EXCEPT !.at = "vehicle.delete", !.vehicle = v]
    <3>1. t \in Transaction /\ TransactionOK(t)
      BY <2>1 DEF Idle, Transaction, TransactionOK, Steps, CountVehicleBookings
    <3> QED
      BY <1>b, <2>1, <3>1 DEF CountVehicleBookings
  <2>2. CASE CommitRemoveVehicle(s)
    <3>1. tx[s].vehicle \in RemovableVehicles
      BY <1>s, <2>2 DEF CommitRemoveVehicle, Commit, At, TransactionOK
    <3> QED
      BY <1>c, <2>2, <3>1 DEF CommitRemoveVehicle
  <2> QED
    BY <1>5, <2>1, <2>2 DEF RemovingVehicle
<1>6. ASSUME NEW s \in Sessions, Rollback(s)
      PROVE  Shape /\ TxOK
  BY <1>s, <1>i, <1>6 DEF Rollback
<1>7. CASE Administration /\ UNCHANGED tx
  BY <1>s, <1>7 DEF RowChange
<1>8. CASE UNCHANGED vars
  BY <1>s, <1>8 DEF vars
<1> QED
  BY <1>1, <1>2, <1>3, <1>4, <1>5, <1>6, <1>7, <1>8 DEF Next

-----------------------------------------------------------------------------

\* What the rows keep whatever overlaps and whatever is deleted: their types,
\* and the balance of check-ins and check-outs.
Sound == TypeOK /\ VisitsBalance

\* No transaction is open at first, and no visit is counted.
LEMMA InitSound == Init => Sound
<1> SUFFICES ASSUME Init
             PROVE  Sound
  OBVIOUS
<1>1. TablesTypeOK
  BY TablesInitType DEF Init
<1>2. tx \in [Sessions -> Transaction] /\ \A s \in Sessions : TransactionOK(tx[s])
  BY DEF Init, Idle, Transaction, TransactionOK, Steps
<1>3. VisitsBalance
  BY <1>1 DEF Init, TablesInit, VisitsBalance, TablesTypeOK
<1> QED
  BY <1>1, <1>2, <1>3 DEF Sound, TypeOK

\* Every step is a change of rows, a deletion, or none, and keeps both parts.
LEMMA NextSound ==
  ASSUME Sound, [Next]_vars
  PROVE  Sound'
<1>1. TypeOK /\ TablesTypeOK /\ VisitsBalance
  BY DEF Sound, TypeOK
<1>2. TablesTypeOK' /\ VisitsBalance'
  BY <1>1, StepShape, RowChangeType, RowChangeBalance, DeleteVehicleType, RowsStutter
<1>3. tx' \in [Sessions -> Transaction] /\ \A s \in Sessions : TransactionOK(tx'[s])
  BY <1>1, StepShape
<1> QED
  BY <1>2, <1>3 DEF Sound, TypeOK

\* Rows and transactions stay well typed: a booking is always on a slot, an event
\* on a booking, and a transaction knows what its next step uses.
THEOREM TypeCorrect == Spec => []TypeOK
<1>1. Sound => TypeOK
  BY DEF Sound
<1> QED
  BY <1>1, InitSound, NextSound, PTL DEF Spec

\* However check-ins and check-outs of a booking overlap, its check-outs never
\* outnumber its check-ins (executeCheckOutTransaction).
THEOREM Balanced == Spec => []VisitsBalance
<1>1. Sound => VisitsBalance
  BY DEF Sound
<1> QED
  BY <1>1, InitSound, NextSound, PTL DEF Spec

\* However requests overlap, a RESERVED slot has an owner, as long as nobody
\* writes RESERVED by hand and no vehicle is deleted (SlotLifecycleService).
THEOREM ReservationsOwned ==
  ASSUME "RESERVED" \notin OverrideStatuses, RemovableVehicles = {}
  PROVE  Spec => []NoOrphanReservation
<1>1. Init => Sound /\ NoOrphanReservation
  BY InitSound, TablesInitOwned DEF Init
<1>2. ASSUME Sound, NoOrphanReservation, [Next]_vars
      PROVE  Sound' /\ NoOrphanReservation'
  <2>1. TypeOK /\ TablesTypeOK
    BY <1>2 DEF Sound, TypeOK
  <2>2. RowChange \/ UNCHANGED rows
    BY <1>2, <2>1, StepShape
  <2> QED
    BY <1>2, <2>1, <2>2, NextSound, RowChangeReservation, RowsStutter
<1> QED
  BY <1>1, <1>2, PTL DEF Spec

\* However requests overlap, an OCCUPIED slot has an ACTIVE parking event, as
\* long as nobody writes OCCUPIED by hand and no vehicle is deleted.
THEOREM OccupanciesOwned ==
  ASSUME "OCCUPIED" \notin OverrideStatuses, RemovableVehicles = {}
  PROVE  Spec => []NoPhantomOccupancy
<1>1. Init => Sound /\ NoPhantomOccupancy
  BY InitSound, TablesInitOwned DEF Init
<1>2. ASSUME Sound, NoPhantomOccupancy, [Next]_vars
      PROVE  Sound' /\ NoPhantomOccupancy'
  <2>1. TypeOK /\ TablesTypeOK
    BY <1>2 DEF Sound, TypeOK
  <2>2. RowChange \/ UNCHANGED rows
    BY <1>2, <2>1, StepShape
  <2> QED
    BY <1>2, <2>1, <2>2, NextSound, RowChangeOccupancy, RowsStutter
<1> QED
  BY <1>1, <1>2, PTL DEF Spec

-----------------------------------------------------------------------------
(* Requests deviate from ParkingLedger only when overtaken, and as listed.  *)

\* What a transaction knows of its rows, whatever others have done since it began:
\* statuses that only cancelling, checking in and deleting have changed.
Remembers(t) ==
  /\ t.at \in {"create.count", "create.write", "assign.write"} => t.booking = None
  /\ t.at = "assign.write" => t.vehicle \in Vehicles /\ t.slot \in AssignedSlots[t.vehicle]
  /\ t.at \in {"in.event", "in.first", "in.return", "in.busy", "in.write"} =>
       /\ t.seen \in {"CONFIRMED", "COMPLETED"}
       /\ bookingStatus[t.booking] \in {t.seen, "CONFIRMED", "CANCELLED", "GONE"}
  /\ t.at = "in.first" => t.seen = "CONFIRMED"
  /\ t.at \in {"in.return", "in.busy", "in.write"} =>
       eventStatus[t.booking] \in {"COMPLETED", "ACTIVE", "NONE"}
  /\ t.at = "cancel.write" =>
       bookingStatus[t.booking] \in ActiveBookingStatuses \cup {"CANCELLED", "GONE"}
  /\ t.at = "out.write" =>
       bookingStatus[t.booking] # "NONE" /\ t.visit <= visit[t.booking]

\* What a transaction read, where its write does not check it again, still holds.
StillHolds(t) ==
  /\ t.at = "create.write" =>
       \A b \in OnSlot(t.slot) : bookingStatus[b] \notin ActiveBookingStatuses
  /\ t.at = "assign.write" /\ t.seen # "AVAILABLE" =>
       slot[t.slot] # "AVAILABLE"
  /\ t.at \in {"in.event", "in.first", "in.return", "in.busy", "in.write"} =>
       bookingStatus[t.booking] \in {t.seen, "GONE"}
  /\ t.at \in {"in.return", "in.busy", "in.write"} =>
       eventStatus[t.booking] \in {"COMPLETED", "NONE"}
  /\ t.at \in {"in.busy", "in.write"} /\ BookingExists(t.booking) =>
       slot[bookingSlot[t.booking]] = "OCCUPIED"
  /\ t.at = "in.write" /\ BookingExists(t.booking) =>
       ActiveOn(bookingSlot[t.booking]) = {}
  /\ t.at = "cancel.write" =>
       bookingStatus[t.booking] \in ActiveBookingStatuses \cup {"GONE"}
  /\ t.at = "out.write" /\ eventStatus[t.booking] = "ACTIVE" =>
       visit[t.booking] = t.visit
  /\ t.at = "vehicle.delete" =>
       \A b \in Bookings : BookingExists(b) => VehicleOf[b] # t.vehicle

\* A transaction that has not been overtaken writes on what it read.
OverlapInv ==
  /\ Sound
  /\ \A s \in Sessions : Remembers(tx[s]) /\ (s \in overtaken \/ StillHolds(tx[s]))

\* How a row of bookings, and its event, may differ after a step.
Moves ==
  \A b \in Bookings :
    /\ bookingStatus[b] # "NONE" => bookingStatus'[b] # "NONE" /\ bookingSlot'[b] = bookingSlot[b]
    /\ bookingStatus[b] = "GONE" => bookingStatus'[b] = "GONE"
    /\ bookingStatus[b] # "NONE" =>
         bookingStatus'[b] \in {bookingStatus[b], "CONFIRMED", "CANCELLED", "GONE"}
    /\ eventStatus'[b] \in {eventStatus[b], "ACTIVE", "COMPLETED", "NONE"}
    /\ visit[b] <= visit'[b]

\* Every step moves the rows so.
LEMMA StepMoves ==
  ASSUME TablesTypeOK,
         \/ RowChange
         \/ \E v \in RemovableVehicles : DeleteVehicle(v)
         \/ UNCHANGED rows
  PROVE  Moves
<1> USE DEF TablesTypeOK, BookingStatus
<1>1. ASSUME NEW b \in Bookings, NEW sl \in Slots, InsertBooking(b, sl)
      PROVE  Moves
  BY <1>1 DEF InsertBooking, Moves
<1>2. ASSUME NEW b \in Bookings, FirstVisit(b)
      PROVE  Moves
  BY <1>2 DEF FirstVisit, OpenVisit, Moves
<1>3. ASSUME NEW b \in Bookings, NEW seen \in BookingStatus, ReturnVisit(b, seen)
      PROVE  Moves
  BY <1>3 DEF ReturnVisit, OpenVisit, Moves
<1>4. ASSUME NEW b \in Bookings, NEW n \in Nat, CloseVisit(b, n)
      PROVE  Moves
  BY <1>4 DEF CloseVisit, Moves
<1>5. ASSUME NEW b \in Bookings, CancelBooking(b)
      PROVE  Moves
  BY <1>5 DEF CancelBooking, BookingExists, Moves
<1>6. ASSUME NEW bs \in SUBSET {b \in Bookings : BookingExists(b)}, CascadeDelete(bs)
      PROVE  Moves
  BY <1>6 DEF CascadeDelete, BookingExists, Moves
<1>7. CASE Administration
  <2>1. ASSUME NEW sl \in Slots, RemoveSlot(sl)
        PROVE  Moves
    BY <2>1, <1>6 DEF RemoveSlot, OnSlot
  <2>2. ASSUME NEW sl \in Slots, NEW status, CreateSlot(sl, status) \/ UpdateSlotStatus(sl, status)
        PROVE  Moves
    BY <2>2 DEF CreateSlot, UpdateSlotStatus, Moves
  <2> QED
    BY <1>7, <2>1, <2>2 DEF Administration
<1>8. ASSUME NEW v \in RemovableVehicles, DeleteVehicle(v)
      PROVE  Moves
  BY <1>8, <1>6 DEF DeleteVehicle
<1>9. CASE UNCHANGED rows
  BY <1>9 DEF rows, Moves
<1> QED
  BY <1>1, <1>2, <1>3, <1>4, <1>5, <1>7, <1>8, <1>9 DEF RowChange

\* What a transaction knows survives every step.
LEMMA StillRemembers ==
  ASSUME TablesTypeOK, TablesTypeOK', NEW t \in Transaction, TransactionOK(t), Remembers(t), Moves
  PROVE  Remembers(t)'
<1>b. ASSUME t.at \in {"in.event", "in.first", "in.return", "in.busy", "in.write",
                       "out.write", "cancel.write"}
      PROVE  t.booking \in Bookings /\ bookingStatus[t.booking] # "NONE"
  BY <1>b DEF TransactionOK, Remembers, ActiveBookingStatuses
<1>1. (t.at \in {"in.event", "in.first", "in.return", "in.busy", "in.write"} =>
         bookingStatus[t.booking] \in {t.seen, "CONFIRMED", "CANCELLED", "GONE"})'
  BY <1>b DEF Moves, Remembers
<1>2. (t.at \in {"in.return", "in.busy", "in.write"} =>
         eventStatus[t.booking] \in {"COMPLETED", "ACTIVE", "NONE"})'
  BY <1>b DEF Moves, Remembers
<1>3. (t.at = "cancel.write" =>
         bookingStatus[t.booking] \in ActiveBookingStatuses \cup {"CANCELLED", "GONE"})'
  BY <1>b DEF Moves, Remembers, ActiveBookingStatuses
<1>4. (t.at = "out.write" =>
         bookingStatus[t.booking] # "NONE" /\ t.visit <= visit[t.booking])'
  BY <1>b DEF Moves, Remembers, TablesTypeOK, Transaction
<1> QED
  BY <1>1, <1>2, <1>3, <1>4 DEF Remembers

\* A step that touches none of its rows leaves true what a transaction has read.
LEMMA UntouchedHolds ==
  ASSUME TablesTypeOK, TablesTypeOK', NEW t \in Transaction, TransactionOK(t), Remembers(t),
         StillHolds(t), Moves, ~Touches(t)
  PROVE  StillHolds(t)'
<1> USE TablesAssumption DEF BookingStatus, EventStatus
<1>n. None \notin Slots /\ None \notin Bookings
  BY TablesAssumption
<1>t. /\ \A sl \in Slots : sl = SlotOf(t) => slot'[sl] = slot[sl]
      /\ \A b \in Bookings : bookingSlot'[b] = SlotOf(t) =>
           /\ bookingStatus'[b] = bookingStatus[b]
           /\ bookingSlot'[b] = bookingSlot[b]
           /\ eventStatus'[b] = eventStatus[b]
           /\ visit'[b] = visit[b]
      /\ \A b \in Bookings : t.at = "vehicle.delete" /\ VehicleOf[b] = t.vehicle =>
           bookingStatus'[b] = bookingStatus[b]
  BY DEF Touches, BookingRow
<1>c. ASSUME t.at \in {"create.count", "create.write", "assign.write"}
      PROVE  t.slot \in Slots /\ SlotOf(t) = t.slot
  BY <1>c DEF TransactionOK, Remembers, SlotOf
<1>k. ASSUME t.at \in {"in.event", "in.first", "in.return", "in.busy", "in.write",
                       "out.write", "cancel.write"}
      PROVE  /\ t.booking \in Bookings /\ bookingStatus[t.booking] # "NONE"
             /\ bookingSlot'[t.booking] = bookingSlot[t.booking] /\ SlotOf(t) = bookingSlot[t.booking]
             /\ bookingStatus'[t.booking] = bookingStatus[t.booking]
             /\ eventStatus'[t.booking] = eventStatus[t.booking]
             /\ visit'[t.booking] = visit[t.booking]
  <2>1. t.booking \in Bookings
    BY <1>k DEF TransactionOK
  <2>2. bookingStatus[t.booking] # "NONE"
    BY <1>k DEF Remembers, ActiveBookingStatuses
  <2>3. SlotOf(t) = bookingSlot[t.booking]
    BY <2>1, <1>n DEF SlotOf
  <2>4. bookingSlot'[t.booking] = bookingSlot[t.booking]
    BY <2>1, <2>2 DEF Moves
  <2> QED
    BY <2>1, <2>2, <2>3, <2>4, <1>t
<1>o. ASSUME NEW sl \in Slots, sl = SlotOf(t)
      PROVE  /\ slot'[sl] = slot[sl]
             /\ \A b \in Bookings : b \in OnSlot(sl)' =>
                  /\ b \in OnSlot(sl)
                  /\ bookingStatus'[b] = bookingStatus[b]
                  /\ eventStatus'[b] = eventStatus[b]
  BY <1>o, <1>t DEF OnSlot, BookingExists
<1>1. (t.at = "create.write" =>
         \A b \in OnSlot(t.slot) : bookingStatus[b] \notin ActiveBookingStatuses)'
  BY <1>c, <1>o DEF StillHolds, OnSlot
<1>2. (t.at = "assign.write" /\ t.seen # "AVAILABLE" => slot[t.slot] # "AVAILABLE")'
  BY <1>c, <1>o DEF StillHolds
<1>3. (t.at \in {"in.event", "in.first", "in.return", "in.busy", "in.write"} =>
         bookingStatus[t.booking] \in {t.seen, "GONE"})'
  BY <1>k DEF StillHolds
<1>4. (t.at \in {"in.return", "in.busy", "in.write"} =>
         eventStatus[t.booking] \in {"COMPLETED", "NONE"})'
  BY <1>k DEF StillHolds
<1>e. ASSUME t.at \in {"in.busy", "in.write"}, BookingExists(t.booking)'
      PROVE  BookingExists(t.booking) /\ bookingSlot[t.booking] \in Slots
  BY <1>e, <1>k DEF BookingExists, TablesTypeOK
<1>5. (t.at \in {"in.busy", "in.write"} /\ BookingExists(t.booking) =>
         slot[bookingSlot[t.booking]] = "OCCUPIED")'
  BY <1>k, <1>o, <1>e DEF StillHolds
<1>6. (t.at = "in.write" /\ BookingExists(t.booking) =>
         ActiveOn(bookingSlot[t.booking]) = {})'
  <2> SUFFICES ASSUME t.at = "in.write", BookingExists(t.booking)'
               PROVE  ActiveOn(bookingSlot[t.booking])' = {}
    OBVIOUS
  <2> DEFINE x == bookingSlot[t.booking]
  <2>1. x \in Slots /\ x = SlotOf(t) /\ bookingSlot'[t.booking] = x /\ BookingExists(t.booking)
    BY <1>k, <1>e
  <2>2. \A b \in OnSlot(x) : eventStatus[b] # "ACTIVE"
    BY <2>1 DEF StillHolds, ActiveOn
  <2>3. ASSUME NEW b \in Bookings, bookingStatus'[b] \in BookingStatus, bookingSlot'[b] = x
        PROVE  eventStatus'[b] # "ACTIVE"
    BY <2>1, <2>2, <2>3, <1>o DEF OnSlot, BookingExists
  <2> QED
    BY <2>1, <2>3 DEF ActiveOn, OnSlot, BookingExists
<1>7. (t.at = "cancel.write" =>
         bookingStatus[t.booking] \in ActiveBookingStatuses \cup {"GONE"})'
  BY <1>k DEF StillHolds
<1>8. (t.at = "out.write" /\ eventStatus[t.booking] = "ACTIVE" => visit[t.booking] = t.visit)'
  BY <1>k DEF StillHolds
<1>9. (t.at = "vehicle.delete" =>
         \A b \in Bookings : BookingExists(b) => VehicleOf[b] # t.vehicle)'
  BY <1>t DEF StillHolds, BookingExists
<1> QED
  BY <1>1, <1>2, <1>3, <1>4, <1>5, <1>6, <1>7, <1>8, <1>9 DEF StillHolds

\* A session reads, and what it read is so; or it ends.
Reads(s) ==
  /\ UNCHANGED rows
  /\ \E t \in Transaction : /\ Remembers(t)
                            /\ StillHolds(tx[s]) => StillHolds(t)
                            /\ tx' = [tx EXCEPT ![s] = t]

\* A session commits what one step of ParkingLedger writes, or deviates from it
\* because what it read no longer holds.
Writes(s) ==
  /\ tx[s] # Idle
  /\ Ledger!Next \/ (~StillHolds(tx[s]) /\ Deviates(tx[s]))
  /\ tx' = [tx EXCEPT ![s] = Idle]

\* A step that leaves the rows alone leaves true what has been read.
LEMMA StutterHolds ==
  ASSUME NEW t, StillHolds(t), UNCHANGED rows
  PROVE  StillHolds(t)'
BY DEF rows, StillHolds, OnSlot, ActiveOn, BookingExists

\* A booking is Ledger's, unless the slot was counted or read before a change.
LEMMA BookingStep ==
  ASSUME TypeOK, NEW s \in Sessions, Remembers(tx[s]), Booking(s)
  PROVE  Reads(s) \/ Writes(s)
<1> USE TablesAssumption DEF TablesTypeOK, BookingStatus, EventStatus
<1>s. TablesTypeOK /\ tx[s] \in Transaction /\ TransactionOK(tx[s]) /\ tx \in [Sessions -> Transaction]
  BY DEF TypeOK
<1>1. ASSUME NEW v \in Vehicles, NEW sl \in Slots, ReadSlotAvailable(s, v, sl)
      PROVE  Reads(s)
  <2> DEFINE t == [Idle EXCEPT !.at = "create.count", !.slot = sl, !.vehicle = v]
  <2>1. t \in Transaction /\ Remembers(t) /\ StillHolds(t)
    BY DEF Idle, Transaction, Remembers, StillHolds, Steps
  <2> QED
    BY <1>1, <2>1 DEF ReadSlotAvailable, Begin, Reads
<1>2. ASSUME NEW v \in Vehicles, NEW sl \in Slots, ReadAssignment(s, v, sl)
      PROVE  Reads(s)
  <2> DEFINE t == [Idle EXCEPT !.at = "assign.write", !.slot = sl, !.vehicle = v, !.seen = slot[sl]]
  <2>1. t \in Transaction /\ Remembers(t) /\ StillHolds(t)
    BY <1>2 DEF Idle, Transaction, Remembers, StillHolds, Steps, ReadAssignment, SlotExists, SlotStatus
  <2> QED
    BY <1>2, <2>1 DEF ReadAssignment, Begin, Reads
<1>3. CASE CountActiveBookings(s)
  <2> DEFINE t == [tx[s] EXCEPT !.at = "create.write"]
  <2>1. t \in Transaction
    BY <1>s DEF Transaction, Steps
  <2>2. Remembers(t) /\ StillHolds(t)
    BY <1>s, <1>3 DEF CountActiveBookings, At, Remembers, StillHolds, Transaction
  <2> QED
    BY <1>3, <2>1, <2>2 DEF CountActiveBookings, Continue, Reads
<1>4. ASSUME NEW b \in Bookings, CommitBooking(s, b)
      PROVE  Writes(s)
  <2> DEFINE sl == tx[s].slot
  <2>1. sl \in Slots /\ tx[s].at = "create.write" /\ tx[s] # Idle /\ tx' = [tx EXCEPT ![s] = Idle]
    BY <1>s, <1>4 DEF CommitBooking, Commit, At, TransactionOK, Idle
  <2>2. reserveSlot(sl) /\ InsertBooking(b, sl)
    BY <1>4 DEF CommitBooking
  <2>3. CASE \A other \in OnSlot(sl) : bookingStatus[other] \notin ActiveBookingStatuses
    <3>1. Ledger!Book(sl, b)
      BY <2>2, <2>3
         DEF Ledger!Book, Ledger!OnSlot, Ledger!BookingExists, Ledger!BookingStatus,
             Ledger!ActiveBookingStatuses, Ledger!reserveSlot, Ledger!MoveSlot,
             Ledger!InsertBooking, Ledger!SlotExists, Ledger!SlotStatus,
             OnSlot, BookingExists, ActiveBookingStatuses, reserveSlot, MoveSlot, InsertBooking,
             SlotExists, SlotStatus
    <3> QED
      BY <2>1, <3>1 DEF Writes, Ledger!Next
  <2>4. CASE ~ \A other \in OnSlot(sl) : bookingStatus[other] \notin ActiveBookingStatuses
    <3>1. ~StillHolds(tx[s])
      BY <2>1, <2>4 DEF StillHolds
    <3>2. BooksOverActive(tx[s])
      BY <2>1, <2>2, <2>4 DEF BooksOverActive
    <3> QED
      BY <2>1, <3>1, <3>2 DEF Writes, Deviates
  <2> QED
    BY <2>3, <2>4
<1>5. ASSUME NEW b \in Bookings, CommitAssignedBooking(s, b)
      PROVE  Writes(s)
  <2> DEFINE sl == tx[s].slot
  <2>1. sl \in Slots /\ tx[s].at = "assign.write" /\ tx[s] # Idle /\ tx' = [tx EXCEPT ![s] = Idle]
    BY <1>s, <1>5 DEF CommitAssignedBooking, Commit, At, TransactionOK, Idle
  <2>2. /\ InsertBooking(b, sl) /\ sl \in AssignedSlots[VehicleOf[b]]
        /\ IF tx[s].seen = "AVAILABLE" THEN reserveSlot(sl) ELSE UNCHANGED slot
    BY <1>5 DEF CommitAssignedBooking, Commit, At, Remembers
  <2>3. CASE reserveSlot(sl) \/ slot[sl] # "AVAILABLE"
    <3>1. reserveSlot(sl) \/ (slot[sl] # "AVAILABLE" /\ UNCHANGED slot)
      BY <2>2, <2>3
    <3>2. Ledger!BookAssigned(sl, b)
      BY <2>2, <3>1
         DEF Ledger!BookAssigned, Ledger!reserveSlot, Ledger!MoveSlot,
             Ledger!InsertBooking, Ledger!SlotExists, Ledger!SlotStatus,
             reserveSlot, MoveSlot, InsertBooking, SlotExists, SlotStatus
    <3> QED
      BY <2>1, <3>2 DEF Writes, Ledger!Next
  <2>4. CASE ~reserveSlot(sl) /\ slot[sl] = "AVAILABLE"
    <3>1. tx[s].seen # "AVAILABLE" /\ UNCHANGED slot
      BY <2>2, <2>4
    <3>2. ~StillHolds(tx[s])
      BY <2>1, <2>4, <3>1 DEF StillHolds
    <3>3. BooksUnreserved(tx[s])
      BY <2>1, <2>2, <2>4, <3>1 DEF BooksUnreserved
    <3> QED
      BY <2>1, <3>2, <3>3 DEF Writes, Deviates
  <2> QED
    BY <2>3, <2>4
<1> QED
  BY <1>1, <1>2, <1>3, <1>4, <1>5 DEF Booking

\* A check-in is the one of ParkingLedger that its reads chose, unless its booking
\* or its slot has been changed since.
LEMMA CheckingInStep ==
  ASSUME TypeOK, NEW s \in Sessions, Remembers(tx[s]), CheckingIn(s)
  PROVE  Reads(s) \/ Writes(s)
<1> DEFINE bk == tx[s].booking
           sl == bookingSlot[bk]
<1>s. TablesTypeOK /\ tx[s] \in Transaction /\ TransactionOK(tx[s]) /\ tx \in [Sessions -> Transaction]
  BY DEF TypeOK
<1>1. ASSUME NEW b \in Bookings, ReadBooking(s, b)
      PROVE  Reads(s)
  <2> DEFINE t == [Idle EXCEPT !.at = "in.event", !.booking = b, !.seen = bookingStatus[b]]
  <2>1. t \in Transaction /\ Remembers(t) /\ StillHolds(t)
    BY <1>1 DEF Idle, Transaction, Remembers, StillHolds, Steps, ReadBooking, BookingStatus
  <2> QED
    BY <1>1, <2>1 DEF ReadBooking, Begin, Reads
<1>c. ASSUME NEW step \in {"in.first", "in.return", "in.busy", "in.write"}, Continue(s, step),
             Remembers([tx[s] EXCEPT !.at = step]),
             StillHolds(tx[s]) => StillHolds([tx[s] EXCEPT !.at = step])
      PROVE  Reads(s)
  <2>1. [tx[s] EXCEPT !.at = step] \in Transaction
    BY <1>s DEF Transaction, Steps
  <2> QED
    BY <1>c, <2>1 DEF Continue, Reads
<1>2. CASE ReadNoEvent(s)
  <2> DEFINE t == [tx[s] EXCEPT !.at = "in.first"]
  <2>1. Remembers(t) /\ (StillHolds(tx[s]) => StillHolds(t))
    BY <1>s, <1>2 DEF ReadNoEvent, At, Remembers, StillHolds, Transaction
  <2> QED
    BY <1>c, <1>2, <2>1 DEF ReadNoEvent
<1>3. CASE ReadCompletedEvent(s)
  <2> DEFINE t == [tx[s] EXCEPT !.at = "in.return"]
  <2>1. Remembers(t) /\ (StillHolds(tx[s]) => StillHolds(t))
    BY <1>s, <1>3 DEF ReadCompletedEvent, At, Remembers, StillHolds, Transaction
  <2> QED
    BY <1>c, <1>3, <2>1 DEF ReadCompletedEvent
<1>4. CASE ReadSlotOccupied(s)
  <2> DEFINE t == [tx[s] EXCEPT !.at = "in.busy"]
  <2>1. Remembers(t) /\ (StillHolds(tx[s]) => StillHolds(t))
    BY <1>s, <1>4 DEF ReadSlotOccupied, At, Remembers, StillHolds, Transaction
  <2> QED
    BY <1>c, <1>4, <2>1 DEF ReadSlotOccupied
<1>5. CASE ReadNoActiveEventOnSlot(s)
  <2> DEFINE t == [tx[s] EXCEPT !.at = "in.write"]
  <2>1. Remembers(t) /\ (StillHolds(tx[s]) => StillHolds(t))
    BY <1>s, <1>5 DEF ReadNoActiveEventOnSlot, At, Remembers, StillHolds, Transaction
  <2> QED
    BY <1>c, <1>5, <2>1 DEF ReadNoActiveEventOnSlot
<1>b. ASSUME NEW step \in {"in.first", "in.return", "in.write"}, Commit(s, step), BookingExists(bk)
      PROVE  /\ bk \in Bookings
             /\ tx[s].at = step /\ tx[s] # Idle /\ tx' = [tx EXCEPT ![s] = Idle]
             /\ tx[s].seen \in {"CONFIRMED", "COMPLETED"}
             /\ bookingStatus[bk] \in {tx[s].seen, "CONFIRMED", "CANCELLED"}
             /\ step = "in.first" => tx[s].seen = "CONFIRMED"
             /\ step # "in.first" => eventStatus[bk] \in {"COMPLETED", "ACTIVE", "NONE"}
  <2>1. tx[s].at = step /\ bk \in Bookings /\ tx[s] # Idle /\ tx' = [tx EXCEPT ![s] = Idle]
    BY <1>s, <1>b DEF Commit, At, TransactionOK, Idle
  <2>2. bookingStatus[bk] # "GONE"
    BY <1>b DEF BookingExists, BookingStatus
  <2> QED
    BY <1>b, <2>1, <2>2 DEF Remembers
<1>6. CASE CommitFirstCheckIn(s)
  <2>1. Commit(s, "in.first") /\ FirstVisit(bk) /\ BookingExists(bk)
    BY <1>6 DEF CommitFirstCheckIn, FirstVisit
  <2>2. /\ bk \in Bookings /\ tx[s].at = "in.first" /\ tx[s] # Idle /\ tx' = [tx EXCEPT ![s] = Idle]
        /\ bookingStatus[bk] \in {"CONFIRMED", "CANCELLED"} /\ tx[s].seen = "CONFIRMED"
    BY <1>b, <2>1
  <2>3. CASE bookingStatus[bk] = "CONFIRMED"
    <3>1. Ledger!CheckInFirst(bk)
      BY <2>1, <2>2, <2>3
         DEF Ledger!CheckInFirst, Ledger!FirstVisit, Ledger!BookingExists, Ledger!BookingStatus,
             Ledger!occupySlot, Ledger!MoveSlot, Ledger!OpenVisit,
             FirstVisit, BookingExists, BookingStatus, occupySlot, MoveSlot, OpenVisit
    <3> QED
      BY <2>2, <3>1 DEF Writes, Ledger!Next
  <2>4. CASE bookingStatus[bk] = "CANCELLED"
    <3>1. AdmitsCancelledFirst(tx[s])
      BY <2>1, <2>2, <2>4 DEF AdmitsCancelledFirst
    <3>2. ~StillHolds(tx[s])
      BY <2>2, <2>4 DEF StillHolds
    <3> QED
      BY <2>2, <3>1, <3>2 DEF Writes, Deviates
  <2> QED
    BY <2>2, <2>3, <2>4
<1>r. ASSUME NEW step \in {"in.return", "in.write"}, Commit(s, step), ReturnVisit(bk, tx[s].seen),
             \/ step = "in.return" /\ (occupyAvailableSlot(sl) \/ occupySlot(sl))
             \/ step = "in.write" /\ UNCHANGED slot
      PROVE  Writes(s)
  <2>1. bk \in Bookings /\ eventStatus[bk] # "NONE"
    BY <1>s, <1>r DEF Commit, At, TransactionOK, ReturnVisit
  <2>2. BookingExists(bk) /\ sl \in Slots
    BY <1>s, <2>1 DEF TablesTypeOK, BookingExists
  <2>3. /\ tx[s].at = step /\ tx[s] # Idle /\ tx' = [tx EXCEPT ![s] = Idle]
        /\ tx[s].seen \in {"CONFIRMED", "COMPLETED"}
        /\ bookingStatus[bk] \in {tx[s].seen, "CONFIRMED", "CANCELLED"}
        /\ eventStatus[bk] \in {"COMPLETED", "ACTIVE"}
    BY <1>r, <1>b, <2>1, <2>2
  <2> DEFINE Late == \/ bookingStatus[bk] = "CANCELLED"
                     \/ eventStatus[bk] = "ACTIVE"
                     \/ step = "in.write" /\ slot[sl] # "OCCUPIED"
                     \/ step = "in.write" /\ ActiveOn(sl) # {}
  <2>4. CASE ~Late
    <3>1. bookingStatus[bk] \in {tx[s].seen, "CONFIRMED"} /\ eventStatus[bk] = "COMPLETED"
      BY <2>3, <2>4
    <3>2. bookingStatus \in [Bookings -> BookingStatus \cup {"NONE", "GONE"}]
      BY <1>s DEF TablesTypeOK
    <3>3. ReturnVisit(bk, bookingStatus[bk])
      BY <1>r, <2>1, <2>3, <3>1, <3>2 DEF ReturnVisit
    <3>4. Ledger!ReturnVisit(bk, bookingStatus[bk])
      BY <3>3 DEF Ledger!ReturnVisit, Ledger!OpenVisit, ReturnVisit, OpenVisit
    <3>5. \/ Ledger!occupyAvailableSlot(sl)
          \/ Ledger!occupySlot(sl)
          \/ slot[sl] = "OCCUPIED" /\ Ledger!ActiveOn(sl) = {} /\ UNCHANGED slot
      BY <1>r, <2>4
         DEF Ledger!occupyAvailableSlot, Ledger!occupySlot, Ledger!MoveSlot, Ledger!ActiveOn,
             Ledger!OnSlot, Ledger!BookingExists, Ledger!BookingStatus,
             occupyAvailableSlot, occupySlot, MoveSlot, ActiveOn, OnSlot, BookingExists, BookingStatus
    <3>6. Ledger!CheckInReturn(bk)
      BY <2>3, <3>1, <3>4, <3>5 DEF Ledger!CheckInReturn
    <3> QED
      BY <2>1, <2>3, <3>6 DEF Writes, Ledger!Next
  <2>5. CASE Late
    <3>1. IF step = "in.return" THEN slot'[sl] = "OCCUPIED" ELSE UNCHANGED slot
      BY <1>r, <1>s, <2>2 DEF occupyAvailableSlot, occupySlot, MoveSlot, TablesTypeOK
    <3>2. ReturnsLate(tx[s])
      BY <1>r, <2>3, <2>5, <3>1 DEF ReturnsLate
    <3>3. ~StillHolds(tx[s])
      BY <2>2, <2>3, <2>5 DEF StillHolds
    <3> QED
      BY <2>3, <3>2, <3>3 DEF Writes, Deviates
  <2> QED
    BY <2>4, <2>5
<1>7. CASE CommitReturnCheckIn(s)
  BY <1>r, <1>7 DEF CommitReturnCheckIn
<1>8. CASE CommitReturnToOccupied(s)
  BY <1>r, <1>8 DEF CommitReturnToOccupied
<1> QED
  BY <1>1, <1>2, <1>3, <1>4, <1>5, <1>6, <1>7, <1>8 DEF CheckingIn

\* A cancellation finds the booking as active as it was read, cancelled, or gone.
LEMMA CancellingStep ==
  ASSUME TypeOK, NEW s \in Sessions, Remembers(tx[s]), Cancelling(s)
  PROVE  Reads(s) \/ Writes(s)
<1> DEFINE bk == tx[s].booking
<1>s. TablesTypeOK /\ tx[s] \in Transaction /\ TransactionOK(tx[s]) /\ tx \in [Sessions -> Transaction]
  BY DEF TypeOK
<1>1. ASSUME NEW b \in Bookings, ReadCancellable(s, b)
      PROVE  Reads(s)
  <2> DEFINE t == [Idle EXCEPT !.at = "cancel.write", !.booking = b]
  <2>1. t \in Transaction /\ Remembers(t) /\ StillHolds(t)
    BY <1>1 DEF Idle, Transaction, Remembers, StillHolds, Steps, ReadCancellable
  <2> QED
    BY <1>1, <2>1 DEF ReadCancellable, Begin, Reads
<1>2. CASE CommitCancel(s)
  <2>1. /\ bk \in Bookings /\ tx[s] # Idle /\ tx' = [tx EXCEPT ![s] = Idle] /\ CancelBooking(bk)
        /\ tx[s].at = "cancel.write"
    BY <1>s, <1>2 DEF CommitCancel, Commit, At, TransactionOK, Idle
  <2>2. bookingStatus[bk] \in ActiveBookingStatuses \cup {"CANCELLED"}
    BY <2>1 DEF Remembers, CancelBooking, BookingExists, BookingStatus
  <2>3. CASE bookingStatus[bk] \in ActiveBookingStatuses
    <3>1. Ledger!Cancel(bk)
      BY <2>1, <2>3
         DEF Ledger!Cancel, Ledger!ActiveBookingStatuses, Ledger!CancelBooking,
             Ledger!BookingExists, Ledger!BookingStatus, Ledger!releaseReservedSlot,
             Ledger!MoveSlot, ActiveBookingStatuses, CancelBooking, BookingExists, BookingStatus,
             releaseReservedSlot, MoveSlot
    <3> QED
      BY <2>1, <3>1 DEF Writes, Ledger!Next
  <2>4. CASE bookingStatus[bk] = "CANCELLED"
    <3>1. CancelsAgain(tx[s]) /\ ~StillHolds(tx[s])
      BY <2>1, <2>4 DEF CancelsAgain, StillHolds, ActiveBookingStatuses
    <3> QED
      BY <2>1, <3>1 DEF Writes, Deviates
  <2> QED
    BY <2>2, <2>3, <2>4
<1> QED
  BY <1>1, <1>2 DEF Cancelling

\* A check-out closes the visit it read, or a later one.
LEMMA CheckingOutStep ==
  ASSUME TypeOK, NEW s \in Sessions, Remembers(tx[s]), CheckingOut(s)
  PROVE  Reads(s) \/ Writes(s)
<1> DEFINE bk == tx[s].booking
<1>s. TablesTypeOK /\ tx[s] \in Transaction /\ TransactionOK(tx[s]) /\ tx \in [Sessions -> Transaction]
  BY DEF TypeOK
<1>1. ASSUME NEW b \in Bookings, ReadActiveEvent(s, b)
      PROVE  Reads(s)
  <2> DEFINE t == [Idle EXCEPT !.at = "out.write", !.booking = b, !.visit = visit[b]]
  <2>1. visit[b] \in Nat /\ bookingStatus[b] \in BookingStatus
    BY <1>s, <1>1 DEF ReadActiveEvent, TablesTypeOK
  <2>2. t \in Transaction
    BY <2>1 DEF Idle, Transaction, Steps
  <2>3. Remembers(t) /\ StillHolds(t)
    BY <2>1 DEF Idle, Remembers, StillHolds, BookingStatus
  <2> QED
    BY <1>1, <2>2, <2>3 DEF ReadActiveEvent, Begin, Reads
<1>2. CASE CommitCheckOut(s)
  <2>1. /\ bk \in Bookings /\ tx[s] # Idle /\ tx' = [tx EXCEPT ![s] = Idle]
        /\ CloseVisit(bk, tx[s].visit) /\ tx[s].at = "out.write"
    BY <1>s, <1>2 DEF CommitCheckOut, Commit, At, TransactionOK, Idle
  <2>2. tx[s].visit <= visit[bk] /\ tx[s].visit \in Nat /\ visit[bk] \in Nat
    BY <1>s, <2>1 DEF Remembers, TablesTypeOK, Transaction
  <2>3. CASE visit[bk] = tx[s].visit
    <3>1. Ledger!CheckOut(bk)
      BY <2>1, <2>3
         DEF Ledger!CheckOut, Ledger!CloseVisit, Ledger!releaseOccupiedSlot, Ledger!MoveSlot,
             CloseVisit, releaseOccupiedSlot, MoveSlot
    <3> QED
      BY <2>1, <3>1 DEF Writes, Ledger!Next
  <2>4. CASE visit[bk] # tx[s].visit
    <3>1. BillsEarlierVisit(tx[s])
      BY <2>1, <2>2, <2>4 DEF BillsEarlierVisit
    <3>2. ~StillHolds(tx[s])
      BY <2>1, <2>4 DEF StillHolds, CloseVisit
    <3> QED
      BY <2>1, <3>1, <3>2 DEF Writes, Deviates
  <2> QED
    BY <2>3, <2>4
<1> QED
  BY <1>1, <1>2 DEF CheckingOut

\* A vehicle that is deleted still has no booking, or one was made since.
LEMMA RemovingVehicleStep ==
  ASSUME TypeOK, NEW s \in Sessions, Remembers(tx[s]), RemovingVehicle(s)
  PROVE  Reads(s) \/ Writes(s)
<1> DEFINE v == tx[s].vehicle
<1>s. TablesTypeOK /\ tx[s] \in Transaction /\ TransactionOK(tx[s]) /\ tx \in [Sessions -> Transaction]
  BY DEF TypeOK
<1>1. ASSUME NEW w \in Vehicles, CountVehicleBookings(s, w)
      PROVE  Reads(s)
  <2> DEFINE t == [Idle EXCEPT !.at = "vehicle.delete", !.vehicle = w]
  <2>1. t \in Transaction /\ Remembers(t) /\ StillHolds(t)
    BY <1>1 DEF Idle, Transaction, Remembers, StillHolds, Steps, CountVehicleBookings
  <2> QED
    BY <1>1, <2>1 DEF CountVehicleBookings, Begin, Reads
<1>2. CASE CommitRemoveVehicle(s)
  <2>1. /\ v \in RemovableVehicles /\ v \in Vehicles /\ tx[s] # Idle /\ tx' = [tx EXCEPT ![s] = Idle]
        /\ DeleteVehicle(v) /\ tx[s].at = "vehicle.delete"
    BY <1>s, <1>2, TablesAssumption DEF CommitRemoveVehicle, Commit, At, TransactionOK, Idle
  <2>2. CASE \A b \in Bookings : BookingExists(b) => VehicleOf[b] # v
    <3>1. Ledger!RemoveVehicle(v)
      BY <2>1, <2>2
         DEF Ledger!RemoveVehicle, Ledger!DeleteVehicle, Ledger!CascadeDelete,
             Ledger!BookingExists, Ledger!BookingStatus, DeleteVehicle, CascadeDelete,
             BookingExists, BookingStatus
    <3> QED
      BY <2>1, <3>1 DEF Writes, Ledger!Next
  <2>3. CASE ~ \A b \in Bookings : BookingExists(b) => VehicleOf[b] # v
    <3>1. DeletesBooked(tx[s]) /\ ~StillHolds(tx[s])
      BY <2>1, <2>3 DEF DeletesBooked, StillHolds
    <3> QED
      BY <2>1, <3>1 DEF Writes, Deviates
  <2> QED
    BY <2>2, <2>3
<1> QED
  BY <1>1, <1>2 DEF RemovingVehicle

\* Every step of a session reads or writes.
LEMMA SessionStep ==
  ASSUME TypeOK, NEW s \in Sessions, Remembers(tx[s]),
         \/ Booking(s) \/ Cancelling(s) \/ CheckingIn(s) \/ CheckingOut(s)
         \/ RemovingVehicle(s) \/ Rollback(s)
  PROVE  Reads(s) \/ Writes(s)
<1>1. CASE Rollback(s)
  <2>1. Idle \in Transaction /\ Remembers(Idle) /\ StillHolds(Idle)
    BY DEF Idle, Transaction, Steps, Remembers, StillHolds
  <2> QED
    BY <1>1, <2>1 DEF Rollback, Reads
<1> QED
  BY <1>1, BookingStep, CancellingStep, CheckingInStep, CheckingOutStep, RemovingVehicleStep

\* A transaction that goes on and is not overtaken has what it read before it.
LEMMA NotOvertakenHolds ==
  ASSUME TypeOK, TypeOK', Moves, Record, NEW r \in Sessions, r \notin overtaken',
         tx'[r] = tx[r], Remembers(tx[r]), r \in overtaken \/ StillHolds(tx[r])
  PROVE  StillHolds(tx[r])'
<1> SUFFICES ASSUME NEW u, u = tx'[r]
             PROVE  StillHolds(u)'
  OBVIOUS
<1>1. /\ u \in Transaction /\ TransactionOK(u) /\ Remembers(u) /\ TablesTypeOK /\ TablesTypeOK'
      /\ u = tx[r]
  BY DEF TypeOK
<1>2. CASE u = Idle
  BY <1>2 DEF Idle, StillHolds
<1>3. CASE u # Idle
  <2>1. r \notin overtaken /\ ~Touches(u)
    BY <1>1, <1>3 DEF Record
  <2> QED
    BY <1>1, <2>1, UntouchedHolds
<1> QED
  BY <1>2, <1>3

\* Each step changes the rows as ParkingLedger does, or is the commit of a request
\* whose reads no longer hold; and the reads of the others hold unless it touched them.
LEMMA OverlapStep ==
  ASSUME OverlapInv, [Next /\ Record]_overlapVars
  PROVE  /\ OverlapInv'
         /\ UNCHANGED rows \/ Ledger!Next \/ \E s \in overtaken : Deviates(tx[s]) /\ tx'[s] = Idle
<1> DEFINE Lawful == \/ UNCHANGED rows
                     \/ Ledger!Next
                     \/ \E s \in overtaken : Deviates(tx[s]) /\ tx'[s] = Idle
<1>s. /\ Sound /\ TypeOK /\ TablesTypeOK /\ tx \in [Sessions -> Transaction]
      /\ \A s \in Sessions : /\ TransactionOK(tx[s]) /\ Remembers(tx[s])
                             /\ s \in overtaken \/ StillHolds(tx[s])
  BY DEF OverlapInv, Sound, TypeOK
<1>n. [Next]_vars
  BY DEF overlapVars
<1>t. Sound' /\ TypeOK' /\ TablesTypeOK'
  <2>1. Sound'
    BY <1>s, <1>n, NextSound
  <2> QED
    BY <2>1 DEF Sound, TypeOK
<1>m. Moves
  BY <1>s, <1>n, StepShape, StepMoves
<1>k. ASSUME NEW r \in Sessions, tx'[r] = tx[r]
      PROVE  Remembers(tx[r])'
  <2> SUFFICES ASSUME NEW u, u = tx'[r]
               PROVE  Remembers(u)'
    OBVIOUS
  <2>1. u \in Transaction /\ TransactionOK(u) /\ Remembers(u)
    BY <1>s, <1>k
  <2> QED
    BY <1>s, <1>t, <1>m, <2>1, StillRemembers
<1>h. ASSUME Record, NEW r \in Sessions, tx'[r] = tx[r]
      PROVE  r \in overtaken' \/ StillHolds(tx[r])'
  BY <1>s, <1>t, <1>m, <1>h, NotOvertakenHolds
<1>1. ASSUME NEW s \in Sessions, Reads(s), Record
      PROVE  OverlapInv' /\ Lawful
  <2>1. PICK t \in Transaction : /\ Remembers(t)
                                 /\ StillHolds(tx[s]) => StillHolds(t)
                                 /\ tx' = [tx EXCEPT ![s] = t]
    BY <1>1 DEF Reads
  <2>2. UNCHANGED rows
    BY <1>1 DEF Reads
  <2>3. tx'[s] = t /\ \A r \in Sessions : r # s => tx'[r] = tx[r]
    BY <1>s, <2>1
  <2>4. ASSUME NEW u, Remembers(u)
        PROVE  Remembers(u)'
    BY <2>2, <2>4 DEF rows, Remembers
  <2>5. ASSUME NEW u, StillHolds(u)
        PROVE  StillHolds(u)'
    BY <2>2, <2>5, StutterHolds
  <2>6. s \in overtaken' \/ StillHolds(t)
    <3>1. CASE StillHolds(tx[s])
      BY <2>1, <3>1
    <3>2. CASE ~StillHolds(tx[s])
      <4>1. s \in overtaken /\ tx[s] # Idle
        BY <1>s, <3>2 DEF StillHolds, Idle
      <4>2. CASE t = Idle
        BY <4>2 DEF StillHolds, Idle
      <4>3. CASE t # Idle
        BY <1>1, <2>3, <4>1, <4>3 DEF Record
      <4> QED
        BY <4>2, <4>3
    <3> QED
      BY <3>1, <3>2
  <2>7. Remembers(tx[s])' /\ (s \in overtaken' \/ StillHolds(tx[s])')
    <3> SUFFICES ASSUME NEW u, u = tx'[s]
                 PROVE  Remembers(u)' /\ (s \in overtaken' \/ StillHolds(u)')
      OBVIOUS
    <3>1. u = t
      BY <2>3
    <3> QED
      BY <2>1, <2>4, <2>5, <2>6, <3>1
  <2>8. \A r \in Sessions : Remembers(tx[r])' /\ (r \in overtaken' \/ StillHolds(tx[r])')
    BY <1>k, <1>h, <1>1, <2>3, <2>7
  <2> QED
    BY <1>t, <2>2, <2>8 DEF OverlapInv
<1>2. ASSUME NEW s \in Sessions, Writes(s), Record
      PROVE  OverlapInv' /\ Lawful
  <2>1. tx'[s] = Idle /\ \A r \in Sessions : r # s => tx'[r] = tx[r]
    BY <1>s, <1>2 DEF Writes
  <2>2. Lawful
    BY <1>s, <1>2, <2>1 DEF Writes
  <2>3. Remembers(tx[s])' /\ StillHolds(tx[s])'
    <3> SUFFICES ASSUME NEW u, u = tx'[s]
                 PROVE  Remembers(u)' /\ StillHolds(u)'
      OBVIOUS
    <3> QED
      BY <2>1 DEF Idle, Remembers, StillHolds
  <2>4. \A r \in Sessions : Remembers(tx[r])' /\ (r \in overtaken' \/ StillHolds(tx[r])')
    BY <1>k, <1>h, <1>2, <2>1, <2>3
  <2> QED
    BY <1>t, <2>2, <2>4 DEF OverlapInv
<1>3. ASSUME Administration, UNCHANGED tx, Record
      PROVE  OverlapInv' /\ Lawful
  <2>1. Ledger!Administration
    BY <1>3
       DEF Administration, CreateSlot, UpdateSlotStatus, RemoveSlot, CascadeDelete, SlotExists, OnSlot,
           BookingExists, BookingStatus, SlotStatus,
           Ledger!Administration, Ledger!CreateSlot, Ledger!UpdateSlotStatus, Ledger!RemoveSlot,
           Ledger!CascadeDelete, Ledger!SlotExists, Ledger!OnSlot, Ledger!BookingExists,
           Ledger!BookingStatus, Ledger!SlotStatus
  <2>2. \A r \in Sessions : Remembers(tx[r])' /\ (r \in overtaken' \/ StillHolds(tx[r])')
    BY <1>k, <1>h, <1>3
  <2> QED
    BY <1>t, <2>1, <2>2 DEF OverlapInv, Ledger!Next
<1>4. CASE UNCHANGED overlapVars
  <2>1. UNCHANGED rows /\ UNCHANGED tx /\ UNCHANGED overtaken
    BY <1>4 DEF overlapVars, vars
  <2> SUFFICES ASSUME NEW r \in Sessions
               PROVE  r \in overtaken' \/ StillHolds(tx[r])'
    BY <1>t, <1>k, <2>1 DEF OverlapInv
  <2> SUFFICES ASSUME NEW u, u = tx'[r]
               PROVE  r \in overtaken' \/ StillHolds(u)'
    OBVIOUS
  <2>2. r \in overtaken \/ StillHolds(u)
    BY <1>s, <2>1
  <2> QED
    BY <2>1, <2>2, StutterHolds
<1>5. CASE Next /\ Record
  <2>1. ASSUME NEW s \in Sessions,
               \/ Booking(s) \/ Cancelling(s) \/ CheckingIn(s) \/ CheckingOut(s)
               \/ RemovingVehicle(s) \/ Rollback(s)
        PROVE  OverlapInv' /\ Lawful
    BY <1>s, <1>1, <1>2, <1>5, <2>1, SessionStep
  <2> QED
    BY <1>3, <1>5, <2>1 DEF Next
<1> QED
  BY <1>4, <1>5

\* However requests overlap and administrators write, only a request that was
\* overtaken since it read does what no atomic handler does, and it does one of the
\* seven things that Deviates lists.
THEOREM OvertakenDeviate == OverlapSpec => OnlyOvertakenDeviate
<1>1. OverlapInit => OverlapInv
  <2> SUFFICES ASSUME OverlapInit
               PROVE  OverlapInv
    OBVIOUS
  <2>1. Sound
    BY InitSound DEF OverlapInit
  <2>2. \A s \in Sessions : tx[s] = Idle
    BY DEF OverlapInit, Init
  <2>3. Remembers(Idle) /\ StillHolds(Idle)
    BY DEF Idle, Remembers, StillHolds
  <2> QED
    BY <2>1, <2>2, <2>3 DEF OverlapInv
<1>2. OverlapInv /\ [Next /\ Record]_overlapVars =>
        OverlapInv' /\ [Ledger!Next \/ \E s \in overtaken : Deviates(tx[s]) /\ tx'[s] = Idle]_rows
  BY OverlapStep
<1> QED
  BY <1>1, <1>2, PTL DEF OverlapSpec, OnlyOvertakenDeviate
=============================================================================
