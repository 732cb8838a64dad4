\* Two overlapping transactions on one slot, with administrators taking slots
\* out of service or freeing them by hand.
SPECIFICATION OverlapSpec
CONSTANTS
  Slots = {s1}
  Bookings = {b1, b2, b3}
  Vehicles = {v1}
  b1 = b1
  b2 = b2
  b3 = b3
  v1 = v1
  v2 = v2
  None = None
  Sessions = {t1, t2}
  VehicleOf <- OneVehicle
  AssignedSlots <- AllAssigned
  OverrideStatuses = {"AVAILABLE", "MAINTENANCE"}
  RemovableVehicles = {}
  MaxVisits = 2
SYMMETRY SessionSymmetry
INVARIANTS NoOrphanReservation NoPhantomOccupancy
CHECK_DEADLOCK FALSE
