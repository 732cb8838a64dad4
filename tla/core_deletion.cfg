\* Two overlapping transactions on one slot, with vehicles deleted while bookings
\* for them are made, and administrators writing any status.
SPECIFICATION OverlapSpec
CONSTANTS
  Slots = {s1}
  Bookings = {b1, b3}
  Vehicles = {v1, v2}
  b1 = b1
  b2 = b2
  b3 = b3
  v1 = v1
  v2 = v2
  None = None
  Sessions = {t1, t2}
  VehicleOf <- TwoVehicles
  AssignedSlots <- SecondAssigned
  OverrideStatuses = {"AVAILABLE", "RESERVED", "OCCUPIED", "MAINTENANCE"}
  RemovableVehicles = {v1, v2}
  MaxVisits = 3
SYMMETRY SessionSymmetry
INVARIANTS VisitsBalance
CHECK_DEADLOCK FALSE
