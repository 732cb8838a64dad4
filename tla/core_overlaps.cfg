\* Two overlapping transactions on two slots, all assigned to one vehicle; the
\* other vehicle may be deleted, and administrators make and remove slots.
SPECIFICATION OverlapSpec
CONSTANTS
  Slots = {s1, s2}
  b1 = b1
  b2 = b2
  b3 = b3
  Bookings = {b1, b3}
  v1 = v1
  v2 = v2
  Vehicles = {v1, v2}
  None = None
  Sessions = {t1, t2}
  VehicleOf <- TwoVehicles
  AssignedSlots <- AllAssigned
  OverrideStatuses = {}
  RemovableVehicles = {v2}
  MaxVisits = 2
SYMMETRY SessionSymmetry
PROPERTIES OnlyOvertakenDeviate
CHECK_DEADLOCK FALSE
