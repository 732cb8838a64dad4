\* Bookings through the API only.
SPECIFICATION OverlapSpec
CONSTANTS
  Slots = {s1}
  b1 = b1
  b2 = b2
  b3 = b3
  Bookings = {b1, b2, b3}
  v1 = v1
  v2 = v2
  Vehicles = {v1, v2}
  None = None
  Sessions = {t1, t2}
  VehicleOf <- TwoVehicles
  AssignedSlots <- NoneAssigned
  OverrideStatuses = {}
  RemovableVehicles = {}
  MaxVisits = 3
INVARIANT NoDoubleBooking
CHECK_DEADLOCK FALSE
