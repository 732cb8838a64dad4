\* Atomic handlers on two slots; administrators may mark slots OCCUPIED by hand,
\* and both vehicles may be deleted.  The pages: two users, two cars, three events.
SPECIFICATION MCSpec
CONSTANTS
  Slots = {s1, s2}
  b3 = b3
  Bookings = {b1, b2, b3}
  v1 = v1
  v2 = v2
  Vehicles = {v1, v2}
  None = None
  VehicleOf <- MCVehicleOf
  AssignedSlots <- MCAssignedSlots
  OverrideStatuses = {"OCCUPIED"}
  RemovableVehicles = {v1, v2}
  MaxVisits = 3
  Members = {"ann", "bob"}
  Nobody = "nobody"
  Cars = {"car1", "car2"}
  NoCar = "no car"
  EventIds = {1, 2, 3}
  Limit = 1
  LastTime = 2
  Targets = {"r1", "r2"}
  MaxContents = 3
  MaxRequests = 2
  Receipts = {"p1", "p2"}
  MaxPays = 3
INVARIANTS
  TablesTypeOK
  OneSessionPerSlot
  ActiveSessionOccupiesSlot
  ActiveSessionConfirmed
  GateViewSound
  ViewsAgree
  CacheSound
  MeIsOwner
  GuardToldTruth
  ActivityFeedSound
  FormsSound
  CheckoutSound
CHECK_DEADLOCK FALSE
