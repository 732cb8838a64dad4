SPECIFICATION GateSpec
CONSTANTS
  s1 = s1
  b1 = b1
  v1 = v1
  g1 = g1
  tag = tag
  m1 = m1
  m2 = m2
  p1 = p1
  p2 = p2
  None = None
  Slots = {s1}
  Bookings = {b1}
  Vehicles = {v1}
  VehicleOf <- MCVehicleOf
  AssignedSlots <- MCAssigned
  OverrideStatuses = {}
  RemovableVehicles = {}
  MaxVisits = 2
  Messages = {m1, m2}
  Processes = {p1, p2}
  Gates = {g1}
  GateOf <- MCGateOf
  DirectionOf <- MCDirection
  LotOf <- MCLot
  KindOf <- MCKind
  IdentifierOf <- MCIdentifier
  VehicleBy <- MCVehicleBy
  Unsure = {}
  CredentialStatuses = {"ACTIVE", "REVOKED"}
  Toggles = {}
SYMMETRY MCSymmetry
INVARIANTS AnsweredOnce EffectsDistinct 
PROPERTIES EchoDoesNotCheckOut
CHECK_DEADLOCK FALSE
