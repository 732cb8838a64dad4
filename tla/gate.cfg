\* One command; a backend process that may die, a gateway that may restart, and a
\* broker that loses and repeats messages.  The registry: a tag for two vehicles, a gate
\* that moves between two lots.
SPECIFICATION MCSpec
CONSTANTS
  Commands = {c1}
  Workers = {w1}
  BatchSize = 1
  MaxAttempts = 2
  Lossy = TRUE
  Expiring = {c1}
  TtlOutlivesDedupe = FALSE
  MaxOpenings = 2
  GateOf <- MCGateOf
  Tags = {"x1"}
  Cars = {"v1", "v2"}
  GateLots = {"g1", "g2"}
  RegistryRequests = {"r1", "r2"}
  GateClerks = {"r1"}
  Detections = {"s1"}
  MaxCredentials = 2
INVARIANTS PublishedOpensOnce
PROPERTIES KeepsContract RegistrySound
CHECK_DEADLOCK FALSE
