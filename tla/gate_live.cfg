\* Two commands for one gate, nothing lost, each answer handled in one step.
SPECIFICATION SpecAcksAtOnce
CONSTANTS
  Commands = {c1, c2}
  Workers = {w1}
  BatchSize = 1
  MaxAttempts = 1
  Lossy = FALSE
  Expiring = {c1}
  TtlOutlivesDedupe = FALSE
  MaxOpenings = 2
  GateOf <- MCGateOf
INVARIANTS OneLiveCommandPerGate
PROPERTIES CommandsSettle
CHECK_DEADLOCK FALSE
