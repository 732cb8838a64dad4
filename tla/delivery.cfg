\* Two workers that may die at any time, two events, two attempts each; two payments,
\* whose webhooks and requests mingle.
SPECIFICATION MCSpec
CONSTANTS
  Events = {e1, e2}
  Workers = {w1, w2}
  BatchSize = 2
  MaxAttempts = 2
  Payments = {pay1, pay2}
  Handlers = {h1, h2}
INVARIANTS RowsTellTheTruth
PROPERTIES HandledByOne EventsFinish FinalUnlessOverlapped CapturedSettles
CHECK_DEADLOCK FALSE
