\* A mock result, a verification or a webhook handled at the same time as another.
SPECIFICATION PaymentSpec
CONSTANTS
  Payments = {pay1}
  Handlers = {h1, h2}
PROPERTIES SuccessStays
CHECK_DEADLOCK FALSE
