SPECIFICATION Spec
CONSTANTS
  Intents = {i1, i2}
  Workers = {w1, w2}
  Members = {m1}
  None = None
  Providers = {"local", "polar"}
  MaxSeats = 2
  MaxTime = 2
  Period = 1
  Trial = 1
  Grace = 1
  Retention = 1
  MaxVersion = 3
SYMMETRY Symmetry
CONSTRAINT FewCases
ACTION_CONSTRAINT FewSteps
INVARIANTS AccessIsPaid
PROPERTIES EditingEndsOnTime PaymentOpensWorkspace PurgeAfterRetention
CHECK_DEADLOCK FALSE
