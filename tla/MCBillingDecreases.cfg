SPECIFICATION Spec
CONSTANTS
  Intents = {i1, i2}
  Workers = {w1}
  Members = {m1}
  None = None
  Providers = {"local"}
  MaxSeats = 2
  MaxTime = 1
  Period = 1
  Trial = 1
  Grace = 1
  Retention = 1
  MaxVersion = 2
SYMMETRY Symmetry
CONSTRAINT FewCases
INVARIANT DecreasesFit
CHECK_DEADLOCK FALSE
