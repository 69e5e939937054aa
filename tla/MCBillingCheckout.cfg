SPECIFICATION LiveSpec
CONSTANTS
  Intents = {i1, i2}
  Workers = {w1}
  Members = {}
  None = None
  Providers = {"polar"}
  MaxSeats = 1
  MaxTime = 0
  Period = 1
  Trial = 1
  Grace = 1
  Retention = 1
  MaxVersion = 2
PROPERTY CheckoutsOpen
CHECK_DEADLOCK FALSE
