SPECIFICATION Spec
CONSTANTS
  Objs = {a, b}
  Total = 1
  MaxRetry = 1
  LongMax = 3
  RangeServer = TRUE
  MaxFile = 2
PROPERTY StopHolds
