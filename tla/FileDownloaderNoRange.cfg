SPECIFICATION Spec
CONSTANTS
  Objs = {a, b}
  Total = 3
  MaxRetry = 1
  LongMax = 7
  RangeServer = FALSE
  MaxFile = 4
CONSTRAINT Kept
INVARIANT Covered
