SPECIFICATION LiveSpec
CONSTANTS
  Objs = {a, b}
  Total = 2
  MaxRetry = 0
  LongMax = 1
  RangeServer = TRUE
  MaxFile = 2
PROPERTY Flushed
