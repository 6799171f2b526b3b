SPECIFICATION Spec
CONSTANTS
  Objs = {a, b}
  Total = 2
  MaxRetry = 1
  LongMax = 2
  RangeServer = TRUE
  MaxFile = 3
SYMMETRY ObjSymmetry
CONSTRAINT Kept
INVARIANTS
  TypeOK
  Covered
  FinishedComplete
  Exact
