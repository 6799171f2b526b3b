SPECIFICATION Spec
CONSTANTS
  Objs = {a, b, c}
  Gui = gui
  Names = {x, y}
  MaxDL = 1
  MaxRetry = 0
  OpenFails = FALSE
  Overlap = FALSE
SYMMETRY Symmetries
INVARIANTS
  TypeOK
  NoDuplicate
  WaitsUnrun
  Served
  StartsOnce
PROPERTIES
  
  
  KeepsLifecycle
