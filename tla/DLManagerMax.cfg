SPECIFICATION Spec
CONSTANTS
  Objs = {a, b, c, d}
  Gui = gui
  Names = {x, y, z}
  MaxDL = 2
  MaxRetry = 0
  OpenFails = FALSE
  Overlap = FALSE
SYMMETRY Symmetries
PROPERTY StartsBelowMax
