SPECIFICATION LiveSpec
CONSTANTS
  Objs = {a, b, c}
  Gui = gui
  Names = {x, y}
  MaxDL = 1
  MaxRetry = 0
  OpenFails = FALSE
  Overlap = FALSE
PROPERTY WaitEnds
