SPECIFICATION Spec
CONSTANTS
  Base = 4
  Junk = 99
  Texts <- MCTexts
  New <- MCNew
  Total = 2
  Counts = {0, 2}
  MaxList = 2
  MaxText = 4
CONSTRAINT Focus
INVARIANTS
  TypeOK
  ListKept
  TornFinished
  Stable
  CutLosesTheEnd
PROPERTY WidthKept
