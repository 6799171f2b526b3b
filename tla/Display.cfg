SPECIFICATION Spec
CONSTANTS
  Names = {x, y}
  Workers = {a, b}
  MaxClicks = 2
  MaxReports = 1
  LongMax = 31
  MaxTotal = 15
  MaxBlock = 4
  MaxWidth = 4
  MaxHeight = 2
  MaxHeader = 4
  MaxUrl = 5
INVARIANTS
  TypeOK
  InStep
  BlocksShown
  BlocksBlue
  SizesFound
  NamesFlat
PROPERTIES
  PagesStay
  ActsOnSelection
  Converges
