SPECIFICATION Spec
CONSTANTS
  Procs = {p, q, r}
  Links = {x, y}
  Files = {f, g}
  Blank = blank
  MaxArgs = 2
  MaxLinks = 2
SYMMETRY Symmetries
INVARIANTS
  TypeOK
  OneInstance
  Handed
  
