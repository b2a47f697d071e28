SPECIFICATION Spec
CONSTANTS
  s1 = s1  s2 = s2  c1 = c1  c2 = c2  c3 = c3
  None = None
  Dead = Dead
  Guids = {g}
  Sessions = {s1, s2}
  Workers = {w}
  Changes = {x}
  Callers = {c1, c2, c3}
  Slips = {}
  MaxCrashes = 1
SYMMETRY Symmetry
INVARIANTS
  TypeOK
  NothingIsLost
  ActiveRowsHaveTrees
  HandoffIsUndisturbed
PROPERTIES
  OneOwnerPerLife
CHECK_DEADLOCK FALSE
