SPECIFICATION Spec
CONSTANTS
  a1 = a1  a2 = a2
  w1 = w1  w2 = w2  v1 = v1  o1 = o1  r1 = r1
  None = None
  Changes <- AllChanges
  Near <- MCNear
  Clash <- MCClash
  Assignments <- TwoAssignments
  Work <- TwoWork
  OperatorWork = {}
  RemoteWork = {}
  Ops = {"close-out"}
  Slips = {}
  MaxCrashes = 1
PROPERTIES
  LandsInTurn
SYMMETRY Swap
CHECK_DEADLOCK FALSE
