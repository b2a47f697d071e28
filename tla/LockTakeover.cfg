CONSTANTS
  sync1 = sync1
  sync2 = sync2
  manual = manual
  Procs <- MCProcs
  Kind <- MCKind
  MaxContenders = 2
SPECIFICATION Spec
INVARIANTS
  OneRunAtATime
CHECK_DEADLOCK FALSE
