CONSTANTS
  sync1 = sync1
  sync2 = sync2
  manual = manual
  Procs <- MCProcs
  Kind <- MCKind
  MaxContenders = 1
SPECIFICATION Spec
INVARIANTS
  OneRunAtATime
PROPERTY RefusedOnlyByALiveRun
CHECK_DEADLOCK FALSE
