CONSTANTS
  MaxFaults = 3
  MaxCrashes = 2
  EnterMayFail = FALSE
SPECIFICATION Spec
INVARIANTS
  TypeOK
  WriterOwns
  EndedCleanly
  DispatchedOnce
PROPERTIES
  EarlyReleaseFindsSourceUntouched
  HandoverKept
  Settles
\* A hand-off that has ended, or that waits for the operator, stops.
CHECK_DEADLOCK FALSE
