CONSTANTS
  Inputs <- MCInputs
  MaxTasks = 3
SPECIFICATION Spec
INVARIANTS
  AcceptedPlansAreOrdered
  SortRefusesOnlyCycles
CHECK_DEADLOCK FALSE
