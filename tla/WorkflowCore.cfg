CONSTANTS
  a = a
  b = b
  c = c
  fan = fan
  pair = pair
  solo = solo
  spec = spec
  NoPlan = NoPlan
  Tasks = {a, b, c}
  Plans = {fan}
  Designs = {spec}
  TasksOf <- MCTasksOf
  DependsOn <- MCDependsOn
  DesignOf <- MCDesignOf
  Policy = "enforced"
  ToolsPerHook = 0
  MaxLineage = 2
SPECIFICATION Spec
INVARIANTS
  TypeOK
PROPERTIES
  PassedIsFinal
  OneBlindReviewPerEffort
