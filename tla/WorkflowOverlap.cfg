CONSTANTS
  a = a
  b = b
  c = c
  fan = fan
  pair = pair
  solo = solo
  spec = spec
  NoPlan = NoPlan
  Tasks = {a, b}
  Plans = {pair, solo}
  Designs = {spec}
  TasksOf <- MCTasksOf
  DependsOn <- MCDependsOn
  DesignOf <- MCDesignOf
  Policy = "enforced"
  ToolsPerHook = 1
  MaxLineage = 1
SPECIFICATION Spec
INVARIANTS
  NoWorkBeforeGate
  DependenciesReviewed
  CompleteMeansAllPassed
