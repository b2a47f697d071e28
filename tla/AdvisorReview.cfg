SPECIFICATION Spec
CONSTANTS
  Leader = leader
  Helpers = {h1, h2}
  PreflightTimeout = 2
  ReviewTimeout = 3
  Grace = 2
  Tiers = {1, 2, 3}
  None = None
INVARIANTS
  AnsweredInTime
  ResultIsTruthful
CHECK_DEADLOCK FALSE
