SPECIFICATION Spec
CONSTANTS
  a1 = a1  a2 = a2
  w1 = w1  w2 = w2  v1 = v1  o1 = o1  r1 = r1
  None = None
  Changes <- AllChanges
  Near <- MCNear
  Clash <- MCClash
  Assignments <- OneAssignment
  Work <- OneWork
  OperatorWork = {o1}
  RemoteWork = {r1}
  Ops = {"push", "reconcile", "commander", "release", "close-out"}
  Slips = {}
  MaxCrashes = 1
INVARIANTS
  TypeOK
  WorkKept
  LandedIsProvable
  IntegratedIsProven
  CheckoutFollows
  DebtIsInTarget
PROPERTIES
  OnlyReviewedLands
  DebtIsDischarged
CHECK_DEADLOCK FALSE
