SPECIFICATION Spec
CONSTANTS
  s1 = s1  s2 = s2  f = f  g = g
  None = None
  Sessions = {s1, s2}
  Assignments = {a1, a2}
  Primary = primary
  Branches = {main, topic}
  Target = main
  Files <- AllFiles
  Scopes <- PlanScopes
  Ops = {"commit", "push", "commit-and-push", "reconcile", "confirm-resolution", "close-out", "use-primary-checkout", "return-to-managed-worktree"}
  MaxPrompts = 2
  MaxMoves = 1
SYMMETRY Symmetry
INVARIANTS
  TypeOK
  DoneAsAsked
  OncePerPrompt
  PushIsFastForward
  PromptIsHonoured
PROPERTIES
  OwnerActs
  OwnerIsNotOusted
CHECK_DEADLOCK FALSE
