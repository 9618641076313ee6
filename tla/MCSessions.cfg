\* Two sessions beside each other.
SPECIFICATION SessionsSpec
CONSTANTS
  x1 = x1
  x2 = x2
  Dispatchers <- TwoDispatchers
  Intakes <- TwoIntakes
  Observations <- FourObservations
  MaxTokens = 2
  MaxAttempts = 2
  Items <- TwoItems
  Sessions <- TwoSessions
  Roles <- TwoRoles
  Gates <- ReviewGate
  Consumes <- ReviewAfterWork
  RoleOrder <- WorkThenReview
  RoleResults <- PassOrFail
  Owner = "supervisor"
  Other = "other"
  MaxDisturbances = 1
  MaxReturns = 2
  i1 = i1
  i2 = i2
  Issues <- TwoIssues
  Lanes <- TwoLanes
  Jobs <- TwoJobs
  WriteScope <- Siblings
  BaseBranch <- OneBranch
  LockKey <- OneBranch
  Star = "*"
  Schema <- Schemas
  Linked <- LinkedIssues
  MaxDeaths = 0
CONSTRAINT NothingStolen
SYMMETRY Alike
INVARIANTS
  BudgetHolds
  AssessedSoundly
  ReceiptsHold
  DoneUnderOneContract
  StillApart
PROPERTIES
  SpendingStops
  NothingIsOverwritten
CHECK_DEADLOCK FALSE
