\* Faults everywhere: processes die, requests are lost, owners are slow.
SPECIFICATION PartsSpec
CONSTANTS
  p1 = p1
  p2 = p2
  p3 = p3
  Procs <- ThreeProcs
  Faults = TRUE
  SlowHolds = TRUE
  Pulls <- TwoPulls
  Overlapping <- BothOverlap
  IssueNumbers <- TwoPulls
  Settings <- Apart
  Cycles <- TwoCycles
  MaxHead = 2
  MaxSurprises = 1
  Roles <- ThreeRoles
  Gates <- OneGate
  Consumes <- Chain
  RoleOrder <- InPhases
  RawResults <- Reports
INVARIANTS
  ExclusionUnlessStolen
  JudgedAsSent
PROPERTIES
  AbandonedLockReclaimed
  DeservingIsMerged
CHECK_DEADLOCK FALSE
