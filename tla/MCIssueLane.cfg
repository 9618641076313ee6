\* Two overlapping issues, where one lane or worker dies anywhere; two overlapping pull
\* requests, and one failure, commit, objection or conflict.
SPECIFICATION LaneSpec
CONSTANTS
  i1 = i1
  i2 = i2
  p1 = p1
  p2 = p2
  Issues <- TwoIssues
  IssueNumbers <- TwoIssues
  Lanes <- TwoLanes
  Jobs <- TwoJobs
  WriteScope <- Nested
  BaseBranch <- OneBranch
  LockKey <- OneBranch
  Star = "*"
  Schema <- Schemas
  Linked <- LinkedIssues
  MaxDeaths = 1
  Pulls <- TwoPulls
  Overlapping <- BothOverlap
  Settings <- ApartOrDouble
  Cycles <- TwoCycles
  MaxHead = 2
  MaxSurprises = 1
CONSTRAINT NothingStolen
SYMMETRY LaneSymmetry
INVARIANTS
  OneWorkerPerIssue
  ScopesExcludedUnlessStolen
  OverlappingWait
PROPERTY MergedWasEarned
CHECK_DEADLOCK FALSE
