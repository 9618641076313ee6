\* One branch under two names.
SPECIFICATION Spec
CONSTANTS
  i1 = i1
  i2 = i2
  p1 = p1
  p2 = p2
  Issues <- TwoIssues
  Lanes <- TwoLanes
  Jobs <- TwoJobs
  WriteScope <- Nested
  BaseBranch <- OneBranch
  LockKey <- TwoNames
  Star = "*"
  Schema <- Schemas
  Linked <- NoIssues
  MaxDeaths = 0
INVARIANT ScopesExcluded
CHECK_DEADLOCK FALSE
