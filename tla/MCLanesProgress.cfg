\* Progress of two conflicting items with two roles; two workers that may crash;
\* two overlapping issues and two orchestrators; two Azure packets, and two faults or
\* edits of people.
SPECIFICATION LanesSpec
CONSTANTS
  a = a
  b = b
  c = c
  w1 = w1
  w2 = w2
  n1 = n1
  n2 = n2
  n3 = n3
  r1 = r1
  r2 = r2
  Unknown = Unknown
  Glob = Glob
  Odd = Odd
  None = None
  Fields <- ItemFields
  DependsOn <- Dependencies
  Gated <- GatedItem
  Contracted <- TwoItems
  Items <- TwoItems
  Workers <- TwoWorkers
  Roles <- TwoRoles
  Invocations <- ThreeInvocations
  StealLive = FALSE
  Crashes = TRUE
  Issues <- TwoItems
  Lanes <- TwoLanes
  Jobs <- TwoJobs
  WriteScope <- Undeclared
  BaseBranch <- OneBranch
  LockKey <- OneBranch
  Star = "*"
  Schema <- Schemas
  Linked <- NoIssues
  MaxDeaths = 0
  AzurePackets <- TwoItems
  Worked <- OneWorked
  ScopeChoices <- SomeScopes
  AnyName = "*"
  FilePaths <- SomePaths
  MaxCommits = 2
  MaxFaults = 2
INVARIANTS
  PublishedOnceAsReviewed
  ClaimsShareNoPath
PROPERTIES
  OpenIsRecorded
  ReadyIsTaken
  DispatchEnds
  ClaimSettles
CHECK_DEADLOCK FALSE
