\* A process group of four; a queue of two; two runs; three controllers of one
\* cycle.  Everybody may die anywhere.
SPECIFICATION SupervisionSpec
CONSTANTS
  Kin <- ThreeKin
  Queue = 2
  Entries <- TwoEntries
  MaxPolicy = 2
  MaxNative <- OneEdit
  Runs <- TwoRuns
  Controllers <- ThreeControllers
  Work <- TwoItems
  Roles = 2
  Before <- FirstBefore
  MaxSteps = 3
  MaxClaims = 3
  MaxRoles = 3
  RoleMax = 2
  MaxOutside = 1
INVARIANTS
  OnlyItsGroupIsGone
  EvidenceStands
  NeverReplayed
  LiveIsLocked
  NeitherRepeatedNorSkipped
  SpentIsWritten
PROPERTY RuntimeIsFreed
CHECK_DEADLOCK FALSE
