\* Three processes that may crash anywhere, fail to write and hold the lock too long;
\* two workers that may crash, three items, and only claims of dead workers are requeued.
SPECIFICATION LocalSpec
CONSTANTS
  p1 = p1
  p2 = p2
  p3 = p3
  Procs <- ThreeProcs
  Faults = TRUE
  SlowHolds = TRUE
  MaxUpdates = 1
  a = a
  b = b
  c = c
  w1 = w1
  w2 = w2
  r1 = r1
  Unknown = Unknown
  Glob = Glob
  Odd = Odd
  None = None
  Items <- ThreeItems
  Workers <- TwoWorkers
  Roles <- OneRole
  Fields <- ItemFields
  DependsOn <- Dependencies
  Gated <- OneItem
  Contracted <- OneItem
  Invocations <- FirstFive
  StealLive = FALSE
  Crashes = TRUE
CONSTRAINT NotYetStolen
SYMMETRY ProcSymmetry
INVARIANTS
  StoreNeverTorn
  ChildIsMarked
  ScopeExclusion
  DoneIsEarned
PROPERTIES
  AtomicSpec
  ArbiterSpec
CHECK_DEADLOCK FALSE
