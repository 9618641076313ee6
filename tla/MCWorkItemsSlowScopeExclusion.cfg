\* requeue-stale may take the claim of a worker that is only slow.
SPECIFICATION Spec
CONSTANTS
  a = a
  b = b
  c = c
  w1 = w1
  w2 = w2
  n1 = n1
  n2 = n2
  n3 = n3
  r1 = r1
  r2 = r2
  Unknown = Unknown
  Glob = Glob
  Odd = Odd
  None = None
  Fields <- ItemFields
  DependsOn <- Dependencies
  Gated <- GatedItem
  Contracted <- ContractedItem
  Items <- ThreeItems
  Workers <- TwoWorkers
  Roles <- OneRole
  Invocations <- ThreeInvocations
  StealLive = TRUE
  Crashes = FALSE
INVARIANT ScopeExclusion
CHECK_DEADLOCK FALSE
