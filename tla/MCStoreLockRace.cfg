\* Crashes, within 300 seconds: two waiters reclaim the same dead owner's lock.
SPECIFICATION YoungSpec
CONSTANTS
  p1 = p1
  p2 = p2
  p3 = p3
  Procs <- ThreeProcs
  Faults = TRUE
  SlowHolds = FALSE
INVARIANT NeverStolen
CHECK_DEADLOCK FALSE
