----------------------------- MODULE MCStoreLock -----------------------------
(* Model-checking instance of StoreLock: three processes.                   *)
EXTENDS StoreLock

CONSTANTS p1, p2, p3
ThreeProcs == {p1, p2, p3}

\* The behaviours of LockSpec in which no lock file gets old: a lock is removed by
\* its owner, or by who found its owner dead.
YoungSpec == LockInit /\ [][LockNext /\ ~file'.old]_lockVars
=============================================================================
