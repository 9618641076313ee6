----------------------------- MODULE MCFairParts -----------------------------
(* One instance each of components that share no state with one another: the *)
(* part chosen at first runs, the others rest.  Nothing is symmetric here,   *)
(* so that liveness can be checked; fairness is owed by the part that runs.  *)
EXTENDS StoreLock, PullRequests, MCRawTeamRun

VARIABLE part
allVars == <<part, lockVars, pullVars, rawVars>>

\* A part that rests has one initial state.
PartsInit ==
  /\ part \in {"lock", "pulls", "raw"}
  /\ LockInit /\ PullInit /\ RawInit

LockPart == part = "lock" /\ LockNext /\ UNCHANGED <<pullVars, rawVars>>
PullsPart == part = "pulls" /\ PullNext /\ UNCHANGED <<lockVars, rawVars>>
RawPart == part = "raw" /\ RawNext /\ UNCHANGED <<lockVars, pullVars>>
PartsNext == UNCHANGED part /\ (LockPart \/ PullsPart \/ RawPart)

\* LockFairness and PullFairness, each owed by the part that runs.
PartsFairness ==
  /\ \A p \in Procs : /\ WF_lockVars(part = "lock" /\ Enter(p))
                      /\ WF_lockVars(part = "lock" /\ Acquiring(p))
                      /\ WF_lockVars(part = "lock" /\ Release(p))
  /\ WF_lockVars(part = "lock" /\ Age)
  /\ WF_pullVars(part = "pulls" /\ \E c \in Cycles : ChainStep(c))
  /\ \A p \in Pulls : WF_pullVars(part = "pulls" /\ Conclude(p))

PartsSpec == PartsInit /\ [][PartsNext]_allVars /\ PartsFairness

CONSTANTS p1, p2, p3
ThreeProcs == {p1, p2, p3}

\* Two pull requests that change a common file, for two issues of a repository that
\* publishes checks, in short cycles.
TwoPulls == 1..2
TwoCycles == 1..2
BothOverlap == {TwoPulls}
Apart == {[link |-> <<1, 2>>, checked |-> TwoPulls,
           stages |-> <<"dispatch", "review", "semantic-review", "finalize">>]}
=============================================================================
