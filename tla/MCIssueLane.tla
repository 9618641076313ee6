----------------------------- MODULE MCIssueLane -----------------------------
(* The GitHub lane: the issues until a worker has taken them, and their pull *)
(* requests from there.  The part chosen at first runs, the other one rests. *)
EXTENDS MCIssueDispatch, PullRequests

VARIABLE part

\* Two pull requests that change a common file: for two issues of a repository with
\* checks, reviewed before and after the reviewer; or for one issue, the first without
\* checks, with every stage.
TwoPulls == 1..2
TwoCycles == 1..2
BothOverlap == {TwoPulls}
Apart == [link |-> <<i1, i2>>, checked |-> TwoPulls,
          stages |-> <<"dispatch", "review", "semantic-review", "review", "finalize">>]
Double == [link |-> <<i1, i1>>, checked |-> {2},
           stages |-> <<"reconcile", "dispatch", "review", "semantic-review", "local-validate",
                        "repair", "review", "semantic-review", "finalize">>]
ApartOrDouble == {Apart, Double}

\* A part that rests has one initial state.
LaneInit == /\ part \in {"issues", "pulls"}
            /\ Init /\ PullInit
            /\ IF part = "issues" THEN given = Apart ELSE label = [i \in Issues |-> {}]
IssuesPart == part = "issues" /\ Next /\ UNCHANGED pullVars
PullsPart == part = "pulls" /\ PullNext /\ UNCHANGED vars
LaneSpec == LaneInit /\ [][UNCHANGED part /\ (IssuesPart \/ PullsPart)]_<<part, vars, pullVars>>
=============================================================================
