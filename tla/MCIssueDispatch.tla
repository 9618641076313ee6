--------------------------- MODULE MCIssueDispatch ---------------------------
(* Model-checking instances of IssueDispatch: two lanes and two issues      *)
(* whose scopes overlap in different ways.                                  *)
EXTENDS IssueDispatch

CONSTANTS i1, i2, p1, p2
TwoIssues == {i1, i2}
TwoLanes == {p1, p2}
TwoJobs == 1..2

\* i2 writes inside i1's directory, and elsewhere.
Nested == i1 :> << <<"src">> >> @@ i2 :> << <<"src", "db">>, <<"doc">> >>

OneBranch == [i \in Issues |-> "main"]
\* i2 declares the branch that is the default of the repository, i1 none.
TwoNames == i1 :> "default" @@ i2 :> "main"

NoIssues == {}
LinkedIssues == {i2}
Schemas == {"migrations"}

\* The invariants claim nothing any more once a needed file was unlinked.
NothingStolen == ~stolen
LaneSymmetry == Permutations(TwoLanes)
=============================================================================
