--------------------------- MODULE MCPullRequests ---------------------------
(* Model-checking instance of PullRequests: two pull requests of a           *)
(* repository that publishes checks, and one cycle after the other.          *)
EXTENDS PullRequests

TwoPulls == 1..2
OneCycle == {1}
Alone == {}
ForTwoIssues ==
  {[link |-> <<1, 2>>, checked |-> TwoPulls,
    stages |-> <<"reconcile", "dispatch", "review", "semantic-review", "review", "finalize">>]}
=============================================================================
