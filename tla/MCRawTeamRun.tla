---------------------------- MODULE MCRawTeamRun -----------------------------
(* Work, its test and a gate over both; seven or nine kinds of report.        *)
EXTENDS RawTeamRun

ThreeRoles == {"implementation", "test-runner", "goal-review"}
OneGate == {"goal-review"}
Chain == [role \in ThreeRoles |-> CASE role = "implementation" -> {}
                                     [] role = "test-runner"    -> {"implementation"}
                                     [] OTHER                   -> {"implementation", "test-runner"}]
InPhases == <<"implementation", "test-runner", "goal-review">>
PlainReports ==
  {Sent("complete", TRUE, FALSE, "pass", FALSE), Sent("complete", FALSE, FALSE, "none", FALSE),
   Sent("complete", TRUE, TRUE, "inconclusive", FALSE), Sent("complete", TRUE, FALSE, "fail", FALSE),
   Sent("failed", TRUE, FALSE, "pass", FALSE), Sent("incomplete", TRUE, FALSE, "pass", FALSE),
   Sent("complete", TRUE, FALSE, "pass", TRUE)}

\* And two that are not: one with no status, one with issues that read as generated.
Reports == PlainReports \cup {Sent("done", TRUE, FALSE, "pass", FALSE),
                             [Sent("incomplete", TRUE, FALSE, "pass", FALSE) EXCEPT !.gen = {"output"}]}
=============================================================================
