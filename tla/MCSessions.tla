----------------------------- MODULE MCSessions ------------------------------
(* Two sessions x1 and x2 beside each other: dispatchers of one budget,       *)
(* supervisors of one store, or lanes that list and queue the same issues.    *)
(* The three share no state: the part chosen at first runs, the others rest.  *)
EXTENDS RoutingBudget, SupervisedHandoff, IssueDispatch

VARIABLE part
allVars == <<part, budgetVars, handoffVars, vars>>

\* A part that rests has one initial state.
SessionsInit == /\ part \in {"budget", "handoff", "issues"}
                /\ BudgetInit /\ HandoffInit /\ Init
                /\ part # "issues" => label = [i \in Issues |-> {}]
BudgetPart == part = "budget" /\ BudgetNext /\ UNCHANGED <<handoffVars, vars>>
HandoffPart == part = "handoff" /\ HandoffNext /\ UNCHANGED <<budgetVars, vars>>
IssuesPart == part = "issues" /\ RefilledNext /\ UNCHANGED <<budgetVars, handoffVars>>
SessionsNext == UNCHANGED part /\ (BudgetPart \/ HandoffPart \/ IssuesPart)
SessionsSpec == SessionsInit /\ [][SessionsNext]_allVars

CONSTANTS x1, x2, i1, i2

\* Two intakes of one step, the second with a stricter call limit and a
\* verified failure behind it; four things a model may answer.
TwoDispatchers == {x1, x2}
Intake(max, used, challenge, floor, attempt) ==
  [kind |-> "coding", floor |-> floor, fresh |-> TRUE, maxCalls |-> max, used |-> used,
   challenge |-> challenge, gated |-> FALSE, attempt |-> attempt]
FailedAt(p) == {[verified |-> TRUE, outcome |-> "failure", profile |-> p]}
TwoIntakes == {Intake(9, 1, FALSE, 1, {}), Intake(7, 0, TRUE, 1, FailedAt(1))}
Observed(risk, verification, suggested, gap) ==
  [kind |-> "coding", risk |-> risk, uncertainty |-> 0, verification |-> verification,
   suggested |-> suggested, gap |-> gap]
FourObservations == {Observed(0, "strong", 1, FALSE), Observed(2, "strong", 3, FALSE),
                Observed(2, "strong", 3, TRUE), Observed(0, "human", 1, FALSE)}

\* Two items of two roles, work and its review; two sessions of one owner.
TwoItems == {i1, i2}
TwoSessions == {x1, x2}
TwoRoles == {"implementation", "goal-review"}
ReviewGate == {"goal-review"}
ReviewAfterWork == [role \in TwoRoles |-> IF role = "implementation" THEN {} ELSE {"implementation"}]
WorkThenReview == <<"implementation", "goal-review">>
Good == Sent("complete", TRUE, FALSE, "pass", FALSE)
\* Incomplete, with an issue written as the runtime writes its own.
AsGenerated == [Good EXCEPT !.status = "incomplete", !.gen = {"output"}]
PassOrFail == [role \in TwoRoles |-> IF role = "implementation" THEN {Good, AsGenerated} ELSE {Good, [Good EXCEPT !.review = "fail"]}]

\* Two migrations side by side, queued and queued again from old listings.
TwoIssues == 1..2
TwoLanes == {x1, x2}
TwoJobs == 1..2
Siblings == 1 :> << <<"migrations", "a">> >> @@ 2 :> << <<"migrations", "b">> >>
OneBranch == [i \in TwoIssues |-> "main"]
LinkedIssues == {2}
Schemas == {"migrations"}

\* The invariants of the lanes claim nothing once a needed file was unlinked.
NothingStolen == ~stolen

Alike == Permutations({x1, x2}) \cup Permutations(TwoItems)
=============================================================================
