------------------------------- MODULE TeamRun -------------------------------
(***************************************************************************)
(* The role results of a workflow run, as atlas_workflows.py judges them.  *)
(* A result carries its status, whether every required output is there     *)
(* (full), whether there are unexpected ones (extra), the verdict of its   *)
(* goal review ("none": missing or malformed), whether its author named    *)
(* contract issues (own), and the kinds of its issues that start as those  *)
(* that the runtime generates do, whoever wrote them (gen).  A run is a    *)
(* function from the roles with a result to results.                       *)
(***************************************************************************)
EXTENDS FiniteSets, Integers, SequencesExt

CONSTANTS
  Roles, Gates,  \* the goal gates among the roles
  Consumes,      \* role -> the roles it consumes
  RoleOrder      \* the roles, phase by phase

ASSUME RolesAssumption ==
  /\ Gates \subseteq Roles /\ Consumes \in [Roles -> SUBSET Roles]
  /\ RoleOrder \in Seq(Roles) /\ Range(RoleOrder) = Roles
  /\ \A i, j \in DOMAIN RoleOrder : RoleOrder[i] = RoleOrder[j] => i = j
  /\ \A i \in DOMAIN RoleOrder : Consumes[RoleOrder[i]] \subseteq {RoleOrder[j] : j \in 1..(i - 1)}

\* The statuses there are; a raw command may report any other word.
Statuses == {"complete", "failed", "blocked", "pending", "running", "incomplete", "dry-run"}
IssueKinds == {"output", "dependency", "review", "unexpected", "status"}

Sent(status, full, extra, review, own) ==
  [status |-> status, full |-> full, extra |-> extra, review |-> review, own |-> own, gen |-> {}]

\* role_result_satisfies_outputs of a role's result.
Satisfies(role, r) ==
  /\ r.status = "complete" /\ r.full /\ ~r.own /\ r.gen = {}
  /\ role \in Gates => r.review = "pass"

Completed(run) == {role \in DOMAIN run : Satisfies(role, run[role])}

\* role_dependency_blockers.
Unblocked(role, run) == Consumes[role] \subseteq Completed(run)

\* role_result_contract_issues: only a result that still claims to be complete is
\* asked for its outputs and its dependencies.
GeneratedIssues(role, r, run) ==
  {kind \in {"output", "dependency"} :
     r.status = "complete" /\ IF kind = "output" THEN ~r.full ELSE ~Unblocked(role, run)}
  \cup {kind \in {"review"} : role \in Gates /\ r.review = "none"}
  \cup {kind \in {"unexpected"} : r.extra} \cup {kind \in {"status"} : r.status \notin Statuses}

\* Mutant of Normalized: a result is never restored.
NormalizedForGood(role, r, run) ==
  LET issues == GeneratedIssues(role, r, run)
      held == IF r.status = "complete" /\ issues \cap {"output", "dependency"} # {} THEN "incomplete" ELSE r.status
  IN  [r EXCEPT !.gen = issues,
                !.status = CASE role \in Gates /\ r.review = "fail" -> "blocked"
                             [] role \in Gates /\ held = "complete" /\ r.review # "pass" -> "incomplete"
                             [] held \notin Statuses -> "incomplete"
                             [] OTHER -> held]

\* normalize_role_result: a complete result that lacks an output, a dependency or
\* its review is incomplete; one that came with an issue that reads as generated, when
\* there is none any more, is complete again; and what is no status is incomplete, but
\* only after that.
Normalized(role, r, run) ==
  LET issues == GeneratedIssues(role, r, run)
      held == IF r.status = "complete" /\ issues \cap {"output", "dependency"} # {} THEN "incomplete" ELSE r.status
      judged == CASE role \in Gates /\ r.review = "fail" -> "blocked"
                  [] role \in Gates /\ held = "complete" /\ r.review # "pass" -> "incomplete"
                  [] OTHER -> held
      restored == judged = "incomplete" /\ r.gen # {} /\ issues = {} /\ ~r.own /\ r.full
  IN  [r EXCEPT !.gen = issues,
                !.status = IF restored THEN "complete"
                           ELSE IF judged \in Statuses THEN judged ELSE "incomplete"]

\* normalize_role_results: every result in the order of the roles, dependencies first.
JudgedOne(run, role) ==
  IF role \in DOMAIN run THEN [run EXCEPT ![role] = Normalized(role, run[role], run)] ELSE run
Judged(staged) ==
  LET after[n \in 0..Len(RoleOrder)] ==  \* the run after the first n roles
        IF n = 0 THEN staged ELSE JudgedOne(after[n - 1], RoleOrder[n])
  IN  after[Len(RoleOrder)]

\* The results of a run once new ones have replaced those of their roles.
Replaced(run, results) ==
  [role \in DOMAIN run \cup DOMAIN results |-> IF role \in DOMAIN results THEN results[role] ELSE run[role]]

\* apply_role_results: new results replace old ones, then all are judged, which
\* changes no more of a result than its status and its generated issues.
AppliedResults(run, results) ==
  LET staged == Replaced(run, results)
      judged == Judged(staged)
  IN  [role \in DOMAIN staged |-> [staged[role] EXCEPT !.status = judged[role].status, !.gen = judged[role].gen]]

\* refresh_status.
RunStatus(run) ==
  IF DOMAIN run # Completed(run) THEN "blocked"
  ELSE IF DOMAIN run = Roles THEN "complete" ELSE "running"
=============================================================================
