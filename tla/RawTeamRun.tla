----------------------------- MODULE RawTeamRun ------------------------------
(***************************************************************************)
(* A workflow run whose results come from a raw command: any batch of      *)
(* results, in any order, each applied to what the run holds               *)
(* (apply_workflow_role_results of atlas_work_items.py).                   *)
(***************************************************************************)
EXTENDS TeamRun

CONSTANT RawResults  \* what a command may report of a role

\* Nothing is checked of a report: it may have any status, and issues written as the
\* runtime writes its own.
ASSUME RawResultsAssumption ==
  \A r \in RawResults : /\ r = [Sent(r.status, r.full, r.extra, r.review, r.own) EXCEPT !.gen = r.gen]
                        /\ r.full \in BOOLEAN /\ r.extra \in BOOLEAN /\ r.own \in BOOLEAN
                        /\ r.gen \subseteq IssueKinds

VARIABLES
  rawRun,  \* team-run.json
  reported     \* history: the last result reported of each role

rawVars == <<rawRun, reported>>

RawInit == rawRun = << >> /\ reported = << >>

\* A batch of at most two results; an empty one applies the stored results again.
ApplyBatch(batch) ==
  \E results \in [batch -> RawResults] :
    /\ rawRun' = AppliedResults(rawRun, results)
    /\ reported' = Replaced(reported, results)

RawNext == \E batch \in {b \in SUBSET Roles : Cardinality(b) <= 2} : ApplyBatch(batch)
RawSpec == RawInit /\ [][RawNext]_rawVars
-----------------------------------------------------------------------------
\* The last report of a role lets it complete: all its outputs, nothing unexpected, no
\* issue of its own, a passing review of a gate, and the status complete; or what the
\* code takes for complete on a later look, no status at all, or incomplete for an
\* issue that reads as generated and is not there.
InOrder(role, r) == r.full /\ ~r.extra /\ ~r.own /\ (role \in Gates => r.review = "pass")
MayComplete(role, r) ==
  /\ InOrder(role, r)
  /\ r.status = "complete" \/ r.status \notin Statuses \/ (r.status = "incomplete" /\ r.gen # {})

\* In whatever order and however often results come, and however often they are judged
\* again, a run is complete only if the last report of every role lets it complete, so
\* that no failed, blocked or unfinished one ever does; and a role reported complete
\* and in order is not held back once the roles it consumes are complete.
JudgedAsSent ==
  /\ RunStatus(rawRun) = "complete" => \A role \in Roles : MayComplete(role, reported[role])
  /\ \A role \in DOMAIN reported :
       (reported[role].status = "complete" /\ InOrder(role, reported[role]) /\ Unblocked(role, rawRun)) => role \in Completed(rawRun)

\* README.md of the runtime: downstream roles cannot complete before the roles
\* they consume have completed.
DependenciesFirst == \A role \in Completed(rawRun) : Unblocked(role, rawRun)
=============================================================================
