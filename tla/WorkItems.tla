------------------------------ MODULE WorkItems ------------------------------
(***************************************************************************)
(* The local work-item lane of atlas_work_items.py: the store of items, the *)
(* provider that claims, records, requeues and reworks them, and the       *)
(* workers that launch one supervised child process per invocation.        *)
(*                                                                         *)
(* Each action that touches `item` is one critical section of the store    *)
(* lock (module StoreLock shows what that takes).  Everything else a       *)
(* worker does, it does on its own copy, at its own pace.                  *)
(***************************************************************************)
EXTENDS Naturals, FiniteSets, Scheduling

CONSTANTS
  Items,          \* the work items
  Workers,        \* the worker daemons
  Roles,          \* the roles of a workflow, all of which must complete
  Fields,         \* repo, base and scope of each item
  DependsOn,      \* the items each item depends on
  Gated,          \* the items that need a passing goal review
  Contracted,     \* the items run by the canonical role runner (local_execution_v1)
  StealLive,      \* TRUE: requeue-stale may take the claim of a worker that still runs
  Crashes,        \* TRUE: workers may die
  Invocations,    \* ids for invocations (uuid4 in the code; an unreferenced id is as good as a new one)
  None            \* no invocation

ASSUME ItemsAssumption ==
  /\ DependsOn \in [Items -> SUBSET Items]
  /\ Gated \subseteq Items
  /\ Contracted \subseteq Items
  /\ StealLive \in BOOLEAN
  /\ Crashes \in BOOLEAN
  /\ None \notin Invocations

VARIABLES
  item,    \* the store: state, unresolved invocation, workflow run and result of each item
  worker,  \* each worker's place in run_worker_daemon_once and what it holds in memory
  child    \* the item each invocation's child process works on, while it runs

vars == <<item, worker, child>>

Conflict(i, j) == i # j /\ ActiveScopeConflict(Fields[i], Fields[j])

Unresolved(i) == item[i].unc # None
Active(i) == item[i].state = "running" \/ Unresolved(i)

\* accepted_dependency
Accepted(i) == item[i].state = "done" /\ (i \in Gated => item[i].passed)

\* Mutant of Ready: an orphaned child does not reserve its scope.
ReadyDespiteOrphans(i) == /\ item[i].state = "ready"
                          /\ ~Unresolved(i)
                          /\ \A j \in DependsOn[i] : Accepted(j)
                          /\ \A j \in Items : Conflict(i, j) => item[j].state # "running"

\* blockers and scheduler_prerequisites find nothing
Ready(i) == /\ item[i].state = "ready"
            /\ ~Unresolved(i)
            /\ \A j \in DependsOn[i] : Accepted(j)
            /\ \A j \in Items : Conflict(i, j) => ~Active(j)

NoResult == [status |-> "blocked", proved |-> FALSE, hasRun |-> FALSE, roles |-> {}, passed |-> FALSE]
Resting(pc) == [pc |-> pc, item |-> {}, inv |-> None, before |-> {}, result |-> NoResult]

FreshItem(s) == [state |-> s, unc |-> None, run |-> {}, passed |-> FALSE, reworked |-> FALSE]

Init == /\ item = [i \in Items |-> FreshItem("absent")]
        /\ worker = [w \in Workers |-> Resting("idle")]
        /\ child = [n \in Invocations |-> {}]

Working(w, i) == worker[w].item = {i}
HeldBySomeone(i) == \E w \in Workers : Working(w, i)
-----------------------------------------------------------------------------
(* Operators' actions on the store.                                        *)

\* add_work_item: a new id is appended ready; an existing one is refused.
Add(i) == /\ item[i].state = "absent"
          /\ item' = [item EXCEPT ![i] = FreshItem("ready")]
          /\ UNCHANGED <<worker, child>>

\* Mutant of Stale: an item without a recorded run is not requeued.
StaleWithProgress(i) == item[i].state = "running" /\ ~Unresolved(i) /\ ~HeldBySomeone(i) /\ item[i].run # {}

\* requeue_stale_claims(apply=True): every running item without unresolved
\* invocation whose claim is older than the threshold goes back to ready.
\* Which claims are that old is a choice; whose they are is not looked at.
Stale(i) == /\ item[i].state = "running"
            /\ ~Unresolved(i)
            /\ StealLive \/ ~HeldBySomeone(i)

RequeueStale(S) ==
  /\ S # {}
  /\ \A i \in S : Stale(i)
  /\ item' = [i \in Items |-> IF i \in S THEN [item[i] EXCEPT !.state = "ready"] ELSE item[i]]
  /\ UNCHANGED <<worker, child>>

\* requeue_for_rework: once per item, from blocked, with nothing unresolved.
Rework(i) ==
  /\ item[i].state = "blocked"
  /\ ~Unresolved(i)
  /\ ~item[i].reworked
  /\ item' = [item EXCEPT ![i].state = "ready", ![i].run = {}, ![i].passed = FALSE, ![i].reworked = TRUE]
  /\ UNCHANGED <<worker, child>>
-----------------------------------------------------------------------------
(* A worker's pass over one item.                                          *)

\* claim: the item is projected again under the lock and must be ready.
Claim(w, i) ==
  /\ worker[w].pc = "idle"
  /\ Ready(i)
  /\ item' = [item EXCEPT ![i].state = "running"]
  /\ worker' = [worker EXCEPT ![w].pc = "claimed", ![w].item = {i}]
  /\ UNCHANGED child

Report(w, r) == worker' = [worker EXCEPT ![w].pc = "reporting", ![w].result = r]

\* A result that proves nothing about a child process.
Refused(status) == [NoResult EXCEPT !.status = status]

\* run() gives up before the run is loaded: the contracted runner's arguments
\* are not canonical, or the workflow is in error.
RefuseEarly(w) ==
  /\ worker[w].pc = "claimed"
  /\ Report(w, Refused("blocked"))
  /\ UNCHANGED <<item, child>>

\* write_workflow_artifacts, without the lock: the recorded run is resumed; a
\* complete one is refused for gated items and started over for others.
LoadRun(w) ==
  /\ worker[w].pc = "claimed"
  /\ \E i \in worker[w].item :
       \/ item[i].run # Roles /\ worker' = [worker EXCEPT ![w].pc = "loaded", ![w].before = item[i].run]
       \/ item[i].run = Roles /\ i \notin Gated /\ worker' = [worker EXCEPT ![w].pc = "loaded"]
       \/ item[i].run = Roles /\ i \in Gated /\ Report(w, Refused("blocked"))
  /\ UNCHANGED <<item, child>>

\* A result that carries the workflow run as it was loaded.
WithRun(r, roles) == [r EXCEPT !.hasRun = TRUE, !.roles = roles]

\* No command is configured (failed), or the cancel event is already set (blocked).
RefuseLoaded(w) ==
  /\ worker[w].pc = "loaded"
  /\ \E s \in {"blocked", "failed"} : Report(w, WithRun(Refused(s), worker[w].before))
  /\ UNCHANGED <<item, child>>

\* mark_uncertain: the invocation is recorded before its child starts, unless
\* another invocation of the item is still unresolved.
Unused(n) == /\ child[n] = {}
             /\ \A i \in Items : item[i].unc # n
             /\ \A w \in Workers : worker[w].inv # n

Mark(w) ==
  /\ worker[w].pc = "loaded"
  /\ \E i \in worker[w].item :
       \/ /\ ~Unresolved(i)
          /\ \E n \in Invocations :
               /\ Unused(n)
               /\ item' = [item EXCEPT ![i].unc = n]
               /\ worker' = [worker EXCEPT ![w].pc = "marked", ![w].inv = n]
       \/ Unresolved(i) /\ Report(w, Refused("blocked")) /\ UNCHANGED item
  /\ UNCHANGED child

\* The cancel event is seen after the mark, and the mark is resolved.
CancelMarked(w) ==
  /\ worker[w].pc = "marked"
  /\ \E i \in worker[w].item : item' = [item EXCEPT ![i].unc = None]
  /\ Report(w, WithRun(Refused("blocked"), worker[w].before))
  /\ UNCHANGED child

\* A contracted job directory cannot be pinned: no child, and the mark stays.
RefusePinned(w) ==
  /\ worker[w].pc = "marked"
  /\ worker[w].item \subseteq Contracted
  /\ Report(w, Refused("blocked"))
  /\ UNCHANGED <<item, child>>

\* Popen returns a child ...
Launch(w) ==
  /\ worker[w].pc = "marked"
  /\ child' = [child EXCEPT ![worker[w].inv] = worker[w].item]
  /\ worker' = [worker EXCEPT ![w].pc = "running"]
  /\ UNCHANGED item

\* ... or raises, and then there may or may not be one.
LaunchUnknown(w) ==
  /\ worker[w].pc = "marked"
  /\ \E started \in {{}, worker[w].item} : child' = [child EXCEPT ![worker[w].inv] = started]
  /\ Report(w, Refused("blocked"))
  /\ UNCHANGED item

\* A child ends on its own, supervised or not.
Exit(n) == /\ child[n] # {}
           /\ child' = [child EXCEPT ![n] = {}]
           /\ UNCHANGED <<item, worker>>

\* The roles complete after the role results are applied.  The role runner only
\* runs roles that are still missing; a raw command may replace any result.
AfterRoles(i, before) == IF i \in Contracted THEN {S \in SUBSET Roles : before \subseteq S} ELSE SUBSET Roles

\* Mutants of FinishStatus: exit code 0 is done whatever is missing; an incomplete
\* run is always tried again.
FinishStatusOfExit(i, before, after, f) ==
  IF f.overflow THEN "failed" ELSE IF f.teamBlocked THEN "blocked" ELSE IF f.success THEN "done" ELSE "failed"
FinishStatusRetried(i, before, after, f) ==
  IF f.overflow THEN "failed" ELSE IF f.teamBlocked THEN "blocked" ELSE IF after # Roles THEN "ready"
  ELSE IF ~f.success THEN "failed" ELSE IF i \in Gated /\ ~f.passed THEN "blocked" ELSE "done"

\* The status at the end of _finish_started_process.
FinishStatus(i, before, after, f) ==
  CASE f.overflow -> "failed"
    [] ~f.overflow /\ f.teamBlocked -> "blocked"
    [] ~f.overflow /\ ~f.teamBlocked /\ after # Roles -> IF after \subseteq before THEN "blocked" ELSE "ready"
    [] OTHER -> IF ~f.success THEN "failed" ELSE IF i \in Gated /\ ~f.passed THEN "blocked" ELSE "done"

\* How a child can have ended: exit code 0, goal review passed, a failed role or
\* unreadable results, too much output.  The goal gate is a role, and complete
\* only with a passing review (role_result_satisfies_outputs).
Endings(i, after) == {f \in [success : BOOLEAN, passed : BOOLEAN, teamBlocked : BOOLEAN, overflow : BOOLEAN] :
                        /\ f.teamBlocked => after # Roles
                        /\ f.passed => i \in Gated
                        /\ i \in Gated /\ after = Roles => f.passed
                        /\ f.overflow => i \in Contracted}

\* The leader exited, the rest of its group is gone, and its results are applied.
Finish(w) ==
  /\ worker[w].pc = "running"
  /\ child[worker[w].inv] = {}
  /\ \E i \in worker[w].item : \E after \in AfterRoles(i, worker[w].before) : \E f \in Endings(i, after) :
       Report(w, [status |-> FinishStatus(i, worker[w].before, after, f), proved |-> TRUE,
                  hasRun |-> TRUE, roles |-> after, passed |-> f.passed])
  /\ UNCHANGED <<item, child>>

\* Timed out, cancelled, custody lost, interrupted, or the shutdown could not be
\* proved: the child may have been stopped or not.  Contracted results are then
\* not read; others may have been.
FinishUnproved(w) ==
  /\ worker[w].pc = "running"
  /\ \E left \in {{}, child[worker[w].inv]} : child' = [child EXCEPT ![worker[w].inv] = left]
  /\ \/ Report(w, Refused("blocked"))
     \/ \E i \in worker[w].item :
        \E after \in IF i \in Contracted THEN {worker[w].before} ELSE AfterRoles(i, worker[w].before) :
          Report(w, WithRun(Refused("blocked"), after))
  /\ UNCHANGED item

\* Mutant of Resolves: any end of the marked invocation resolves it.
ResolvesUnproved(w, i) == Unresolved(i) /\ worker[w].inv = item[i].unc

\* record_result.  Only a proved result of the marked invocation resolves it;
\* anything else leaves the item blocked.  Whose claim it is is not looked at.
Resolves(w, i) == Unresolved(i) /\ worker[w].inv = item[i].unc /\ worker[w].result.proved
RecordedStatus(w, i) == IF Unresolved(i) /\ ~Resolves(w, i) THEN "blocked" ELSE worker[w].result.status
Recorded(w, i) ==
  LET r == worker[w].result
  IN  [item[i] EXCEPT !.state = RecordedStatus(w, i),
                      !.unc = IF Resolves(w, i) THEN None ELSE @,
                      !.run = IF r.hasRun THEN r.roles ELSE @,
                      !.passed = r.passed /\ RecordedStatus(w, i) = "done"]

Record(w) ==
  /\ worker[w].pc = "reporting"
  /\ \E i \in worker[w].item : item' = [item EXCEPT ![i] = Recorded(w, i)]
  /\ worker' = [worker EXCEPT ![w] = Resting("idle")]
  /\ UNCHANGED child

\* The worker process dies; its child, in a session of its own, does not.
Crash(w) == /\ Crashes
            /\ worker[w].pc # "dead"
            /\ worker' = [worker EXCEPT ![w] = Resting("dead")]
            /\ UNCHANGED <<item, child>>

Restart(w) == /\ worker[w].pc = "dead"
              /\ worker' = [worker EXCEPT ![w] = Resting("idle")]
              /\ UNCHANGED <<item, child>>

Run(w) == \/ RefuseEarly(w) \/ LoadRun(w) \/ RefuseLoaded(w) \/ Mark(w) \/ CancelMarked(w) \/ RefusePinned(w)
          \/ Launch(w) \/ LaunchUnknown(w) \/ Finish(w) \/ FinishUnproved(w) \/ Record(w)

Next == \/ \E i \in Items : Add(i) \/ Rework(i)
        \/ \E S \in SUBSET Items : RequeueStale(S)
        \/ \E w \in Workers : Run(w) \/ Crash(w) \/ Restart(w)
        \/ \E w \in Workers, i \in Items : Claim(w, i)
        \/ \E n \in Invocations : Exit(n)

Spec == Init /\ [][Next]_vars

\* A live worker is scheduled, children end or are timed out, dead daemons are
\* restarted by the shift supervisor, an operator reruns requeue-stale, and as
\* long as an item is ready some daemon cycle claims one.  Nobody owes a rework,
\* a crash or a cancellation.
Fairness == /\ \A w \in Workers : WF_vars(Run(w)) /\ WF_vars(Restart(w))
            /\ \A n \in Invocations : WF_vars(Exit(n))
            /\ \A i \in Items : WF_vars(RequeueStale({i}))
            /\ WF_vars(\E w \in Workers, i \in Items : Claim(w, i))

FairSpec == Spec /\ Fairness
-----------------------------------------------------------------------------
Statuses == {"ready", "blocked", "failed", "done"}
ItemType == [state : {"absent", "running"} \cup Statuses, unc : Invocations \cup {None},
             run : SUBSET Roles, passed : BOOLEAN, reworked : BOOLEAN]
ResultType == [status : Statuses, proved : BOOLEAN, hasRun : BOOLEAN,
               roles : SUBSET Roles, passed : BOOLEAN]
WorkerType == [pc : {"idle", "claimed", "loaded", "marked", "running", "reporting", "dead"},
               item : {{}} \cup {{i} : i \in Items}, inv : Invocations \cup {None},
               before : SUBSET Roles, result : ResultType]

TypeOK == /\ item \in [Items -> ItemType]
          /\ worker \in [Workers -> WorkerType]
          /\ child \in [Invocations -> {{}} \cup {{i} : i \in Items}]

\* A child process that runs is the one its item is marked with, so an item has
\* one child at a time and every child that runs, orphaned or not, keeps its
\* item blocked (mark_uncertain, record_result, requeue_stale_claims, rework).
ChildIsMarked == \A n \in Invocations : \A i \in child[n] : item[i].unc = n

\* Two children never run on overlapping repository, branch and write scope.
ScopeExclusion == \A n, m \in Invocations : \A i \in child[n], j \in child[m] : ~Conflict(i, j)

\* A child only runs while every dependency of its item is accepted.
DependenciesHold == \A n \in Invocations : \A i \in child[n] : \A j \in DependsOn[i] : Accepted(j)

\* A done item has all its roles complete, a passing review if it needs one, and
\* no invocation whose end is unknown.
DoneIsEarned == \A i \in Items : item[i].state = "done" =>
                  item[i].run = Roles /\ ~Unresolved(i) /\ (i \in Gated => item[i].passed)

\* Acceptance is never taken back (requeue_for_rework: "never recycle acceptance
\* automatically"), whatever results arrive late.
AcceptanceIsFinal == [][\A i \in Items : Accepted(i) => Accepted(i)']_vars

Settled(i) == item[i].state # "running" \/ (Unresolved(i) /\ ~HeldBySomeone(i))

\* A claim does not stay: the item leaves running, or its invocation is in doubt
\* with no worker left to settle it, which only an operator can.
ClaimSettles == \A i \in Items : item[i].state = "running" ~> Settled(i)

\* Once workers no longer crash the dispatch of a contracted item comes to an end:
\* it rests done, failed, blocked, in doubt or waiting for something else.
CrashesCease == <>[][\A w \in Workers : worker'[w].pc = "dead" => worker[w].pc = "dead"]_vars
DispatchEnds == CrashesCease => \A i \in Contracted : <>[](Settled(i) /\ ~Ready(i))

\* The lane admits items as the abstract arbiter does.
InProgress == {i \in Items : Active(i)}
AcceptedItems == {i \in Items : Accepted(i)}
Excluded == {p \in Items \X Items : Conflict(p[1], p[2])}

Arbiter == INSTANCE ScopeArbiter WITH
             Excludes <- Excluded, active <- InProgress, accepted <- AcceptedItems
ArbiterSpec == Arbiter!Spec
=============================================================================
