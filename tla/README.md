# A TLA+ model of AtlasMemory-Tools

AtlasMemory-Tools is a toolkit around coding agents. Most of its files are skills, prompts,
validators and documents. The part with state, concurrency and failure is the local automation
runtime (`templates/local-automation-runtime`, *LAR* below) and the runs of `scripts/harness_runs.py`:
daemons, command-line tools and agents that share files on one machine, launch long-running child
processes and write to GitHub and Azure. This directory models that part: the local work-item lane, the
GitHub lane from the dispatch of an issue to the merge of its pull request, its bounded cycles, the Azure
lane from routing to publication, the approval inbox, the supervised handoff, and the harness runs.

Paths below are relative to the repository root; `W` is
`templates/local-automation-runtime/atlas_work_items.py`, `O` is `atlas-agent-orchestrator` beside it.

## 1. Inventory

### The local work-item lane (`W`, `atlas_workflows.py`, `atlas-agent-work-item-*`, `atlas-agent-role-runner`)

| part | state | operations |
|---|---|---|
| store lock (`_StoreLock`, W:630) | `work-items.json.lock`: existence, pid inside, mtime | enter (wait, stale check by age and by pid, create, write pid), exit |
| store (`AtlasWorkItemStore`, W:578) | `work-items.json`, one shared `.tmp` file | load, save, update_item |
| conflict rules (W:281-363) | none | scheduler fields, unknown_or_equal, write_scopes_overlap, active_scope_conflict |
| provider (`AtlasWorkItemOperationProvider`, W:675) | the items: state, claim, result, `process_uncertainty`, `workflow_runs`, `rework_count` | project / ready_operations, claim, record_result, requeue_stale_claims, requeue_for_rework; add_work_item in its own tool |
| worker (`LocalCommandOperationWorker`, W:1012) | one invocation in memory, a job directory, one child process group | run, mark_uncertain, supervise, stop the group, apply role results |
| team run (`atlas_workflows.py`) | role results of one run, persisted in the job directory | start / resume, apply_role_results, refresh_status, goal acceptance |
| role runner | none of its own | runs missing roles in order, writes role results |

Interaction: every mutation of the store is one `with store.lock()` block; readers take no lock. A
daemon (`run_worker_daemon_once`, W:1856) lists ready items without the lock, claims one under it,
runs its command for minutes or hours without it, and records the result under it. In between, an
operator may run `requeue-stale`, `rework` or `add`, another daemon may claim, and the daemon may die
while its child, which has a session of its own, lives on. The mark `process_uncertainty`, saved
before the child is started, is what ties the two lives together.

What makes it correct: the lock excludes; no update is lost and no half-written store is seen; items
with overlapping repository, branch and write scope never run together; an item runs only when its
dependencies are accepted; at most one child per item, and each one known to the store; `done` means
all roles complete and a passing review where one is due; acceptance is final; a claim settles; the
redispatch of incomplete work ends.

### The GitHub lane and the bounded cycle (`O` and the one-shot `atlas-agent-*` commands)

| part | state | operations |
|---|---|---|
| dispatch (`process_once`, O:4226) | issue labels on GitHub; `leases/` and `write-scope-locks/` with a namespace lock each | queue, issue lease, scope locks, worker, release |
| worker (`atlas-agent-worker`) | labels, branch, pull request | readiness check, labels, validation, pull request |
| review, semantic review, local validation, repair, finalize, reconcile | none of their own: labels, comments and checks of a pull request | read every open pull request, decide, write; one process per target for the work in between |
| unattended chain and shift (`atlas-agent-unattended`, `atlas-agent-shift`) | summaries of reviews, repair attempts | stages in their order, cycle after cycle |
| bounded cycle (`_run_bounded_cycle`, O:1989) | one receipt (`<cycle>.jsonl`), `controller.lock`, a `.jobs` directory, the local queue | open, reserve, claim, launch, record, settle, close, resume |

Hard: lease files judged stale by age alone and unlinked without a lock, leases leaked by an exception,
labels written from old listings; a cycle whose controller dies between two rows while its worker goes
on, at a queue that other daemons and `requeue-stale` use as well; pull requests read one after the
other and written later, while people push and object and checks conclude. Correct when two workers never
run on one issue or on overlapping scopes of one branch, when a lease is always given back or goes stale,
when what is merged was reviewed, validated and alone in its files, and nothing that deserves to be merged
waits for ever, and when a resumed cycle repeats no role, skips none and spends nothing that is not in its
receipt.

### The Azure lane and what surrounds it

| part | state | hard behaviour |
|---|---|---|
| dispatch and routing budget (`atlas_dispatch.py`, `atlas_routing.py`) | budget, lineage claim, ticket, cache under `dispatch.lock` | death between reservation and receipt; several intakes and the routed worker on one budget |
| board reconciliation (`atlas_azure_reconcile.py`) | journal per packet, the board itself | lost or late answer of a conditional PATCH, resumption, people who edit meanwhile |
| worker and publication (`atlas_azure_worker.py`) | `claims.json`, worktree, branch, pull request | dead claimants, commits between review and publication, uncertain writes, rivals |
| approval inbox (`atlas_approval.py`, `atlas_authority.py`) | card, review, issuer intent under `inbox.lock` | reopening against a late answer, grants that expire or are revoked |
| supervised handoff (`atlas_supervised_handoff.py`) | reservation in the item, envelopes | the store changes between the two looks; replays |
| supervisor (`atlas_supervisor.py`) | `item-<digest>.json` with intent and evidence of each call | death between intent, effect and evidence; a queue or policy that changed in between |
| harness runs (`scripts/harness_runs.py`) | run record, runtime lock, cancel marker | client, supervisor and worker die separately; cancellation races the exit |

### The rest

Issue decomposition, dependency promotion, triage and cleanup of the GitHub lane, and sequential tools:
installers, verifiers, evaluation scripts and the scripts of the skills. The last group
keeps no state between runs and has nothing a model checker would find that a unit test does not.

`PROJECT.json` lists every component with its status and every hazard at its line.

## 2. Plan

1. `StoreLock`, `WorkItemStore` implementing `AtomicStore`. **done, proved**
2. `Scheduling`, `WorkItems` implementing `ScopeArbiter`. **done, safety proved**
3. `IssueDispatch`. **done, safety proved**
4. `TeamRun`, `RawTeamRun`. **done, safety proved**
5. `Routing`, `RoutingBudget`; `AzureWorker`; `ApprovalInbox`; `SupervisedHandoff`; `AzureReconcile`
   implementing `SerialEffects`. **done, safety, action properties and refinement proved**
6. `ProcessGroup`, `Supervisor`, `HarnessRuns`, `CycleJournal`. **done, safety proved**
7. `PullRequests`. **done, safety proved**
8. Not begun: the role runner's choice of the next role, deployed validation, the issue tools before
   dispatch, the deadlines of a shift.

## 3. Modules

`StoreLock` has one action per file-system call of `_StoreLock`. `file` is the lock file with its
creator, whether the pid is in it, and whether it is older than 300 s; `pc` is where each process is;
`seen` is the pid a waiter read, which by the time it probes and unlinks may be somebody else's file;
`stolen` records that a file of a process inside the lock was unlinked. Death (`ProcessDies`) leaves the
file; a failed pid write (`WriteFails`) leaves it empty, because `__exit__` does not run when
`__enter__` raises. `Probe` lets a dead owner's pid look alive (a reused pid, or `PermissionError`).
Two constants select the regime: `Faults` and `SlowHolds` (a live owner may exceed 300 s).

`WorkItemStore` extends it with the files. A payload is abstracted to how many updates of each process
it contains; that is enough to tell a lost update from a kept one. `Truncate` and `Fill` are the two
halves of `write_text` on the shared temporary file, `Replace` the rename. `AtomicStore` is what
callers assume: `AtomicSpec` is the refinement.

`Scheduling` translates the conflict rules; a write scope is a sequence of path segments, with `Glob`
for a segment with wildcard characters and `Odd` for what the code treats as ambiguous.

`WorkItems` is the lane. `item[i]` is the stored item (`unc` the unresolved invocation, `run` the
complete roles of the recorded run, `passed` the goal verdict of its result, `reworked` the rework
count), `worker[w]` what a daemon holds in memory, `child[n]` the item that the child process of
invocation `n` works on. Each action on `item` is one critical section, which `WorkItemStore`
justifies; the rest of a daemon's pass (`RefuseEarly` ... `FinishUnproved`, in the order of `run`)
interleaves with everything. The end of a child is a choice over its exit code, output, role results
and verdict (`Endings`), and the status follows the code (`FinishStatus`). `StealLive` selects whether
`requeue-stale`, which goes by age alone, may hit the claim of a worker that is merely slow.
`ScopeArbiter` is what the lane promises.

`IssueDispatch` is the GitHub lane. `lane[p]` is one orchestrator: where it is in `process_once`, the
listing it works from, the issue and path it is at, and the files it believes it holds; `files` maps
each lease and lock path to its file; `label[i]` is what GitHub says now; `job[n]` is a worker process,
which outlives a lane that dies. `Look`, `Stat`, `UnlinkStale`, `Create`, `Write`, `CreateFails` are the
calls of `acquire_issue_lease` and `acquire_raw_lock`, shared by the three kinds of files as the code
repeats them; `Have` is what comes after each kind. `Scan` is one step, because scope locks are only
added under the namespace lock and a lock given back during the scan is as good as one given back
before or after it; the one place where it matters, a stat of a lock that has just gone, is
`ScanSees` / `ScanRaises`. An exception ends the process, as nothing in `main` catches it, and the next
cycle starts it again. `LockKey` and `BaseBranch` are the two names the code computes for one branch.
`MayMeet` states on its own which issues must not meet; the code's rule is `Conflicts`.

`PullRequests` takes up where a worker publishes its draft. `pull[p]` is the pull request as GitHub has
it: head, draft, whether it conflicts with its base (`clean`), whether a rule of the branch holds it back
(`blocked`), whether changes are requested (`asked`), the checks, and the evidence for the current head
(`semantic`, `tested`), which a new head loses because every reader compares the `Head:` line of the comment
(`Pushed`). Of the labels only those a later command reads are kept (`approved`, `superseded`,
`needs-repair`, `validated`; `wanted` is the review's comment beside `needs-repair`). `chain[c]` is a cycle:
its stage, the `route` of the last review that succeeded, and what the command under way has read (`seen`,
`had`) and decided (`verdict`); `task[c][p]` is its process of one target, with the head it viewed first
and the head of the files it read. `driver` is the cycle whose `atlas-agent-unattended` lives; the others
are commands that it no longer drives. `Inspect`, `Classify`, `Apply` are `atlas-agent-review`; `View`,
`Fetch`, `SemanticResult`, `LocalResult`, `RepairResult` the commands of a target; `Inspect`, `Plan`,
`MarkReady`, `ReadAgain`, `Merge` are `atlas-agent-finalize`, where a pull request is read again before it is
merged and a refused merge ends the command. `Basic` and `Decided` judge a pull request apart, as the code
does: the review forgives a draft that it is blocked (`atlas-agent-review:942`), the finalizer does not
(`atlas-agent-finalize:334`).

A command that fails is followed by the next stage. A cycle that times out (`ChainDies`) loses its driver
only: `subprocess.run` kills `atlas-agent-unattended` (`atlas-agent-shift:201`), and the stage commands it
started (`atlas-agent-unattended:709`, `:735`) go on beside the next cycle, each to its own end, after which
nothing follows them; targets of a parallel stage that were not started yet are dropped. The shift goes on
after that with `--continue-on-error`. `HostStops` ends every command, and a new cycle begins. `Cycles` bounds
how many cycles have commands at a time. `past` is history: who was approved at the head there is
(`approved`), of whose head a reviewer found the files good (`judged`), who was merged by this finalize
(`merged`), whose repair is on record (`tried`).

Abstracted: categories of failed checks that are not to be repaired are one (`infra`); a semantic review
that needs a person is read as none; a listing of open pull requests is complete, except for `reconcile`;
the cooldown of a repair outlasts the behaviours, so a pull request is repaired once.

`TeamRun` has the judgement of role results as operators over a run (a function from roles to results):
what satisfies, what is normalized into a generated issue, applied phase by phase, and when the run is
complete. A result keeps what the judgement looks at: its status, which may be no status at all, whether its
outputs are there (`full`) or more than those (`extra`), the verdict of its review, whether it carries
issues of its author (`own`), and which kinds of issues it carries that start as generated ones do
(`gen`): the code tells them by their beginning (`atlas_workflows.py:815`), whoever wrote them. `RawTeamRun` feeds it batches in any order, as the raw command of the local lane may, with any
status and any such issues, and keeps in `reported` what was last said of each role. `SupervisedHandoff` uses the same operators for a run whose
roles come back one by one: `store` is the stored items, each `session` reads, stages and looks again
under the lock, `returns` are the envelopes that may be sent at any later time, and others claim, recover,
rework and edit (`MaxDisturbances`).

`Routing` is `decide_route` as operators. `RoutingBudget` is the budget file, the lineage claim, the
ticket and `dispatch.lock`, with every model call in three steps: reserved, launched, recorded. Death may
come between any two.

`AzureReconcile` keeps the `board` as the service holds it, the reviewed `packet`, the `journal`, the one
applying `run` and the requests on the `wire`, which arrive late, twice-attempted or never. `landed` is
the history of PATCHes that took effect; `SerialEffects` says what a resumable writer promises of it.
`AzureWorker` is a packet from its claim to its draft pull request: a candidate is a commit number, and
requests taken by Azure Repos may be answered late or not at all. A pull request there is `intact` as long
as it is what was posted: a draft, with that target, that description and that source commit, which is what
`_matching_publication` asks beside its being open (`Collides`); people may change that and take it back
(`Edit`), merge it or abandon it (`Close`). Pushes of others to a task branch that has no pull request are
left out.

`ApprovalInbox` is one card with its revisions, the issuer's intent file and the grants signed so far,
which anybody may present at any time; operators hold `inbox.lock` only while they write.

`ProcessGroup` is `_finish_started_process` and `_stop_process_group` of `W`: `boss` walks their calls
while the leader and its kin fork and exit; a signal sent to an id that is no longer the group's is
recorded in `stray`. What was forked after the last listing of `/proc` is in `late`: the code cannot see it
there, and `OnlyItsGroupIsGone` does not claim it for that verdict. `Supervisor` takes the children of the
Azure lane as a durable beginning (`begun`) and a durable end (`proven`). `HarnessRuns` has client,
supervisor and worker of each run as separate processes; `work` is the worker's group.

`CycleJournal` is the recoverable cycle. `ctl[c]` is a controller and what it holds in memory, `row` the
newest row of the receipt together with the last capsule it accepted (older rows are only checked for
their order, which the actions follow), `status`, `claim`, `stored` and `doubt` the queue, `job[c]` the worker a controller
started. Each `Put` is an append with its fsync, and each effect is an action of its own, so a controller
may die between any two; `Tear` is an append that landed in part. A row that landed without its
acknowledgment equals an acknowledged row before a death. The role results of an item are counted, in
the order of its roles; the comparison of pins, artifacts and recorded runs with the queue is `Undrifted`
and, for what was settled, `Untouched`. Stop file, signal and deadline are one nondeterministic stop at
each check. `RequeueStale` takes claims of dead controllers only: `stale_seconds` is taken to be longer
than a live controller holds a claim without its mark. `ran`, `repeated` and `used` are history.

### Proof modules

`XProofs` holds the theorems about `X` and extends it: `WorkItemStoreProofs` (also the lock),
`WorkItemsProofs`, `CycleJournalProofs` and `AzureWorkerProofs`. Four hold those of components that are
checked together: `IssueLaneProofs` (`IssueDispatch`, `PullRequests`), `SupervisionProofs` (`HarnessRuns`,
`ProcessGroup`, `Supervisor`), `SessionsProofs` (`RoutingBudget`, `SupervisedHandoff`, with `RawTeamRun`,
which judges results by the same operators) and `ConsentProofs` (`ApprovalInbox`, `AzureReconcile`).

### Composites

A run may check several components that share no state. `MCLocalLane` (store, items), `MCIssueLane`
(issues, pulls), `MCLanesProgress` (items, issues, azure), `MCFairParts` (lock, pulls, raw), `MCConsent`
(reconcile, inbox), `MCSessions` (budget, handoff, issues) and `MCSupervision` (group, supervisor, runs,
journal) choose a `part` in the initial state; that part runs by its own next-state relation and the others
rest in one initial state. Each part is explored exactly as it would be alone, and its fairness is owed by
it when it is the part that runs. Symmetry is used only where no liveness is checked; in `MCSupervision` the
controllers, which are alike, start in the order of their names instead, and in `MCLocalLane` invocations
are used in the order of their ids (`InOrder`).

Abstractions of `WorkItems`: items run by Azure (refused by `blockers` and `run`) and items without a
team template (which always end `failed`) are left out, as are pilot tasks; `queued` and `claimed` are
read as `ready` and `running`, their synonyms in the code; the local sizing verdict and explicit
`blockers` of an item are constants that only make it less ready; the contract hash of a resumed run
never changes, because nothing in the lane edits an item's context.

## 4. Runs

| run | question | bounds |
|---|---|---|
| `lock_race` (violation) | is a fresh live owner's lock preserved? | 3 processes, no file gets old |
| `local_lane` | torn store? refinement of `AtomicStore`; the lane's safety and refinement of `ScopeArbiter` | 3 processes, one update each, all faults, until a lock is stolen; 2 workers, 3 items, 1 role, 5 invocations, crashes |
| `lane_slow_scope` (violation) | what if a slow worker's claim is requeued? | 2 workers, 3 items, 3 invocations, `StealLive`, no crashes |
| `lanes_progress` | do claims settle, does redispatch end, is a ready issue taken? is a packet published once, as reviewed, and what is open recorded? | 2 workers, 2 conflicting items of 2 roles, 3 invocations, crashes; 2 lanes, 2 issues of which one declares no scope; 2 packets (one only claimed), 4 scope shapes, 2 commits, 2 faults or edits of people |
| `issue_lane` | do leases and locks exclude while lanes and workers die? is what is merged reviewed, and alone in its files? | 2 lanes, 2 workers, 2 issues with nested scopes (one of them two locks), 1 death; 2 overlapping pull requests of two issues or of one, with checks or without, 2 heads each, 1 surprise, 2 cycles at a time, a semantic review after each review |
| `issues_branch_names` (violation) | one branch under two names | 2 lanes, 2 overlapping issues, no deaths |
| `pulls_stale_approval` (violation) | is every merged head reviewed? | 2 pull requests, 2 heads, 1 surprise |
| `fair_parts` | the lock with every fault; is what deserves it merged? a raw team run | 3 processes; 2 overlapping pull requests, 2 heads each, 1 surprise, 2 cycles at a time; 3 roles, 9 reports (one of no status, one with an issue that reads as generated), batches of two |
| `team_dependencies` (violation) | are dependencies first? | 3 roles, 7 reports |
| `consent` | board changes as reviewed; one question per revision, answers that stand | 2 items, 2 change lists, 2 proposals, 1 edit, 3 sends; 2 operators, 2 materials, 2 revisions, 2 grants that live one tick |
| `sessions` | one budget; one reservation, one import; issues queued from old listings | 2 dispatchers, 2 intakes, 4 observations, 2 token units; 2 sessions, 2 items, 2 roles, 1 disturbance, 2 returns; 2 lanes, sibling migrations |
| `supervision` | who starts a child and answers for it | a leader and 3 kin; a queue of two, two versions of the first entry, 2 policies, 1 board edit; 2 runs; 3 controllers, 2 items of 2 roles, 1 claim by others, at most 3 steps, claims and roles |

Three processes are what the races of the lock need: an owner, the waiter that judges, and the waiter
that takes over in between. One update each is enough to lose one. In the lane, two workers and three
items give every pair of roles an item can have towards another (conflicting, depending, independent);
an invocation id is in use while its child runs, its item is marked or its worker holds it, so one per
worker and item suffices, and a shorter supply only makes a worker wait for one. In the
GitHub lane two lanes that restart for ever give every race of two holders, and one death is enough to
leave files behind at every point. `Jobs` bounds the workers alive at once. Two pull requests are one that
is first in a queue and one behind it, or two of one issue; a surprise is a failed command, a cycle that
times out, a host that stops, a lost label, a commit, an objection, a rule that blocks or a base that moved, at any
point of a cycle, and one is allowed: every
race of one of them with a command is there, two in one behaviour are not. Two heads are one
that was reviewed and one that was not; a repair pushes the second as well.

Of the Azure lane: two PATCHes per proposal give an order, three sends a retry of each and a late one
beside it; two proposals put a late request of the first into the second. Two commits are a repair and
a commit nobody reviewed. Two operators, two materials and two revisions give a reopening that races an
answer of the other operator. Two token units are a known and an unknown call beyond the limit; the
intakes differ in limit, challenge and history so that each refusal of `decide_route` occurs. In the cycle
three controllers are one that dies, one that resumes and dies, and one that resumes or is refused;
limits of three let the budget run out after a claim, and the items begin half done so that both a
continued and a skipped item occur. Bounds on faults, edits, sends, disturbances and claims by others are
constants named `Max...` and count what the environment does, never what the code does, except the token
and cycle limits, which are the code's own.

`CHECK_DEADLOCK FALSE` appears where everything may have died or be finished. The constraints of
`local_lane`, `issue_lane` and `sessions` cut only states in which a lock was stolen, about which
their properties say nothing.

### Fairness

`LockFairness`: a process that runs is scheduled, the file grows old, and callers come back (the
daemons poll). `Fairness` of the lane: a live worker takes its next step (each wait in
`_finish_started_process` has a deadline), children end or are killed, dead daemons are started again,
`requeue-stale` is run now and then (it is the documented recovery), and some daemon claims when an
item is ready. Nobody owes a crash, a cancellation or a rework. `ClaimSettles` does not hold in a
stronger form: after a crash between mark and result only an operator can settle the item.

`FairSpec` of the GitHub lane: a lane takes its next step (the namespace wait has a deadline of 10 s,
cycles follow each other under `atlas-agent-unattended`), workers come to an end, and time passes, so
a file nobody needs grows old. A file that is needed never does: codex is stopped after 1800 s and the
default age is six hours. `ReadyIsTaken` allows an issue to wait while the worker of a conflicting one
runs, since an operator who requeues one issue again and again may keep an overlapping one waiting.

`PullFairness`: cycles take their next steps (a shift starts cycle after cycle, and every agent a command
runs is under `timeout`), and checks conclude. Nobody owes a commit, a failure or the withdrawal of an
objection or a block.
`DeservingIsMerged` owes nothing to a pull request that is blocked, conflicts or has no checks, as the
finalizer merges none of those, and nothing while a review would approve an overlapping one before it: that
one comes first, also where it is one the finalizer never merges (see *behaviour met* below).

`AzureFairness`: a publisher that is called takes its next step, publication is called again (it is the
documented reconciliation), and Azure Repos takes or drops a request; nobody owes a death or a commit.
`RunsFairness`: a client or supervisor that is alive takes its next step, and every wait of a supervisor
has a timeout; `RuntimeIsFreed` owes nothing for the dead, whose run is reported unknown.

### Findings

* `lock_race`: a waiter reads the pid of the owner and finds it dead (W:668), because the owner has released
  its lock and ended meanwhile; a third process creates its own lock; the waiter unlinks the path (W:670), and
  with it the fresh lock of a live owner. No file is old in this run; where one is, the removal by age (W:660)
  is apart from its `stat` in the same way. `tests/test_atlas_work_items.py:115` states that a fresh live
  owner's lock is preserved.
* `lane_slow_scope`: with the claim of a slow worker requeued before its mark, two children run on
  overlapping scopes (LAR `README.md:202` excludes it).
  In the same regime `record_result`, which does not ask whose claim it is, may set an accepted item
  back to blocked; `AcceptanceIsFinal` is claimed and proved without it (`~StealLive`).
* `issues_branch_names`: without a configured base branch an issue that declares none is locked under
  `default` (atlas-agent-orchestrator:3780) while its worker uses GitHub's default branch; an
  overlapping issue that names that branch is locked elsewhere and runs beside it (LAR `README.md:565`).
  The race of `lock_race` exists here too: leases and locks are judged by age and unlinked by path
  (atlas-agent-orchestrator:3854), so of two lanes that find the files of a dead one, the slower removes
  what the faster has just created. `stolen` records it, and the exclusion properties are stated for
  behaviours without it.
* `pulls_stale_approval`: the finalizer asks for the label `agent:review-approved`
  (`atlas-agent-finalize:331`), which names no head, and merges whatever head there is (line 400). A commit
  that lands after the review, with checks that pass, is merged without a semantic review of that head; LAR
  `README.md:592` expects current-head evidence of the finalizer path. `MergedWasEarned` is what does hold:
  a pull request still at the head it was approved for has passed its checks and a reviewer found the files of
  that head good; and its last semantic review passed, as long as no command failed and no cycle timed out.
* `team_dependencies`: `normalize_role_result` holds back a complete result whose consumed role is missing
  (`atlas_workflows.py:898`) by making it incomplete; at the next application of results an incomplete
  result is not asked for its dependencies, loses its generated issue and is complete again, still without
  the role it consumes (LAR `README.md:280` excludes it).

Behaviour met while modelling about which the repository promises nothing, or no more than the models
allow: a reservation of the supervised handoff that went stale is never cleared (LAR `README.md:363`); the
Azure claim of a dead worker is never taken back; two results of a raw command may replace each other
and keep an item in redispatch for ever (W:1444); a lane that removes `agent:ready` from an old listing
may lose an operator's requeue (O:4350); a worker that outlives `lease_stale_seconds` loses its issue lease
(O:3747); a listing that fails reads as "no open pull request" and the issue is queued again
(`atlas-agent-reconcile:80`; the second pull request is then a duplicate nobody merges); a review that
fails after it has labelled a pull request approved writes no summary, the routes of the review before it
stay (`atlas-agent-unattended:1141`), the pull request may be sent to a semantic review again and be
rejected there, and the label still lets it be merged; so may the reviewer that a cycle left when it timed
out, which ends beside the next cycle and posts `failed` for a head that was approved meanwhile; an approved
draft that GitHub calls `BLOCKED` passes every review (`atlas-agent-review:942`,
`tests/test_review_agent.py:375`) and no finalizer (`atlas-agent-finalize:334`), and an approved pull request without checks that is no draft
any more is as little merged (`atlas-agent-finalize:375`): each stays at the front of its overlap queue, and
what is queued behind it waits, until a person merges or closes it (`atlas-agent-review:1071`); a role result of
no known status, or an incomplete one with an issue that begins as a generated one does, is restored to
`complete` when it is judged a second time with nothing missing (`atlas_workflows.py:855`, `:891-898`); an Azure pull request that
a person marked ready, retargeted, described anew or pushed to makes `publish` raise as long as it stays so
(`atlas_azure_worker.py:831`) and is not recorded as open; a process forked
while `/proc` is scanned is missed by that scan; and a harness lock stays without an `unknown` verdict when the supervisor dies between the terminal record and the unlock, or the
client between the lock and the record (`docs/harness-interface.md:221` leaves such locks to the operator).

## 5. Proofs

Constants are arbitrary in all theorems. Those that are sets of processes, items, paths, packets or
operators carry no assumption; the named ones are:

* typing: `RegimeAssumption`, `MaxUpdatesAssumption`, `ItemsAssumption`, `InboxAssumption`, `WorkerBounds`,
  `PolicyAssumption` (limits and usage are natural numbers), `ScopeAssumption` and `PathAssumption` (scopes
  and paths are sequences of segments), `DispatchAssumption`, `JournalAssumption` (limits are natural
  numbers, items have numbers, and people at the queue are no controllers), `PullsAssumption` (pull requests
  are numbered, a pull request may have one head at least, and a cycle is a sequence of known stages),
  `ResultsAssumption` and `RawResultsAssumption` (results are of the form `TeamRun` names, a raw one with any
  status and any issues),
  `ReconcileAssumption` (the board has revisions, a list of changes is a sequence of changes, and there is
  at least one proposal);
* what a reader of the configuration sees to: `QueueAssumption` (the queue is not empty, and an entry has a
  version to begin with) and `RolesAssumption` (a template lists each role once, after the roles it
  consumes).

The regime of a theorem about the lock or the lane (`~Faults`,
`~SlowHolds`, `~StealLive`) is in its `ASSUME`. `ScopesAreExcluded` has one hypothesis of its own,
`OneKeyPerBranch`: issues with the same branch have the same lock key. The code does not see to that, and
`issues_branch_names` shows what happens without it.

Each inductive invariant below was an invariant of a TLC run on the bounds of section 4 before it was
proved. A proof that a step preserves it has one lemma per action or per group of actions that do the
same, and the lemmas of a step's effect come first, where several actions share it.

*Lock* (`WorkItemStoreProofs`). `ExclusionHolds` needs the invariant that, while nothing was stolen, a
process inside the lock is the owner of the file. Without faults it follows that a waiter that will unlink
has seen no file, or a file whose owner is gone (`NothingStolen`); this is where `Age` and `Probe` matter.

*Store* (`WorkItemStoreProofs`). Every step is a step of the lock or leaves it unchanged, so the lock's
invariants carry over. `DataInv` adds: only the process inside the lock has a local copy, its copy is the
stored payload plus its own change, and the temporary file is its own. `NoUpdateLost` and the
refinement are one lemma about `Replace` away: with every fault the store implements `AtomicStore` up to the
first theft of a lock (`AtomicUntilStolen`), without faults and slow owners for ever (`StoreIsAtomic`).

*Local lane* (`WorkItemsProofs`). `ChildIsMarked` alone is not inductive. `CustodyInv` adds that an
invocation id belongs to one worker, that the item of a marked or running worker carries that worker's
mark, that there is no child before the launch and none behind a proved result. It holds in every
regime, also when claims are stolen. Under `~StealLive`, `ClaimInv` adds that a worker's item is running
and nobody else's, and that a reported `done` was earned. From it every step maps to a step of
`ScopeArbiter` or a stutter (`LaneRefinesArbiter`), and scope exclusion, the dependency property and
the finality of acceptance follow from the arbiter's own invariant (`Arbitrated`) and custody.

*GitHub dispatch* (`IssueLaneProofs`). That two workers never share an issue says nothing about the
files that make it so. `Orderly`, which holds until a needed file was unlinked (`DispatchInv`), says where
each lane is in its work and what it holds there (`Placed`), that it owns what it believes it holds
(`Owns`), that the lease and the first lock of a running worker's issue are there and not stale, whether
or not its lane lives (`Guarded`), that a worker's lane waits for it (`Awaited`), that a lane that has scanned
the locks of its branch clashes with no running worker and no lane about to start one (`ClearOfWorker`,
`ClearOfLane`; the scan and the locks it leads to are taken under one namespace lock), and that running
workers do not clash (`Apart`). It is inductive with and without the refilled queue: every theorem is stated
of `Spec` and of `RefilledSpec`; `StillApart` is both of them for the second.

*Pull requests* (`IssueLaneProofs`). Commands work from what they read: the invariant says how far that can be
from what there is. It has two layers. `RecordInv` holds whatever fails and whichever commands of dead cycles
run beside the driver's: what is approved at the head there is has been judged good and has passed its checks
(`Recorded`); what any command has read of a pull request is no newer than the pull request, and what it
found good of the present head is on record (`SeenWell`); heads only grow, so a reviewer that fetched the head
it noted first, and finds that head at the end, judged its files (`WorksWell`). `QuietInv` is what there is
in addition as long as no command failed. Then the driver is alone (`DriverAlone`), the targets of a stage
are open, and approved or routed as the stage asks (`StageHolds`), what was viewed has the labels and the
evidence it had unless it was pushed to (`SeenHolds`), no route leads an approved pull request to another
semantic review (`EvidenceHolds`, `Spared`), and of two that overlap one at most is approved, or chosen to be
by the review under way (`QueueHolds`, `Chosen`). That one at most is chosen rests on `FrontierIsApart`: of each
set of pull requests that reach each other through shared files the review takes the first. `MergesAreEarned`
needs the first layer for its checks and its reviewer, and the second for the last semantic review;
`OverlappingWaits` needs the second.

*Supervision* (`SupervisionProofs`). `RunsInv`, one run at a time: whoever is between taking and removing
the lock, client or supervisor, has it for its run (`LockPlace`); the supervisor exists once the client has
gone, and from then on the record is its own (`SuperPlace`); there is no worker before the launch and none
that may act once its outcome is known (`WorkPlace`). `GroupInv`: where a signal is next the leader is not
reaped (`CustodyHolds`), what lives is still to be read or was forked after the listing of `/proc`
(`ScanCovers`), and a verdict that the group is gone is final.
`SupInv`: each stored state is backed by what its children proved durably (`StatesStand`), what is in memory
fits what is stored, items are in order (`InQueueOrder`), and each call made is in doubt, settled or behind
a gate that its repetition cannot pass (`CallsKept`).

*Bounded cycle* (`CycleJournalProofs`). `JournalInv`: one controller has the lock (`LockKept`); what was
used is charged in the newest row (`Spent`), and so is what a controller is about to use; the queue says
what the workers did (`QueueTrue`, `JobTrue`); the newest row fits the queue (`RowFits`), so that the
next controller can tell what happened from the two; and a controller knows of its item what the row and the
queue say (`Holder`). A worker that outlives its controller is the hard case: its results are not in the row, and
nobody may take the item until it is settled.

*Inbox* (`ConsentProofs`). `InboxInv`: an answer on the card was signed for what the card shows
(`CardHolds`), who writes holds the lock and a report is what the card is (`LockHolds`), a person was asked
of a revision that exists, once (`AskedOnce`), and what each operator carries across its unlocked steps is
still good or will be refused (`Carried`, `Intended`).

*Reconciliation* (`ConsentProofs`). A request says which revision it replaces, so all rests on what the
service keeps: revisions never go back, and tags change with them only (`Earlier`). `ReconcileInv`, where a
proposal reviewed is what its changes make of the board as it was read (`Proper`): the journal of the
proposal in force is its patches in their order, each intended at the revision the patch tests, all but
the last verified (`JournalHolds`), and a patch that is verified is on the board or under a later edit
(`Settled`); the run has replayed what is verified (`RunHolds`); a request on the wire writes what was
reviewed over the tags its item still has at that revision, or comes too late, as every request of a patch
does once that patch or one after it has landed (`RequestHolds`); and what has landed of the proposal in
force is in its journal (`LandedHolds`). The step that matters is `Deliver`: a request that is let through
is of the patch the journal intends, so patches land in order and once, which is `SerialSpec`, and no tag
of a person is dropped, which is `HumanEditsSurvive`.

*Budget and handoff* (`SessionsProofs`). `BudgetInv`: who is at work holds the lock (`LockIsHeld`), the
budget is the sum of what the tickets say (`Accounts`), and each ticket, route and dispatcher is at a
point that fits (`TicketHolds`, `RouteHolds`, `AtWork`). `HandoffInv`: each stored item has one
receipt at most of a reservation and of a role, and the run its receipts account for (`ItemOk`); one
reservation is pending at most; what a session carries is what it made of an item it read (`AtHand`); and
what was acknowledged is on record.

*Role results* (`SessionsProofs`). The judgement goes through the roles in their order, and each step looks at
the results before it. `JudgedIs` says what it comes to: each result is normalized against the judged run
itself, as if all were judged at once, since a role consumes only roles before it. `Judged` is a recursive
function; that there is one (`RunsExist`) and what it holds after each role is argued of the least number for
which it fails. `RawInv` says how far a stored result may be from the report (`Faithful`): one whose
report does not let it complete is not complete, and if it is incomplete with an issue, that issue stays; one
reported complete and in order is complete or waits with an issue. Which reports let a role complete
(`MayComplete`) is what the code makes of them: `complete`, no status at all, or `incomplete` with an issue that reads as
generated, and with all else in order.

*Azure worker* (`AzureWorkerProofs`). `AzureInv`: a worker has the receipts of the steps it has taken
(`WorkerHolds`); a write that is still ahead of a publisher was tried by nobody, and one that may have left
is on record (`PublisherHolds`); what is at the service or on its way there was accepted and reviewed
(`RemoteHolds`); and claims are `Disjoint`. The claim compares scopes by prefix, the publication
matches paths with globs; `DisjointScopes` is the lemma that the first covers the second, for any
segments.

Where an argument is by induction over numbers it is stated of the set of counterexamples, which has a
least element (`LeastNumber`).

Action properties proved: `NoLostUpdate`, `AcceptanceIsFinal`, `AnswersStand`, `ReopeningIsReconciled`,
`SpendingStops`, `NothingIsOverwritten`, `HumanEditsSurvive` and `MergedWasEarned`. Refinements proved:
`AtomicUntilStolen` and `StoreIsAtomic`, `LaneRefinesArbiter` and `PatchesAreSerial`. Proved and not run as properties of their own: `LockTypeOK`, the
type invariants of the store and of the lane, `NoLostUpdate`, mutual exclusion without faults,
`DependenciesHold` and `AcceptanceIsFinal`.

Only model-checked are the liveness properties (`AbandonedLockReclaimed`, `ClaimSettles`, `DispatchEnds`,
`ReadyIsTaken`, `DeservingIsMerged`, `OpenIsRecorded`, `RuntimeIsFreed`), as fairness and `ENABLED` are out of
the prover's reach. Every invariant and every action property that a run checks is stated by a theorem.

## 6. Not modelled

* Of the pull-request commands: deployed and manual validation, the no-checks policy, dependency blockers,
  cross-repository repairs, the reading of failed logs, workstream review and cleanup; of the drivers, their
  deadlines and locks and the stages without state of their own. The issue tools before dispatch.
* The role runner: in `WorkItems` and `CycleJournal` a worker returns any set of role results.
* Of modelled components: triage, previews and deploy candidates of the orchestrator; what the GitHub
  worker does between its labels; the v1 cycle, which is the modelled one without recovery; artifacts,
  pins and checkouts of a cycle beyond the one comparison; trust files and signatures; the delta-review
  pilot; the questions of `atlas_intake.py`.
* Text formats, prompts, rendering, configuration, the content of GitHub and Azure records, and the
  sequential tools listed under *The rest*.
