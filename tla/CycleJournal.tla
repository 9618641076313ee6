----------------------------- MODULE CycleJournal -----------------------------
(***************************************************************************)
(* The recoverable bounded cycle of atlas-agent-orchestrator: controllers  *)
(* that spend one budget of steps, claims and roles on the items of one    *)
(* queue, and write every step to one receipt before they act on it.  The  *)
(* controller lock admits one of them at a time and falls free when it     *)
(* dies; the next one resumes at the newest row of the receipt, or not at  *)
(* all.  A worker outlives the controller that started it.                 *)
(*                                                                         *)
(* The queue is shared: another worker of the same machine may claim and   *)
(* finish an item at any time, and the claim of a dead controller may be   *)
(* queued again.  The roles of an item are done in the order 1..Roles; how *)
(* many are done stands for the accepted workflow run.                     *)
(***************************************************************************)
EXTENDS Naturals, FiniteSets

CONSTANTS
  Controllers, \* processes; each runs once, fresh or to resume
  Work,        \* the admitted items, numbers in queue order
  Roles,       \* roles of an item
  Before,      \* what may be done of each item before the cycle
  MaxSteps, MaxClaims, MaxRoles, RoleMax, \* the limits of the cycle
  MaxOutside   \* bound on the claims of other workers

VARIABLES
  ctl,      \* each controller
  row,      \* the newest row of the receipt, with the last capsule accepted
  status,   \* of each item in the queue
  claim,    \* who holds it, or held it last
  stored,   \* roles the queue records as done
  doubt,    \* unresolved process uncertainty
  job,      \* the worker each controller started
  outside,  \* claims made by other workers
  ran,      \* history: roles done
  repeated, \* history: a role was done again
  used      \* history: steps observed, claims made, roles granted to workers

queueVars == <<status, claim, stored, doubt>>
historyVars == <<ran, repeated>>
journalVars == <<ctl, row, status, claim, stored, doubt, job, outside, ran, repeated, used>>

Nobody == "nobody"
Outsider == "outsider"
NoRow == [event |-> "none"]
NoJob == [item |-> 0, next |-> 0, left |-> 0]
Unstarted == [pc |-> "idle"]
Ended == [pc |-> "ended"]
NoResult == [did |-> 0, status |-> "stopped", ok |-> FALSE, proved |-> TRUE]
Zero == [steps |-> 0, claims |-> 0, roles |-> 0]

\* The limits are counts; no more is done of an item before than it has roles; others
\* are no controllers.
ASSUME JournalAssumption ==
  /\ MaxSteps \in Nat /\ MaxClaims \in Nat /\ MaxRoles \in Nat /\ RoleMax \in Nat
  /\ Roles \in Nat /\ Work \subseteq Nat \ {0} /\ Before \subseteq [Work -> 0..Roles]
  /\ Nobody \notin Controllers /\ Outsider \notin Controllers

JournalInit ==
  /\ ctl = [c \in Controllers |-> Unstarted]
  /\ row = NoRow
  /\ status = [i \in Work |-> "ready"]
  /\ claim = [i \in Work |-> Nobody]
  /\ stored \in Before
  /\ doubt = [i \in Work |-> FALSE]
  /\ job = [c \in Controllers |-> NoJob]
  /\ outside = 0
  /\ ran = {w \in Work \X (1..Roles) : w[2] <= stored[w[1]]}
  /\ repeated = FALSE /\ used = Zero

Is(c, pc) == ctl[c].pc = pc
Locks(c) == ctl[c].pc \notin {"idle", "entry", "ended"}
Free == \A c \in Controllers : ~Locks(c)

\* _inspect_queue: nothing is claimed and no process is in doubt.
Quiet == \A i \in Work : status[i] # "active" /\ ~doubt[i]

\* _observe_cycle_inputs: what the queue says is done is what the cycle accepted.
Undrifted(prog) == stored = prog

\* _bounded_budget_reduce.
CanStep(n) == n.steps < MaxSteps /\ n.claims < MaxClaims /\ n.roles < MaxRoles
CanClaim(n) == n.claims < MaxClaims /\ n.roles < MaxRoles
Allowance(n) == IF RoleMax < MaxRoles - n.roles THEN RoleMax ELSE MaxRoles - n.roles

\* An acknowledged row; it keeps the last capsule.
Put(event, n) == row' = [row EXCEPT !.event = event, !.n = n]
To(c, pc) == ctl' = [ctl EXCEPT ![c].pc = pc]
Unsure(c) == ctl' = [ctl EXCEPT ![c].pc = "ending", ![c].sure = FALSE]
Charged(c, n, pc) == ctl' = [ctl EXCEPT ![c].n = n, ![c].pc = pc]
-----------------------------------------------------------------------------
(* A cycle begins.                                                          *)

Running(prog, done, n, pc) ==
  [pc |-> pc, prog |-> prog, done |-> done, n |-> n, item |-> 0, allow |-> 0,
   result |-> NoResult, halt |-> FALSE, sure |-> TRUE]

\* The entry observation takes what is recorded as done for what is accepted.
ObserveEntry(c) ==
  /\ Is(c, "idle")
  /\ ctl' = [ctl EXCEPT ![c] = Running(stored, {}, Zero, "entry")]
  /\ UNCHANGED <<row, queueVars, job, outside, historyVars, used>>

\* acquire_and_open: any history that is there refuses the start.
Open(c) ==
  /\ Is(c, "entry") /\ Free /\ Quiet /\ row = NoRow
  /\ row' = [event |-> "opened", n |-> Zero, prog |-> ctl[c].prog, done |-> {},
             by |-> [i \in Work |-> Nobody], go |-> TRUE, sure |-> TRUE]
  /\ To(c, "opened")
  /\ UNCHANGED <<queueVars, job, outside, historyVars, used>>

PublishReady(c) ==
  /\ Is(c, "opened") /\ Put("recovery_ready", ctl[c].n) /\ To(c, "loop")
  /\ UNCHANGED <<queueVars, job, outside, historyVars, used>>
-----------------------------------------------------------------------------
(* The next step, and a claim.                                              *)

\* Mutant of Reserve: the step is charged in memory, and written with step_started.
ReserveInMemory(c) ==
  /\ Is(c, "loop") /\ CanStep(ctl[c].n)
  /\ Charged(c, [ctl[c].n EXCEPT !.steps = @ + 1], "reserved")
  /\ UNCHANGED <<row, queueVars, job, outside, historyVars, used>>

Reserve(c) ==
  /\ Is(c, "loop") /\ CanStep(ctl[c].n)
  /\ LET n == [ctl[c].n EXCEPT !.steps = @ + 1]
     IN  Put("step_reserved", n) /\ Charged(c, n, "reserved")
  /\ UNCHANGED <<queueVars, job, outside, historyVars, used>>

\* The guard sees the step; where the queue drifted, the cycle ends.
BeforeStep(c) ==
  /\ Is(c, "reserved")
  /\ used' = [used EXCEPT !.steps = @ + 1]
  /\ IF Undrifted(ctl[c].prog)
     THEN Put("step_started", ctl[c].n) /\ To(c, "started")
     ELSE To(c, "ending") /\ UNCHANGED row
  /\ UNCHANGED <<queueVars, job, outside, historyVars>>

Candidates(c) == {i \in Work \ ctl[c].done : status[i] = "ready"}
Unfinished(c) == {i \in Candidates(c) : ctl[c].prog[i] < Roles}

\* The first candidate with a role left; finished ones before it are done.
IntendClaim(c) ==
  /\ Is(c, "started") /\ Undrifted(ctl[c].prog) /\ CanClaim(ctl[c].n)
  /\ \E i \in Unfinished(c) :
       LET n == [ctl[c].n EXCEPT !.claims = @ + 1]
       IN  /\ \A j \in Unfinished(c) : i <= j
           /\ Put("claim_intent", n)
           /\ ctl' = [ctl EXCEPT ![c].pc = "intend", ![c].n = n, ![c].item = i,
                                 ![c].done = @ \cup {j \in Candidates(c) : j < i}]
  /\ UNCHANGED <<queueVars, job, outside, historyVars, used>>

Take(i, who) == /\ status[i] = "ready" /\ ~doubt[i]
                /\ status' = [status EXCEPT ![i] = "active"]
                /\ claim' = [claim EXCEPT ![i] = who]
                /\ UNCHANGED <<stored, doubt>>
CallClaim == used' = [used EXCEPT !.claims = @ + 1]

\* provider.claim: the item is held, or somebody else was first, or the answer is lost.
Claim(c) == /\ Is(c, "intend") /\ CallClaim
            /\ Take(ctl[c].item, c)
            /\ To(c, "held") \/ Unsure(c)
            /\ UNCHANGED <<row, job, outside, historyVars>>
MissClaim(c) == /\ Is(c, "intend") /\ CallClaim
                /\ status[ctl[c].item] # "ready" /\ To(c, "missed")
                /\ UNCHANGED <<row, queueVars, job, outside, historyVars>>

WriteClaimed(c) == /\ Is(c, "held") /\ Put("claimed", ctl[c].n) /\ To(c, "claimed")
                   /\ UNCHANGED <<queueVars, job, outside, historyVars, used>>
WriteMissed(c) == /\ Is(c, "missed") /\ Put("claim_not_acquired", ctl[c].n) /\ To(c, "loop")
                  /\ UNCHANGED <<queueVars, job, outside, historyVars, used>>
-----------------------------------------------------------------------------
(* The worker.                                                              *)

GrantRoles(c) ==
  /\ Is(c, "claimed") /\ Undrifted(ctl[c].prog) /\ Allowance(ctl[c].n) > 0
  /\ LET n == [ctl[c].n EXCEPT !.roles = @ + Allowance(ctl[c].n)]
     IN  /\ Put("launch_intent", n)
         /\ ctl' = [ctl EXCEPT ![c].pc = "launch", ![c].n = n, ![c].allow = Allowance(ctl[c].n)]
  /\ UNCHANGED <<queueVars, job, outside, historyVars, used>>

\* Drift, no role left in the budget, a stop or a deadline: a blocked result is settled.
NoLaunch(c) ==
  /\ ctl[c].pc \in {"claimed", "launch"}
  /\ ctl' = [ctl EXCEPT ![c].pc = "returned", ![c].halt = TRUE]
  /\ UNCHANGED <<row, queueVars, job, outside, historyVars, used>>

\* worker.run: the process is in doubt before it exists.
Launch(c) ==
  /\ Is(c, "launch")
  /\ LET i == ctl[c].item
     IN  /\ doubt' = [doubt EXCEPT ![i] = TRUE]
         /\ job' = [job EXCEPT ![c] = [item |-> i, next |-> stored[i] + 1, left |-> ctl[c].allow]]
  /\ used' = [used EXCEPT !.roles = @ + ctl[c].allow]
  /\ To(c, "working")
  /\ UNCHANGED <<row, status, claim, stored, outside, historyVars>>

Do(roles) == ran' = ran \cup roles /\ repeated' = (repeated \/ roles \cap ran # {})

\* The worker does a role, with or without its controller.
WorkerRole(c) ==
  /\ job[c].left > 0 /\ job[c].next <= Roles
  /\ Do({<<job[c].item, job[c].next>>})
  /\ job' = [job EXCEPT ![c].next = @ + 1, ![c].left = @ - 1]
  /\ UNCHANGED <<ctl, row, queueVars, outside, used>>

\* What a worker that did so many roles may return, and the state it leaves the item
\* in.  An accepted result has a new role; one whose end is not proved blocks.
Results(c, did) ==
  {r \in [did : {did}, status : {"ready", "done", "stopped"}, ok : BOOLEAN, proved : BOOLEAN] :
     /\ ~r.proved => r.status = "stopped"
     /\ r.ok => /\ r.proved /\ did > 0
                /\ r.status = IF ctl[c].prog[ctl[c].item] + did = Roles THEN "done" ELSE "ready"}

\* worker.run returns; an exception leaves the fate of the worker unknown.
WorkerReturns(c) ==
  /\ Is(c, "working")
  /\ \/ \E r \in Results(c, job[c].next - stored[ctl[c].item] - 1) :
          /\ ctl' = [ctl EXCEPT ![c].pc = "back", ![c].result = r]
          /\ job' = IF r.proved THEN [job EXCEPT ![c] = NoJob] ELSE job
     \/ Unsure(c) /\ UNCHANGED job
  /\ UNCHANGED <<row, queueVars, outside, historyVars, used>>

\* worker_returned, and the observation after it.
WriteReturned(c) ==
  /\ Is(c, "back") /\ Put("worker_returned", ctl[c].n)
  /\ \E stop \in BOOLEAN :
       ctl' = [ctl EXCEPT ![c].pc = "returned", ![c].halt = stop \/ ~Undrifted(ctl[c].prog)]
  /\ UNCHANGED <<queueVars, job, outside, historyVars, used>>
-----------------------------------------------------------------------------
(* Its result.                                                              *)

WriteIntent(c) == /\ Is(c, "returned") /\ Put("result_intent", ctl[c].n) /\ To(c, "record")
                  /\ UNCHANGED <<queueVars, job, outside, historyVars, used>>

\* record_result; its answer may be lost.
Record(c) ==
  /\ Is(c, "record")
  /\ LET i == ctl[c].item
     IN  /\ status' = [status EXCEPT ![i] = ctl[c].result.status]
         /\ stored' = [stored EXCEPT ![i] = @ + ctl[c].result.did]
         /\ doubt' = [doubt EXCEPT ![i] = @ /\ ~ctl[c].result.proved]
  /\ To(c, "recorded") \/ Unsure(c)
  /\ UNCHANGED <<row, claim, job, outside, historyVars, used>>

WriteRecorded(c) == /\ Is(c, "recorded") /\ Put("result_acknowledged", ctl[c].n) /\ To(c, "acked")
                    /\ UNCHANGED <<queueVars, job, outside, historyVars, used>>

\* The item is as this result left it: nobody took it since.
Agrees(c) == LET i == ctl[c].item
             IN  status[i] = ctl[c].result.status /\ claim[i] = c /\ ~doubt[i]

\* It is not, or its process is in doubt, or the queue cannot be read.
Disagree(c) == /\ Is(c, "acked") /\ Unsure(c)
               /\ UNCHANGED <<row, queueVars, job, outside, historyVars, used>>

\* claim_settled: the whole accepted candidate is in the row before it is in memory.
Settle(c) ==
  /\ Is(c, "acked") /\ Agrees(c)
  /\ LET i == ctl[c].item  r == ctl[c].result
         prog == IF r.ok THEN [ctl[c].prog EXCEPT ![i] = @ + r.did] ELSE ctl[c].prog
         done == ctl[c].done \cup {j \in {i} : r.ok /\ prog[j] = Roles}
     IN  \E stop \in BOOLEAN : LET halt == ctl[c].halt \/ ~r.ok \/ stop
         IN  /\ row' = [event |-> "claim_settled", n |-> ctl[c].n, prog |-> prog, done |-> done,
                        by |-> [row.by EXCEPT ![i] = c], go |-> ~halt, sure |-> TRUE]
             /\ ctl' = [ctl EXCEPT ![c] = Running(prog, done, ctl[c].n, IF halt THEN "ending" ELSE "loop")]
  /\ UNCHANGED <<queueVars, job, outside, historyVars, used>>
-----------------------------------------------------------------------------
(* A cycle ends.                                                            *)

\* A stop, the deadline, the budget, drift, or no work left.
StopCycle(c) == /\ ctl[c].pc \in {"opened", "loop", "started"} /\ To(c, "ending")
                /\ UNCHANGED <<row, queueVars, job, outside, historyVars, used>>
\* A stop between the intent to claim and the claim is not settled.
StopIntent(c) == /\ Is(c, "intend") /\ Unsure(c)
                 /\ UNCHANGED <<row, queueVars, job, outside, historyVars, used>>

Finish(c) == /\ Is(c, "ending")
             /\ row' = [row EXCEPT !.event = "terminal", !.go = FALSE, !.sure = ctl[c].sure]
             /\ ctl' = [ctl EXCEPT ![c] = Ended]
             /\ UNCHANGED <<queueVars, job, outside, historyVars, used>>

\* Death between any two effects; also what an append that failed comes to.  A row
\* that landed without its acknowledgment is a row acknowledged before a death.
ControllerDies(c) == /\ ctl[c].pc \notin {"idle", "ended"}
                     /\ ctl' = [ctl EXCEPT ![c] = Ended]
                     /\ UNCHANGED <<row, queueVars, job, outside, historyVars, used>>

\* A row that landed in part: the receipt can no longer be read.
Tear(c) == /\ Locks(c) /\ ~Is(c, "intend") /\ ~Is(c, "working")
           /\ row' = [row EXCEPT !.event = "torn", !.go = FALSE] /\ ctl' = [ctl EXCEPT ![c] = Ended]
           /\ UNCHANGED <<queueVars, job, outside, historyVars, used>>
-----------------------------------------------------------------------------
(* A cycle is resumed.                                                      *)

\* _continuable_tail: a settled or an admitted row, and no uncertainty.
Continuable == /\ row # NoRow /\ row.go /\ row.sure
               /\ row.event \in {"recovery_ready", "claim_settled", "recovery_admitted"}

\* What was settled last is still as it was left: nobody held it since.
Untouched == \A i \in Work : row.by[i] # Nobody => claim[i] = row.by[i]

\* acquire_for_recovery and _admit_cycle_recovery.
Revalidate(c) ==
  /\ Is(c, "idle") /\ Free /\ Continuable /\ Undrifted(row.prog) /\ Untouched /\ Quiet
  /\ ctl' = [ctl EXCEPT ![c] = Running(row.prog, row.done, row.n, "admit")]
  /\ UNCHANGED <<row, queueVars, job, outside, historyVars, used>>

\* acknowledge_recovery: the queue is inspected once more.
Readmit(c) == /\ Is(c, "admit") /\ Quiet
              /\ Put("recovery_admitted", ctl[c].n) /\ To(c, "loop")
              /\ UNCHANGED <<queueVars, job, outside, historyVars, used>>
-----------------------------------------------------------------------------
(* Others at the queue.                                                     *)

OutsideClaim(i) == /\ outside < MaxOutside /\ outside' = outside + 1
                   /\ Take(i, Outsider)
                   /\ UNCHANGED <<ctl, row, job, historyVars, used>>

OutsideResult(i) ==
  /\ claim[i] = Outsider /\ status[i] = "active"
  /\ \E n \in stored[i]..Roles :
       /\ stored' = [stored EXCEPT ![i] = n]
       /\ Do({<<i, r>> : r \in (stored[i] + 1)..n})
       /\ status' = [status EXCEPT ![i] = IF n = Roles THEN "done" ELSE "ready"]
  /\ UNCHANGED <<ctl, row, claim, doubt, job, outside, used>>

\* Mutant of RequeueStale: a claim is queued again although its process is in doubt.
RequeueInDoubt(i) ==
  /\ status[i] = "active" /\ claim[i] \in Controllers /\ Is(claim[i], "ended")
  /\ status' = [status EXCEPT ![i] = "ready"] /\ doubt' = [doubt EXCEPT ![i] = FALSE]
  /\ UNCHANGED <<ctl, row, claim, stored, job, outside, historyVars, used>>

\* requeue_stale_claims: the claim of a controller that is gone, no process in doubt.
RequeueStale(i) ==
  /\ status[i] = "active" /\ claim[i] \in Controllers /\ Is(claim[i], "ended") /\ ~doubt[i]
  /\ status' = [status EXCEPT ![i] = "ready"]
  /\ UNCHANGED <<ctl, row, claim, stored, doubt, job, outside, historyVars, used>>
-----------------------------------------------------------------------------
JournalNext ==
  \/ \E c \in Controllers :
       \/ ObserveEntry(c) \/ Open(c) \/ PublishReady(c)
       \/ Reserve(c) \/ BeforeStep(c) \/ IntendClaim(c)
       \/ Claim(c) \/ MissClaim(c) \/ WriteClaimed(c) \/ WriteMissed(c)
       \/ GrantRoles(c) \/ NoLaunch(c) \/ Launch(c) \/ WorkerRole(c)
       \/ WorkerReturns(c) \/ WriteReturned(c)
       \/ WriteIntent(c) \/ Record(c) \/ WriteRecorded(c) \/ Disagree(c) \/ Settle(c)
       \/ StopCycle(c) \/ StopIntent(c) \/ Finish(c) \/ ControllerDies(c) \/ Tear(c)
       \/ Revalidate(c) \/ Readmit(c)
  \/ \E i \in Work : OutsideClaim(i) \/ OutsideResult(i) \/ RequeueStale(i)

JournalSpec == JournalInit /\ [][JournalNext]_journalVars
-----------------------------------------------------------------------------
DoneOf(i) == {w[2] : w \in {x \in ran : x[1] = i}}

\* However its controllers die and resume, a cycle neither does a role again nor
\* leaves one out: when a worker is about to be launched, every role that was
\* ever done for its item is recorded, and accepted, and where a cycle may be
\* resumed, the receipt has accepted no more than the queue records, and, unless
\* other workers took part, no less.
NeitherRepeatedNorSkipped ==
  /\ ~repeated
  /\ \A c \in Controllers : Is(c, "launch") =>
       LET i == ctl[c].item IN ctl[c].prog[i] = stored[i] /\ DoneOf(i) = 1..stored[i]
  /\ Continuable => \A i \in Work : /\ row.prog[i] <= stored[i]
                                    /\ outside = 0 => row.prog[i] = stored[i]

\* The receipt has the charge of whatever was spent, by all controllers together,
\* and the charge stays within the limits of the cycle.
SpentIsWritten ==
  LET charged == IF row = NoRow THEN Zero ELSE row.n
  IN  /\ \A k \in DOMAIN Zero : used[k] <= charged[k]
      /\ charged.steps <= MaxSteps /\ charged.claims <= MaxClaims /\ charged.roles <= MaxRoles
=============================================================================
