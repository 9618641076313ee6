----------------------------- MODULE HarnessRuns -----------------------------
(***************************************************************************)
(* harness_runs.py: durable runs of one runtime.  A client takes the       *)
(* runtime's lock file, writes the run's record and spawns a detached      *)
(* supervisor; the supervisor runs one worker in a process group of its    *)
(* own, stops it when it exits, is cancelled or out of time, writes the    *)
(* terminal record and removes the lock.  Client and supervisor may die    *)
(* anywhere and writes may fail; a worker outlives its supervisor.         *)
(***************************************************************************)
CONSTANT Runs  \* runs of one runtime (ids are uuid4 in the code)

VARIABLES
  runLock,  \* <runtime>.lock: the run it names
  record,   \* status.json of each run: its status
  marker,   \* the runs that have a cancel.json
  client,   \* where the call of start for each run is
  super,    \* each run's supervisor: its place, why it stops the worker, the outcome in memory
  work      \* each run's worker: its leader, whether it has descendants, whether SIGKILL reached them

runVars == <<runLock, record, marker, client, super, work>>

NoSupervisor == [pc |-> "none", reason |-> "none", outcome |-> "none"]
NoWork == [leader |-> "none", kin |-> FALSE, dying |-> FALSE]

RunsInit ==
  /\ runLock = {}
  /\ record = [r \in Runs |-> "none"]
  /\ marker = {}
  /\ client = [r \in Runs |-> "idle"]
  /\ super = [r \in Runs |-> NoSupervisor]
  /\ work = [r \in Runs |-> NoWork]

Written(r, status) == record' = [record EXCEPT ![r] = status]
-----------------------------------------------------------------------------
(* start, and cancel.                                                       *)

ClientTo(r, pc) == client' = [client EXCEPT ![r] = pc]
OfClient == <<marker, work>>

StartLock(r) ==
  /\ client[r] = "idle" /\ runLock = {}
  /\ runLock' = {r} /\ ClientTo(r, "locked")
  /\ UNCHANGED <<record, super, OfClient>>

\* The lock stays if the run id cannot be written into it.
StartRecord(r) ==
  /\ client[r] = "locked"
  /\ \/ Written(r, "starting") /\ ClientTo(r, "recorded")
     \/ UNCHANGED record /\ client' \in {[client EXCEPT ![r] = "undo"], [client EXCEPT ![r] = "gone"]}
  /\ UNCHANGED <<runLock, super, OfClient>>

Spawn(r) ==
  /\ client[r] = "recorded"
  /\ \/ super' = [super EXCEPT ![r].pc = "admit"] /\ ClientTo(r, "gone")
     \/ UNCHANGED super /\ ClientTo(r, "undo")
  /\ UNCHANGED <<runLock, record, OfClient>>

Undo(r) ==
  /\ client[r] = "undo"
  /\ runLock' = runLock \ {r} /\ ClientTo(r, "undone")
  /\ UNCHANGED <<record, super, OfClient>>

UndoRecord(r) ==
  /\ client[r] = "undone"
  /\ IF record[r] = "none" THEN UNCHANGED record ELSE Written(r, "failed")
  /\ ClientTo(r, "gone")
  /\ UNCHANGED <<runLock, super, OfClient>>

ClientDies(r) ==
  /\ client[r] \in {"locked", "recorded", "undo", "undone"}
  /\ ClientTo(r, "gone")
  /\ UNCHANGED <<runLock, record, super, OfClient>>

\* The record was not terminal when it was read; by now it may be.
Cancel(r) ==
  /\ record[r] # "none"
  /\ marker' = marker \cup {r}
  /\ UNCHANGED <<runLock, record, client, super, work>>

Client(r) == StartRecord(r) \/ Spawn(r) \/ Undo(r) \/ UndoRecord(r)
-----------------------------------------------------------------------------
(* _supervise and _run_worker.                                              *)

In(r, pc) == super[r].pc = pc
SuperTo(r, pc) == super' = [super EXCEPT ![r].pc = pc]
Outcome(r, status) == super' = [super EXCEPT ![r].pc = "report", ![r].outcome = status]
Exits(r) == SuperTo(r, "gone")

Admit(r) ==
  /\ In(r, "admit")
  /\ IF record[r] = "starting" /\ runLock = {r} THEN SuperTo(r, "begin") ELSE Exits(r)
  /\ UNCHANGED <<runLock, record, marker, client, work>>

BeginRun(r) ==
  /\ In(r, "begin")
  /\ \/ r \in marker /\ Outcome(r, "cancelled") /\ UNCHANGED record
     \/ r \notin marker /\ Written(r, "running") /\ SuperTo(r, "launch")
     \/ r \notin marker /\ Exits(r) /\ UNCHANGED record
  /\ UNCHANGED <<runLock, marker, client, work>>

\* The worker starts, or cannot, or its log cannot be created.
LaunchWorker(r) ==
  /\ In(r, "launch")
  /\ \/ work' = [work EXCEPT ![r].leader = "alive"] /\ SuperTo(r, "watch")
     \/ Outcome(r, "failed") /\ UNCHANGED work
     \/ Exits(r) /\ UNCHANGED work
  /\ UNCHANGED <<runLock, record, marker, client>>

\* Mutant of Reason: nothing but the worker's own exit ends the loop.
ReasonExit(r) == IF work[r].leader = "zombie" THEN {"process_exited"} ELSE {}

\* Why the loop ends: cancel.json before the time, the time before the exit.
Reason(r) == IF r \in marker THEN {"cancelled"}
             ELSE {"timed_out"} \cup (IF work[r].leader = "zombie" THEN {"process_exited"} ELSE {})

\* SIGTERM to the group of the leader, which is not reaped.
Watch(r) ==
  /\ In(r, "watch")
  /\ \E why \in Reason(r) : super' = [super EXCEPT ![r].pc = "stop", ![r].reason = why]
  /\ UNCHANGED <<runLock, record, marker, client, work>>

\* Output cannot be read or kept.
OutputFails(r) ==
  /\ super[r].pc \in {"watch", "stop", "drain"}
  /\ SuperTo(r, "abort")
  /\ UNCHANGED <<runLock, record, marker, client, work>>

\* Mutant of Killed: only the leader gets the signal.
KilledLeader(r) == work' = [work EXCEPT ![r].dying = ~work[r].kin]

\* killpg(SIGKILL)
Killed(r) == work' = [work EXCEPT ![r].dying = TRUE]

Stop(r) ==
  /\ In(r, "stop")
  /\ Killed(r) /\ SuperTo(r, "wait")
  /\ UNCHANGED <<runLock, record, marker, client>>

\* child.wait with a timeout.
WaitLeader(r) ==
  /\ In(r, "wait")
  /\ \/ work[r].leader = "zombie" /\ work' = [work EXCEPT ![r].leader = "reaped"] /\ SuperTo(r, "drain")
     \/ work[r].leader = "alive" /\ UNCHANGED work /\ SuperTo(r, "abort")
  /\ UNCHANGED <<runLock, record, marker, client>>

Drain(r) ==
  /\ In(r, "drain")
  /\ IF super[r].reason = "process_exited"
     THEN \E status \in {"stopped", "failed"} : Outcome(r, status)
     ELSE Outcome(r, super[r].reason)
  /\ UNCHANGED <<runLock, record, marker, client, work>>

\* The except branch: SIGKILL, and another wait.
Abort(r) ==
  /\ In(r, "abort")
  /\ Killed(r)
  /\ SuperTo(r, "abort_wait")
  /\ UNCHANGED <<runLock, record, marker, client>>

AbortWait(r) ==
  /\ In(r, "abort_wait")
  /\ work' = [work EXCEPT ![r].leader = IF @ = "zombie" THEN "reaped" ELSE @]
  /\ Outcome(r, "failed")
  /\ UNCHANGED <<runLock, record, marker, client>>

ReportOutcome(r) ==
  /\ In(r, "report")
  /\ \/ Written(r, super[r].outcome) /\ SuperTo(r, "unlock")
     \/ Exits(r) /\ UNCHANGED record
  /\ UNCHANGED <<runLock, marker, client, work>>

Unlock(r) ==
  /\ In(r, "unlock")
  /\ runLock' = runLock \ {r} /\ Exits(r)
  /\ UNCHANGED <<record, marker, client, work>>

Supervise(r) == \/ Admit(r) \/ BeginRun(r) \/ LaunchWorker(r) \/ Watch(r) \/ Stop(r) \/ WaitLeader(r) \/ Drain(r)
                \/ Abort(r) \/ AbortWait(r) \/ ReportOutcome(r) \/ Unlock(r)

SupervisorDies(r) ==
  /\ super[r].pc \notin {"none", "gone", "dead"}
  /\ SuperTo(r, "dead")
  /\ UNCHANGED <<runLock, record, marker, client, work>>

\* The worker forks and exits as it likes; what SIGKILL reached only exits.
WorkerActs(r) ==
  /\ \/ work[r].leader = "alive" /\ work' = [work EXCEPT ![r].leader = "zombie"]
     \/ work[r].leader = "alive" /\ ~work[r].dying /\ ~work[r].kin /\ work' = [work EXCEPT ![r].kin = TRUE]
     \/ work[r].kin /\ work' = [work EXCEPT ![r].kin = FALSE]
  /\ UNCHANGED <<runLock, record, marker, client, super>>

RunsNext == \E r \in Runs : \/ StartLock(r) \/ Client(r) \/ ClientDies(r) \/ Cancel(r)
                            \/ Supervise(r) \/ OutputFails(r) \/ SupervisorDies(r) \/ WorkerActs(r)

\* A call of start and a supervisor that do not die go on: no step of theirs
\* waits for another process longer than its timeout.
RunsFairness == \A r \in Runs : WF_runVars(Client(r)) /\ WF_runVars(Supervise(r))

RunsSpec == RunsInit /\ [][RunsNext]_runVars /\ RunsFairness
-----------------------------------------------------------------------------
Live(r) == (work[r].leader = "alive" \/ work[r].kin) /\ ~work[r].dying

\* A worker that may still act, orphaned or not, runs under the runtime's lock and
\* a record that says it is running: no second run is admitted beside it, and no
\* terminal record is written before its whole group was killed ("one active or
\* unreconciled interface run").
LiveIsLocked == \A r \in Runs : Live(r) => runLock = {r} /\ record[r] = "running"

\* _view: the supervisor is not alive, and was recorded or had the time to be.
Unknown(r) == record[r] \in {"starting", "running"} /\ super[r].pc \in {"none", "gone", "dead"}

\* Whoever holds the runtime's lock gives it back in the end, unless the run
\* is reported unknown, its supervisor died, or its start did.
RuntimeIsFreed ==
  \A r \in Runs : runLock = {r} ~> (runLock # {r} \/ Unknown(r) \/ super[r].pc = "dead"
                                    \/ (client[r] = "gone" /\ record[r] = "none"))
=============================================================================
