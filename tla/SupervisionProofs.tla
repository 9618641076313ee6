-------------------------- MODULE SupervisionProofs --------------------------
(***************************************************************************)
(* What is promised by those who start a child and answer for it, proved   *)
(* for any number of runs, kin and queued items: the harness runs of one   *)
(* runtime, the worker that ends a process group, and the Azure            *)
(* supervisor.  They share no state; each has a theorem of its own.        *)
(***************************************************************************)
EXTENDS ProcessGroup, Supervisor, HarnessRuns, TLAPS

-----------------------------------------------------------------------------
(* HarnessRuns.                                                             *)

Terminal == {"failed", "cancelled", "stopped", "timed_out"}

\* Before the worker exists; while it may run; and once its group was killed.
Unlaunched == {"none", "admit", "begin", "launch"}
Watching == {"launch", "watch", "stop", "wait", "drain", "abort", "abort_wait"}
Stopping == {"wait", "drain", "abort_wait", "report", "unlock"}

RecordType == {"none", "starting", "running"} \cup Terminal
ClientType == {"idle", "locked", "recorded", "undo", "undone", "gone"}
SuperPcs == Unlaunched \cup Watching \cup Stopping \cup {"gone", "dead"}
SuperType == [pc : SuperPcs, reason : {"none", "process_exited", "cancelled", "timed_out"}, outcome : {"none"} \cup Terminal]
WorkType == [leader : {"none", "alive", "zombie", "reaped"}, kin : BOOLEAN, dying : BOOLEAN]

RunsTypeOK ==
  /\ runLock \subseteq Runs
  /\ record \in [Runs -> RecordType]
  /\ marker \subseteq Runs
  /\ client \in [Runs -> ClientType]
  /\ super \in [Runs -> SuperType]
  /\ work \in [Runs -> WorkType]

\* The state of one run: whoever has the lock is its client or its supervisor,
\* and nobody else undoes that ...
LockPlace(r) ==
  client[r] \in {"locked", "recorded", "undo"} \/ super[r].pc \in {"admit", "begin"} \cup Watching \cup Stopping
    => runLock = {r}

\* ... a supervisor exists once the client has spawned it and gone, and from its
\* first report on the record is its own ...
SuperPlace(r) ==
  /\ super[r].pc # "none" => client[r] = "gone"
  /\ super[r].pc \in Watching => record[r] = "running"
  /\ super[r].pc \in {"stop", "wait", "drain"} => super[r].reason # "none"
  /\ super[r].pc = "report" => super[r].outcome # "none"

\* ... and there is no worker before the launch, and none that may act once the
\* supervisor has its outcome.
WorkPlace(r) ==
  /\ super[r].pc \in Unlaunched => work[r] = NoWork
  /\ super[r].pc \in Stopping => ~Live(r)
  /\ Live(r) => runLock = {r} /\ record[r] = "running"

RunInv(r) == LockPlace(r) /\ SuperPlace(r) /\ WorkPlace(r)

RunsInv == RunsTypeOK /\ \A r \in Runs : RunInv(r)

\* A step of one run changes nothing of another one, whose lock it neither takes
\* nor removes.
OneRun(r) ==
  /\ runLock' = runLock \/ runLock' = runLock \ {r} \/ (runLock = {} /\ runLock' = {r})
  /\ \A s \in Runs \ {r} : /\ record'[s] = record[s] /\ client'[s] = client[s]
                           /\ super'[s] = super[s] /\ work'[s] = work[s]

\* A step of one run leaves the others as they were, and the lock of another with it.
LEMMA RunsApart ==
  ASSUME RunsInv, RunsTypeOK', NEW r \in Runs, OneRun(r), RunInv(r)'
  PROVE  RunsInv'
<1>1. ASSUME NEW s \in Runs \ {r} PROVE RunInv(s)'
  <2>1. RunInv(s) BY DEF RunsInv
  <2>2. runLock = {s} => runLock' = {s} BY DEF OneRun
  <2> QED BY <2>1, <2>2 DEF OneRun, RunInv, LockPlace, SuperPlace, WorkPlace, Live
<1> QED BY <1>1 DEF RunsInv

\* No run has been started in the beginning.
LEMMA RunsFirst == RunsInit => RunsInv
<1> SUFFICES ASSUME RunsInit PROVE RunsInv
  OBVIOUS
<1>1. RunsTypeOK
  BY DEF RunsInit, RunsTypeOK, NoSupervisor, NoWork, RecordType, ClientType, SuperType, SuperPcs, WorkType,
         Unlaunched
<1>2. ASSUME NEW r \in Runs PROVE RunInv(r)
  BY DEF RunsInit, RunInv, LockPlace, SuperPlace, WorkPlace, Live, NoSupervisor, NoWork, Watching, Stopping
<1> QED BY <1>1, <1>2 DEF RunsInv

\* What a step of a supervisor, of a client or of a worker makes of the three maps.
LEMMA SuperSteps ==
  ASSUME RunsTypeOK, NEW r \in Runs, NEW pc \in SuperPcs, SuperTo(r, pc)
  PROVE  /\ super' \in [Runs -> SuperType]
         /\ super'[r].pc = pc /\ super'[r].reason = super[r].reason /\ super'[r].outcome = super[r].outcome
         /\ \A s \in Runs \ {r} : super'[s] = super[s]
BY DEF RunsTypeOK, SuperTo, SuperType

\* A supervisor that has an outcome goes on to report it.
LEMMA SuperReports ==
  ASSUME RunsTypeOK, NEW r \in Runs, NEW status \in Terminal, Outcome(r, status)
  PROVE  /\ super' \in [Runs -> SuperType]
         /\ super'[r].pc = "report" /\ super'[r].outcome = status
         /\ \A s \in Runs \ {r} : super'[s] = super[s]
BY DEF RunsTypeOK, Outcome, SuperType, SuperPcs, Stopping

\* A client moves on alone.
LEMMA ClientSteps ==
  ASSUME RunsTypeOK, NEW r \in Runs, NEW pc \in ClientType, ClientTo(r, pc)
  PROVE  client' \in [Runs -> ClientType] /\ client'[r] = pc /\ \A s \in Runs \ {r} : client'[s] = client[s]
BY DEF RunsTypeOK, ClientTo

\* The record of one run is written.
LEMMA RecordSteps ==
  ASSUME RunsTypeOK, NEW r \in Runs, NEW status \in RecordType, Written(r, status)
  PROVE  record' \in [Runs -> RecordType] /\ record'[r] = status /\ \A s \in Runs \ {r} : record'[s] = record[s]
BY DEF RunsTypeOK, Written

\* A client has no supervisor yet, and a step of its own keeps its lock where it
\* goes on to need it.
LEMMA ClientKeeps ==
  ASSUME RunsInv, NEW r \in Runs, super[r].pc = "none",
         NEW pc \in ClientType, ClientTo(r, pc), pc \in {"locked", "recorded", "undo"} => runLock' = {r},
         runLock' = runLock \/ runLock' = runLock \ {r} \/ (runLock = {} /\ runLock' = {r}),
         record' = record \/ \E status \in RecordType : Written(r, status),
         UNCHANGED <<marker, super, work>>
  PROVE  RunsInv'
<1>0. RunsInv /\ RunsTypeOK /\ RunInv(r) BY DEF RunsInv
<1>1. client' \in [Runs -> ClientType] /\ client'[r] = pc /\ \A s \in Runs \ {r} : client'[s] = client[s]
  BY <1>0, ClientSteps
<1>2. record' \in [Runs -> RecordType] /\ \A s \in Runs \ {r} : record'[s] = record[s]
  BY <1>0, RecordSteps DEF RunsTypeOK
<1>3. work[r] = NoWork BY <1>0 DEF RunInv, WorkPlace, Unlaunched
<1>4. RunsTypeOK' BY <1>0, <1>1, <1>2 DEF RunsTypeOK
<1>5. OneRun(r) BY <1>1, <1>2 DEF OneRun
<1>6. LockPlace(r)' BY <1>1 DEF LockPlace, Watching, Stopping
<1>7. SuperPlace(r)' BY DEF SuperPlace, Watching
<1>8. WorkPlace(r)' BY <1>3 DEF WorkPlace, Stopping, Live, NoWork
<1> QED BY <1>0, <1>4, <1>5, <1>6, <1>7, <1>8, RunsApart DEF RunInv

\* A supervisor that ends leaves the lock, unless nothing of its worker may act.
LEMMA SupervisorEnds ==
  ASSUME RunsInv, NEW r \in Runs, super[r].pc # "none",
         NEW pc \in {"gone", "dead"}, SuperTo(r, pc),
         runLock' = runLock \/ (runLock' = runLock \ {r} /\ ~Live(r)),
         UNCHANGED <<record, marker, client, work>>
  PROVE  RunsInv'
<1>0. RunsInv /\ RunsTypeOK /\ RunInv(r) BY DEF RunsInv
<1>1. /\ super' \in [Runs -> SuperType]
      /\ super'[r].pc = pc
      /\ \A s \in Runs \ {r} : super'[s] = super[s]
  BY <1>0, SuperSteps DEF SuperPcs
<1>2. RunsTypeOK' BY <1>0, <1>1 DEF RunsTypeOK
<1>3. OneRun(r) BY <1>1 DEF OneRun
<1>4. client[r] = "gone" BY <1>0 DEF RunInv, SuperPlace
<1>5. LockPlace(r)' BY <1>1, <1>4 DEF LockPlace, Watching, Stopping
<1>6. SuperPlace(r)' BY <1>1, <1>4 DEF SuperPlace, Watching
<1>7. WorkPlace(r)' BY <1>0, <1>1 DEF RunInv, WorkPlace, Unlaunched, Stopping, Live
<1> QED BY <1>0, <1>2, <1>3, <1>5, <1>6, <1>7, RunsApart DEF RunInv

\* A supervisor that goes on keeps the lock.
LEMMA SupervisorGoesOn ==
  ASSUME RunsInv, NEW r \in Runs, super[r].pc \in {"admit", "begin"} \cup Watching \cup Stopping,
         super' \in [Runs -> SuperType], super'[r].pc \notin {"none", "admit"},
         \A s \in Runs \ {r} : super'[s] = super[s],
         super'[r].pc \in {"stop", "wait", "drain"} => super'[r].reason # "none",
         super'[r].pc = "report" => super'[r].outcome # "none",
         record' \in [Runs -> RecordType], \A s \in Runs \ {r} : record'[s] = record[s],
         super'[r].pc \in Watching => record'[r] = "running",
         work' \in [Runs -> WorkType], \A s \in Runs \ {r} : work'[s] = work[s],
         WorkPlace(r)',
         UNCHANGED <<runLock, marker, client>>
  PROVE  RunsInv'
<1>0. RunsInv /\ RunsTypeOK /\ RunInv(r) BY DEF RunsInv
<1>1. client[r] = "gone" /\ runLock = {r}
  BY <1>0 DEF RunInv, SuperPlace, LockPlace, Watching, Stopping
<1>2. RunsTypeOK' BY <1>0 DEF RunsTypeOK
<1>3. OneRun(r) BY DEF OneRun
<1>4. LockPlace(r)' BY <1>1 DEF LockPlace
<1>5. SuperPlace(r)' BY <1>1 DEF SuperPlace
<1> QED BY <1>0, <1>2, <1>3, <1>4, <1>5, RunsApart DEF RunInv

\* The steps of a client.
LEMMA RunsClient ==
  ASSUME RunsInv, NEW r \in Runs, StartLock(r) \/ Client(r) \/ ClientDies(r) \/ Cancel(r)
  PROVE  RunsInv'
<1>0. RunsInv /\ RunsTypeOK /\ RunInv(r) BY DEF RunsInv
<1>1. client[r] # "gone" => super[r].pc = "none" BY <1>0 DEF RunInv, SuperPlace
<1>2. client[r] \in {"locked", "recorded", "undo"} => runLock = {r} BY <1>0 DEF RunInv, LockPlace
<1>3. CASE StartLock(r)
  BY <1>0, <1>1, <1>3, ClientKeeps DEF StartLock, OfClient, ClientType
<1>4. CASE StartRecord(r)
  <2>1. Written(r, "starting") \/ UNCHANGED record BY <1>4 DEF StartRecord
  <2>2. ClientTo(r, "recorded") \/ ClientTo(r, "undo") \/ ClientTo(r, "gone") BY <1>4 DEF StartRecord, ClientTo
  <2>3. client[r] = "locked" /\ UNCHANGED <<runLock, marker, super, work>> BY <1>4 DEF StartRecord, OfClient
  <2> QED BY <1>0, <1>1, <1>2, <2>1, <2>2, <2>3, ClientKeeps DEF ClientType, RecordType
<1>5. CASE Undo(r)
  BY <1>0, <1>1, <1>2, <1>5, ClientKeeps DEF Undo, OfClient, ClientType
<1>6. CASE UndoRecord(r)
  BY <1>0, <1>1, <1>6, ClientKeeps DEF UndoRecord, OfClient, ClientType, RecordType, Terminal
<1>7. CASE ClientDies(r)
  BY <1>0, <1>1, <1>7, ClientKeeps DEF ClientDies, OfClient, ClientType
<1>8. CASE Cancel(r)
  <2>1. RunsTypeOK' BY <1>0, <1>8 DEF Cancel, RunsTypeOK
  <2>2. UNCHANGED <<runLock, record, client, super, work>> BY <1>8 DEF Cancel
  <2> QED BY <1>0, <2>1, <2>2 DEF RunsInv, RunInv, LockPlace, SuperPlace, WorkPlace, Live
<1>9. CASE Spawn(r)
  <2>0. client[r] = "recorded" /\ runLock = {r} /\ super[r].pc = "none" /\ UNCHANGED <<runLock, record, marker, work>>
    BY <1>1, <1>2, <1>9 DEF Spawn, OfClient
  <2>1. CASE UNCHANGED super /\ ClientTo(r, "undo")
    BY <1>0, <2>0, <2>1, ClientKeeps DEF ClientType
  <2>2. CASE SuperTo(r, "admit") /\ ClientTo(r, "gone")
    <3>1. /\ super' \in [Runs -> SuperType]
          /\ super'[r].pc = "admit"
          /\ \A s \in Runs \ {r} : super'[s] = super[s]
      BY <1>0, <2>2, SuperSteps DEF SuperPcs, Unlaunched
    <3>2. client' \in [Runs -> ClientType] /\ client'[r] = "gone" /\ \A s \in Runs \ {r} : client'[s] = client[s]
      BY <1>0, <2>2, ClientSteps DEF ClientType
    <3>3. RunsTypeOK' BY <1>0, <2>0, <3>1, <3>2 DEF RunsTypeOK
    <3>4. OneRun(r) BY <2>0, <3>1, <3>2 DEF OneRun
    <3>5. LockPlace(r)' BY <2>0 DEF LockPlace
    <3>6. SuperPlace(r)' BY <3>1, <3>2 DEF SuperPlace, Watching
    <3>7. WorkPlace(r)'
      <4>1. work'[r] = NoWork BY <1>0, <2>0 DEF RunInv, WorkPlace, Unlaunched
      <4> QED BY <3>1, <4>1 DEF WorkPlace, Stopping, Live, NoWork
    <3> QED BY <1>0, <3>3, <3>4, <3>5, <3>6, <3>7, RunsApart DEF RunInv
  <2> QED BY <1>9, <2>1, <2>2 DEF Spawn, SuperTo
<1> QED BY <1>3, <1>4, <1>5, <1>6, <1>7, <1>8, <1>9 DEF Client

\* The steps of a supervisor.
LEMMA RunsSupervisor ==
  ASSUME RunsInv, NEW r \in Runs, Supervise(r) \/ OutputFails(r) \/ SupervisorDies(r)
  PROVE  RunsInv'
<1> DEFINE Place == {"admit", "begin"} \cup Watching \cup Stopping
           Elsewhere == UNCHANGED <<runLock, marker, client>>
           WorkStays == work' = work
           RecordStays == record' = record
<1>0. /\ RunsInv /\ RunsTypeOK /\ RunInv(r)
      /\ record \in [Runs -> RecordType] /\ work \in [Runs -> WorkType] /\ super \in [Runs -> SuperType]
  BY DEF RunsInv, RunsTypeOK
<1>1. super[r].pc \in Watching => record[r] = "running" BY <1>0 DEF RunInv, SuperPlace
<1>2. super[r].pc \in Unlaunched => work[r] = NoWork BY <1>0 DEF RunInv, WorkPlace
<1>3. super[r].pc \in Stopping => ~Live(r) BY <1>0 DEF RunInv, WorkPlace
<1>4. super[r].pc \in Place => runLock = {r} BY <1>0 DEF RunInv, LockPlace
<1>e. ASSUME super[r].pc # "none", Exits(r) \/ SuperTo(r, "dead"), Elsewhere, WorkStays, RecordStays PROVE RunsInv'
  BY <1>0, <1>e, SupervisorEnds DEF Exits
\* The worker is not there yet, or nothing of it may act any more.
<1>r. ASSUME super[r].pc \in Place, NEW status \in Terminal, Outcome(r, status), Elsewhere, RecordStays,
             work' \in [Runs -> WorkType], \A s \in Runs \ {r} : work'[s] = work[s],
             ~(work'[r].leader = "alive" \/ work'[r].kin) \/ work'[r].dying
      PROVE  RunsInv'
  <2>1. /\ super' \in [Runs -> SuperType]
        /\ super'[r].pc = "report" /\ super'[r].outcome # "none"
        /\ \A s \in Runs \ {r} : super'[s] = super[s]
    BY <1>0, <1>r, SuperReports DEF Terminal
  <2>2. WorkPlace(r)' BY <1>r, <2>1 DEF WorkPlace, Unlaunched, Live
  <2> QED BY <1>0, <1>r, <2>1, <2>2, SupervisorGoesOn DEF Watching, Stopping
<1>5. CASE Admit(r)
  <2>1. CASE Exits(r) BY <1>5, <1>e, <2>1 DEF Admit, In
  <2>2. CASE SuperTo(r, "begin")
    <3>1. /\ super' \in [Runs -> SuperType] /\ super'[r].pc = "begin"
          /\ \A s \in Runs \ {r} : super'[s] = super[s]
      BY <1>0, <2>2, SuperSteps DEF SuperPcs, Unlaunched
    <3>2. super[r].pc = "admit" /\ Elsewhere /\ WorkStays /\ RecordStays BY <1>5 DEF Admit, In
    <3>3. WorkPlace(r)' BY <1>2, <3>1, <3>2 DEF WorkPlace, Unlaunched, Stopping, Live, NoWork
    <3> QED BY <1>0, <3>1, <3>2, <3>3, SupervisorGoesOn DEF Watching
  <2> QED BY <1>5, <2>1, <2>2 DEF Admit
<1>6. CASE BeginRun(r)
  <2>0. super[r].pc = "begin" /\ Elsewhere /\ WorkStays /\ work[r] = NoWork BY <1>2, <1>6 DEF BeginRun, In, Unlaunched
  <2>1. CASE Exits(r) /\ RecordStays BY <1>e, <2>0, <2>1
  <2>2. CASE Outcome(r, "cancelled") /\ RecordStays BY <1>0, <1>r, <2>0, <2>2 DEF Terminal, NoWork
  <2>3. CASE Written(r, "running") /\ SuperTo(r, "launch")
    <3>1. /\ super' \in [Runs -> SuperType] /\ super'[r].pc = "launch"
          /\ \A s \in Runs \ {r} : super'[s] = super[s]
      BY <1>0, <2>3, SuperSteps DEF SuperPcs, Unlaunched
    <3>2. record' \in [Runs -> RecordType] /\ record'[r] = "running" /\ \A s \in Runs \ {r} : record'[s] = record[s]
      BY <1>0, <2>3, RecordSteps DEF RecordType
    <3>3. WorkPlace(r)' BY <2>0, <3>1 DEF WorkPlace, Stopping, Live, NoWork
    <3> QED BY <1>0, <2>0, <3>1, <3>2, <3>3, SupervisorGoesOn
  <2> QED BY <1>6, <2>1, <2>2, <2>3 DEF BeginRun
<1>7. CASE LaunchWorker(r)
  <2>0. super[r].pc = "launch" /\ Elsewhere /\ RecordStays /\ work[r] = NoWork BY <1>2, <1>7 DEF LaunchWorker, In, Unlaunched
  <2>1. CASE Exits(r) /\ WorkStays BY <1>e, <2>0, <2>1
  <2>2. CASE Outcome(r, "failed") /\ WorkStays BY <1>0, <1>r, <2>0, <2>2 DEF Terminal, NoWork, Watching
  <2>3. CASE work' = [work EXCEPT ![r].leader = "alive"] /\ SuperTo(r, "watch")
    <3>1. /\ super' \in [Runs -> SuperType] /\ super'[r].pc = "watch"
          /\ \A s \in Runs \ {r} : super'[s] = super[s]
      BY <1>0, <2>3, SuperSteps DEF SuperPcs, Watching
    <3>2. work' \in [Runs -> WorkType] /\ \A s \in Runs \ {r} : work'[s] = work[s]
      BY <1>0, <2>3 DEF WorkType
    <3>3. WorkPlace(r)' BY <1>1, <1>4, <2>0, <3>1 DEF WorkPlace, Unlaunched, Stopping, Watching
    <3> QED BY <1>0, <1>1, <2>0, <3>1, <3>2, <3>3, SupervisorGoesOn DEF Watching
  <2> QED BY <1>7, <2>1, <2>2, <2>3 DEF LaunchWorker
<1>8. CASE Watch(r)
  <2>0. super[r].pc = "watch" /\ Elsewhere /\ WorkStays /\ RecordStays BY <1>8 DEF Watch, In
  <2>1. PICK why \in Reason(r) : super' = [super EXCEPT ![r].pc = "stop", ![r].reason = why] BY <1>8 DEF Watch
  <2>2. why \in {"process_exited", "cancelled", "timed_out"} BY DEF Reason
  <2>3. /\ super' \in [Runs -> SuperType] /\ super'[r].pc = "stop" /\ super'[r].reason # "none"
        /\ \A s \in Runs \ {r} : super'[s] = super[s]
    BY <1>0, <2>1, <2>2 DEF SuperType, SuperPcs, Watching
  <2>4. WorkPlace(r)' BY <1>1, <1>4, <2>0, <2>3 DEF WorkPlace, Unlaunched, Stopping, Watching
  <2> QED BY <1>0, <1>1, <2>0, <2>3, <2>4, SupervisorGoesOn DEF Watching
\* SIGKILL reaches the whole group, and nothing of it may act from then on.
<1>k. ASSUME super[r].pc \in Watching, NEW pc \in {"wait", "abort_wait"}, Killed(r), SuperTo(r, pc), Elsewhere, RecordStays,
             pc = "wait" => super[r].reason # "none"
      PROVE  RunsInv'
  <2>1. /\ super' \in [Runs -> SuperType] /\ super'[r].pc = pc /\ super'[r].reason = super[r].reason
        /\ \A s \in Runs \ {r} : super'[s] = super[s]
    BY <1>0, <1>k, SuperSteps DEF SuperPcs, Stopping
  <2>2. work' \in [Runs -> WorkType] /\ work'[r].dying /\ \A s \in Runs \ {r} : work'[s] = work[s]
    BY <1>0, <1>k DEF Killed, WorkType
  <2>3. WorkPlace(r)' BY <2>1, <2>2 DEF WorkPlace, Unlaunched, Live
  <2> QED BY <1>0, <1>1, <1>k, <2>1, <2>2, <2>3, SupervisorGoesOn
<1>9. CASE Stop(r)
  <2>1. super[r].pc = "stop" /\ super[r].reason # "none" BY <1>0, <1>9 DEF Stop, In, RunInv, SuperPlace
  <2> QED BY <1>9, <1>k, <2>1 DEF Stop, Watching
<1>10. CASE WaitLeader(r)
  <2>0. super[r].pc = "wait" /\ super[r].reason # "none" /\ record[r] = "running" /\ ~Live(r) /\ Elsewhere /\ RecordStays
    BY <1>0, <1>1, <1>3, <1>10 DEF WaitLeader, In, RunInv, SuperPlace, Watching, Stopping
  <2>1. PICK pc \in {"drain", "abort"} : SuperTo(r, pc) BY <1>10 DEF WaitLeader
  <2>2. /\ super' \in [Runs -> SuperType] /\ super'[r].pc = pc /\ super'[r].reason = super[r].reason
        /\ \A s \in Runs \ {r} : super'[s] = super[s]
    BY <1>0, <2>1, SuperSteps DEF SuperPcs, Watching
  <2>3. work' = work \/ (work[r].leader = "zombie" /\ work' = [work EXCEPT ![r].leader = "reaped"])
    BY <1>10 DEF WaitLeader
  <2>4. /\ work' \in [Runs -> WorkType] /\ \A s \in Runs \ {r} : work'[s] = work[s]
        /\ work'[r].dying = work[r].dying /\ work'[r].kin = work[r].kin /\ work'[r].leader \in {work[r].leader, "reaped"}
    BY <1>0, <2>3 DEF WorkType
  <2>5. WorkPlace(r)' BY <2>0, <2>2, <2>4 DEF WorkPlace, Unlaunched, Live
  <2> QED BY <1>0, <2>0, <2>2, <2>4, <2>5, SupervisorGoesOn DEF Watching
<1>11. CASE Drain(r)
  <2>0. super[r].pc = "drain" /\ super[r].reason # "none" /\ ~Live(r) /\ Elsewhere /\ WorkStays /\ RecordStays
    BY <1>0, <1>3, <1>11 DEF Drain, In, RunInv, SuperPlace, Stopping
  <2>1. super[r].reason \in {"process_exited", "cancelled", "timed_out"} BY <1>0, <2>0 DEF SuperType
  <2>2. PICK status \in Terminal : Outcome(r, status) BY <1>11, <2>1 DEF Drain, Terminal
  <2> QED BY <1>0, <1>r, <2>0, <2>2 DEF Watching, Live
<1>12. CASE Abort(r)
  BY <1>12, <1>k DEF Abort, In, Watching
<1>13. CASE AbortWait(r)
  <2>0. super[r].pc = "abort_wait" /\ ~Live(r) /\ Elsewhere /\ RecordStays /\ Outcome(r, "failed")
    BY <1>3, <1>13 DEF AbortWait, In, Stopping
  <2>1. work' = work \/ work' = [work EXCEPT ![r].leader = "reaped"] \/ work' = [work EXCEPT ![r].leader = work[r].leader]
    BY <1>13 DEF AbortWait
  <2>2. /\ work' \in [Runs -> WorkType] /\ \A s \in Runs \ {r} : work'[s] = work[s]
        /\ work'[r].dying = work[r].dying /\ work'[r].kin = work[r].kin /\ work'[r].leader \in {work[r].leader, "reaped"}
    BY <1>0, <2>1 DEF WorkType
  <2> QED BY <1>r, <2>0, <2>2 DEF Watching, Terminal, Live
<1>14. CASE ReportOutcome(r)
  <2>0. super[r].pc = "report" /\ super[r].outcome # "none" /\ ~Live(r) /\ Elsewhere /\ WorkStays
    BY <1>0, <1>3, <1>14 DEF ReportOutcome, In, RunInv, SuperPlace, Stopping
  <2>1. CASE Exits(r) /\ RecordStays BY <1>e, <2>0, <2>1
  <2>2. CASE Written(r, super[r].outcome) /\ SuperTo(r, "unlock")
    <3>1. /\ super' \in [Runs -> SuperType] /\ super'[r].pc = "unlock"
          /\ \A s \in Runs \ {r} : super'[s] = super[s]
      BY <1>0, <2>2, SuperSteps DEF SuperPcs, Stopping
    <3>2. super[r].outcome \in RecordType BY <1>0, <2>0 DEF SuperType, RecordType
    <3>3. record' \in [Runs -> RecordType] /\ \A s \in Runs \ {r} : record'[s] = record[s]
      BY <1>0, <2>2, <3>2, RecordSteps
    <3>4. WorkPlace(r)' BY <2>0, <3>1 DEF WorkPlace, Unlaunched, Live
    <3> QED BY <1>0, <2>0, <3>1, <3>3, <3>4, SupervisorGoesOn DEF Watching, Stopping
  <2> QED BY <1>14, <2>1, <2>2 DEF ReportOutcome
<1>15. CASE Unlock(r)
  BY <1>0, <1>3, <1>15, SupervisorEnds DEF Unlock, In, Exits, Stopping
<1>16. CASE OutputFails(r)
  <2>0. super[r].pc \in Watching /\ Elsewhere /\ WorkStays /\ RecordStays BY <1>16 DEF OutputFails, Watching
  <2>1. /\ super' \in [Runs -> SuperType] /\ super'[r].pc = "abort"
        /\ \A s \in Runs \ {r} : super'[s] = super[s]
    BY <1>0, <1>16, SuperSteps DEF OutputFails, SuperPcs, Watching
  <2>2. WorkPlace(r)' BY <1>1, <1>4, <2>0, <2>1 DEF WorkPlace, Unlaunched, Stopping
  <2> QED BY <1>0, <1>1, <2>0, <2>1, <2>2, SupervisorGoesOn
<1>17. CASE SupervisorDies(r)
  BY <1>17, <1>e DEF SupervisorDies
<1> QED BY <1>5, <1>6, <1>7, <1>8, <1>9, <1>10, <1>11, <1>12, <1>13, <1>14, <1>15, <1>16, <1>17 DEF Supervise

\* The worker forks and exits, orphaned or not; what SIGKILL reached, or has no
\* process left, stays that way.
LEMMA RunsWorker ==
  ASSUME RunsInv, NEW r \in Runs, WorkerActs(r)
  PROVE  RunsInv'
<1>0. RunsInv /\ RunsTypeOK /\ RunInv(r) /\ work \in [Runs -> WorkType] BY DEF RunsInv, RunsTypeOK
<1>1. UNCHANGED <<runLock, record, marker, client, super>> BY DEF WorkerActs
<1>2. /\ work' \in [Runs -> WorkType] /\ \A s \in Runs \ {r} : work'[s] = work[s]
      /\ work[r] # NoWork /\ (Live(r)' => Live(r))
  <2>1. CASE work[r].leader = "alive" /\ work' = [work EXCEPT ![r].leader = "zombie"]
    BY <1>0, <2>1 DEF WorkType, Live, NoWork
  <2>2. CASE work[r].leader = "alive" /\ ~work[r].dying /\ work' = [work EXCEPT ![r].kin = TRUE]
    <3>1. work' \in [Runs -> WorkType] /\ \A s \in Runs \ {r} : work'[s] = work[s]
      BY <1>0, <2>2 DEF WorkType
    <3>2. work'[r].kin = TRUE /\ work'[r].leader = work[r].leader /\ work'[r].dying = work[r].dying
      BY <1>0, <2>2 DEF WorkType
    <3>3. work[r] # NoWork BY <2>2 DEF NoWork
    <3> QED BY <2>2, <3>1, <3>2, <3>3 DEF Live
  <2>3. CASE work[r].kin /\ work' = [work EXCEPT ![r].kin = FALSE]
    <3>1. work' \in [Runs -> WorkType] /\ \A s \in Runs \ {r} : work'[s] = work[s]
      BY <1>0, <2>3 DEF WorkType
    <3>2. work'[r].kin = FALSE /\ work'[r].leader = work[r].leader /\ work'[r].dying = work[r].dying
      BY <1>0, <2>3 DEF WorkType
    <3>3. work[r] # NoWork BY <2>3 DEF NoWork
    <3> QED BY <2>3, <3>1, <3>2, <3>3 DEF Live
  <2> QED BY <2>1, <2>2, <2>3 DEF WorkerActs
<1>3. RunsTypeOK' BY <1>0, <1>1, <1>2 DEF RunsTypeOK
<1>4. OneRun(r) BY <1>1, <1>2 DEF OneRun
<1>5. LockPlace(r)' BY <1>0, <1>1 DEF RunInv, LockPlace
<1>6. SuperPlace(r)' BY <1>0, <1>1 DEF RunInv, SuperPlace
<1>7. WorkPlace(r)' BY <1>0, <1>1, <1>2 DEF RunInv, WorkPlace
<1> QED BY <1>0, <1>3, <1>4, <1>5, <1>6, <1>7, RunsApart DEF RunInv

\* A worker that may still act, orphaned or not, runs under the runtime's lock and
\* a record that says it is running.
THEOREM RunsAreLocked == RunsSpec => []LiveIsLocked
<1>1. RunsInit => RunsInv BY RunsFirst
<1>2. RunsInv /\ [RunsNext]_runVars => RunsInv'
  <2> SUFFICES ASSUME RunsInv, [RunsNext]_runVars PROVE RunsInv'
    OBVIOUS
  <2>1. CASE RunsNext BY <2>1, RunsClient, RunsSupervisor, RunsWorker DEF RunsNext
  <2>2. CASE UNCHANGED runVars
    BY <2>2 DEF runVars, RunsInv, RunsTypeOK, RunInv, LockPlace, SuperPlace, WorkPlace, Live
  <2> QED BY <2>1, <2>2
<1>3. RunsInv => LiveIsLocked BY DEF RunsInv, RunInv, WorkPlace, LiveIsLocked
<1> QED BY <1>1, <1>2, <1>3, PTL DEF RunsSpec

-----------------------------------------------------------------------------
(* ProcessGroup.                                                            *)

Signalling == {"send_term", "send_kill", "send_kill_again", "emergency_kill"}
BossPcs == {"poll", "check", "list", "scan", "probe", "term", "grace", "kill", "wait", "last", "kill_again",
            "wait_again", "emergency", "emergency_wait", "done"} \cup Signalling
BossType == [pc : BossPcs, exited : BOOLEAN, interrupted : BOOLEAN, todo : SUBSET Kin, unread : BOOLEAN,
             how : {"none", "custody_lost", "observed", "absent", "present", "unknown"}]

GroupTypeOK ==
  /\ leader \in [state : {"alive", "zombie", "reaped"}, dying : BOOLEAN]
  /\ kin \in [Kin -> {"unborn", "alive", "dying", "gone"}]
  /\ boss \in BossType
  /\ late \subseteq Kin
  /\ stray \in BOOLEAN /\ kept \in BOOLEAN

\* Where a signal is next, custody was seen; and nobody but the worker reaps.
CustodyHolds == kept => ~stray /\ (boss.pc \in Signalling => ~Reaped)

\* The leader was waited for before the last probe.
WaitedFor == boss.pc = "last" => Reaped

\* What the scan has still to read, or what forked since, is all that lives, unless
\* a file could not be read.
ScanCovers == boss.pc = "scan" /\ ~boss.unread => Living \subseteq late \cup boss.todo

\* A verdict that the group is gone is final.
VerdictHolds ==
  /\ boss.how \in {"absent", "observed"} => boss.pc = "done" /\ Reaped
  /\ boss.how = "absent" => Living = {}
  /\ boss.how = "observed" => Living \subseteq late

GroupInv == GroupTypeOK /\ CustodyHolds /\ WaitedFor /\ ScanCovers /\ VerdictHolds

\* In the beginning only the leader runs, and it is watched.
LEMMA GroupFirst == GroupInit => GroupInv
<1> SUFFICES ASSUME GroupInit PROVE GroupInv
  OBVIOUS
<1>1. GroupTypeOK BY DEF GroupInit, GroupTypeOK, NoBoss, BossType, BossPcs
<1>2. boss.pc = "poll" /\ boss.how = "none" /\ ~stray BY DEF GroupInit, NoBoss
<1> QED BY <1>1, <1>2 DEF GroupInv, CustodyHolds, WaitedFor, ScanCovers, VerdictHolds, Signalling

\* The processes of the group: who is not alive forks nobody, and what forks is late.
LEMMA GroupActs == GroupInv /\ Group => GroupInv'
<1> SUFFICES ASSUME GroupInv, Group PROVE GroupInv'
  OBVIOUS
<1>0. GroupTypeOK /\ CustodyHolds /\ WaitedFor /\ ScanCovers /\ VerdictHolds BY DEF GroupInv
<1>1. UNCHANGED <<boss, stray, kept>> BY DEF Group, ExitLeader, Fork, ExitKin
<1>2. CASE ExitLeader
  <2>1. UNCHANGED <<kin, late>> /\ Living' = Living BY <1>2 DEF ExitLeader, Living
  <2>2. GroupTypeOK' /\ ~Reaped /\ (kept => ~Reaped')
    BY <1>0, <1>1, <1>2 DEF ExitLeader, GroupTypeOK, Reaped
  <2>3. CustodyHolds' BY <1>0, <1>1, <2>2 DEF CustodyHolds
  <2>4. WaitedFor' /\ VerdictHolds' BY <1>0, <1>1, <2>1, <2>2 DEF WaitedFor, VerdictHolds
  <2>5. ScanCovers' BY <1>0, <1>1, <2>1 DEF ScanCovers
  <2> QED BY <2>2, <2>3, <2>4, <2>5 DEF GroupInv
<1>3. ASSUME NEW k \in Kin, Fork(k) PROVE GroupInv'
  <2>1. UNCHANGED leader /\ late' = late \cup {k} /\ Reaped' = Reaped BY <1>3 DEF Fork, Reaped
  <2>2. GroupTypeOK' BY <1>0, <1>1, <1>3, <2>1 DEF Fork, GroupTypeOK
  <2>3. Living' = Living \cup {k} BY <1>0, <1>3 DEF Fork, GroupTypeOK, Living
  <2>4. ~Reaped \/ Living # {} BY <1>3 DEF Fork, CanFork, Reaped, Living
  <2>5. CustodyHolds' /\ WaitedFor' BY <1>0, <1>1, <2>1 DEF CustodyHolds, WaitedFor
  <2>6. ScanCovers' BY <1>0, <1>1, <2>1, <2>3 DEF ScanCovers
  <2>7. VerdictHolds' BY <1>0, <1>1, <2>1, <2>3, <2>4 DEF VerdictHolds
  <2> QED BY <2>2, <2>5, <2>6, <2>7 DEF GroupInv
<1>4. ASSUME NEW k \in Kin, ExitKin(k) PROVE GroupInv'
  <2>1. UNCHANGED <<leader, late>> /\ Reaped' = Reaped BY <1>4 DEF ExitKin, Reaped
  <2>2. GroupTypeOK' BY <1>0, <1>1, <1>4, <2>1 DEF ExitKin, GroupTypeOK
  <2>3. Living' \subseteq Living BY <1>0, <1>4 DEF ExitKin, GroupTypeOK, Living
  <2>4. CustodyHolds' /\ WaitedFor' BY <1>0, <1>1, <2>1 DEF CustodyHolds, WaitedFor
  <2>5. ScanCovers' BY <1>0, <1>1, <2>1, <2>3 DEF ScanCovers
  <2>6. VerdictHolds' BY <1>0, <1>1, <2>1, <2>3 DEF VerdictHolds
  <2> QED BY <2>2, <2>4, <2>5, <2>6 DEF GroupInv
<1> QED BY <1>2, <1>3, <1>4 DEF Group

\* The worker goes on: to a signal, which custody allows; to the last probe, of a
\* reaped leader; not to a scan.
LEMMA BossGoesOn ==
  ASSUME GroupInv, boss' \in BossType, boss'.pc # "scan", boss'.how = boss.how, boss.how \notin {"absent", "observed"},
         leader' \in [state : {"alive", "zombie", "reaped"}, dying : BOOLEAN],
         kin' \in [Kin -> {"unborn", "alive", "dying", "gone"}],
         stray' \in BOOLEAN, stray' => stray \/ ~kept,
         boss'.pc \in Signalling => ~Reaped', boss'.pc = "last" => Reaped',
         UNCHANGED <<late, kept>>
  PROVE  GroupInv'
<1>0. GroupTypeOK /\ CustodyHolds /\ WaitedFor /\ ScanCovers /\ VerdictHolds BY DEF GroupInv
<1>1. GroupTypeOK' BY <1>0 DEF GroupTypeOK
<1>2. CustodyHolds' BY <1>0 DEF CustodyHolds
<1>3. WaitedFor' BY DEF WaitedFor
<1>4. ScanCovers' BY DEF ScanCovers
<1>5. VerdictHolds' BY DEF VerdictHolds
<1> QED BY <1>1, <1>2, <1>3, <1>4, <1>5 DEF GroupInv

\* The worker ends, with a verdict that is true at that moment.
LEMMA BossEnds ==
  ASSUME GroupInv, NEW how \in {"custody_lost", "observed", "absent", "present", "unknown"}, End(how),
         leader' \in [state : {"alive", "zombie", "reaped"}, dying : BOOLEAN],
         how \in {"absent", "observed"} => Reaped',
         how = "absent" => Living = {},
         how = "observed" => Living \subseteq late,
         UNCHANGED <<kin, late, stray, kept>>
  PROVE  GroupInv'
<1>0. GroupTypeOK /\ CustodyHolds /\ WaitedFor /\ ScanCovers /\ VerdictHolds BY DEF GroupInv
<1>1. boss' \in BossType /\ boss'.pc = "done" /\ boss'.how = how BY <1>0 DEF End, GroupTypeOK, BossType, BossPcs
<1>2. Living' = Living BY DEF Living
<1>3. GroupTypeOK' BY <1>0, <1>1 DEF GroupTypeOK
<1>4. CustodyHolds' BY <1>0, <1>1 DEF CustodyHolds, Signalling
<1>5. WaitedFor' BY <1>1 DEF WaitedFor
<1>6. ScanCovers' BY <1>1 DEF ScanCovers
<1>7. VerdictHolds' BY <1>1, <1>2 DEF VerdictHolds
<1> QED BY <1>3, <1>4, <1>5, <1>6, <1>7 DEF GroupInv

\* The steps of the worker, one for each place it can be at.
LEMMA BossActs == GroupInv /\ Worker => GroupInv'
<1> SUFFICES ASSUME GroupInv, Worker PROVE GroupInv'
  OBVIOUS
<1> DEFINE LeaderType == [state : {"alive", "zombie", "reaped"}, dying : BOOLEAN]
           KinType == [Kin -> {"unborn", "alive", "dying", "gone"}]
           Aside == UNCHANGED <<leader, kin, late, stray, kept>>
<1>0. /\ GroupTypeOK /\ CustodyHolds /\ WaitedFor /\ ScanCovers /\ VerdictHolds
      /\ leader \in LeaderType /\ kin \in KinType /\ boss \in BossType /\ stray \in BOOLEAN /\ kept \in BOOLEAN
  BY DEF GroupInv, GroupTypeOK
<1>u. boss.pc # "done" => boss.how \notin {"absent", "observed"} BY <1>0 DEF VerdictHolds
<1>g. ASSUME NEW pc \in BossPcs, Go(pc) PROVE boss' \in BossType /\ boss'.pc = pc /\ boss'.how = boss.how
  BY <1>0, <1>g DEF Go, BossType
\* It looks, or goes on, and touches nothing.
<1>a. ASSUME boss.pc # "done", NEW pc \in BossPcs \ {"scan"}, Go(pc), Aside,
             pc \in Signalling => ~Reaped, pc = "last" => Reaped
      PROVE  GroupInv'
  <2>1. boss' \in BossType /\ boss'.pc = pc /\ boss'.how = boss.how BY <1>a, <1>g
  <2>2. Reaped' = Reaped BY <1>a DEF Reaped
  <2> QED BY <1>0, <1>u, <1>a, <2>1, <2>2, BossGoesOn
\* It ends without a verdict.
<1>e. ASSUME NEW how \in {"custody_lost", "present", "unknown"}, End(how), leader' \in LeaderType,
             UNCHANGED <<kin, late, stray, kept>>
      PROVE  GroupInv'
  BY <1>e, BossEnds
<1>1. CASE Poll
  <2>0. boss.pc = "poll" /\ Aside BY <1>1 DEF Poll, At
  <2>1. CASE Go("check") BY <1>a, <2>0, <2>1 DEF BossPcs, Signalling
  <2>2. CASE End("custody_lost") BY <1>0, <1>e, <2>0, <2>2
  <2>3. CASE boss' = [boss EXCEPT !.pc = "check", !.exited = TRUE]
    <3>1. boss' \in BossType /\ boss'.pc = "check" /\ boss'.how = boss.how BY <1>0, <2>3 DEF BossType, BossPcs
    <3> QED BY <1>0, <1>u, <2>0, <3>1, BossGoesOn DEF Signalling
  <2> QED BY <1>1, <2>1, <2>2, <2>3 DEF Poll
<1>2. CASE Check
  <2>0. boss.pc = "check" /\ Aside BY <1>2 DEF Check, At
  <2>1. CASE Go("list") BY <1>a, <2>0, <2>1 DEF BossPcs, Signalling
  <2>2. CASE End("custody_lost") BY <1>0, <1>e, <2>0, <2>2
  <2> QED BY <1>2, <2>1, <2>2 DEF Check
<1>3. CASE List
  <2>0. /\ boss.pc = "list" /\ late' = {} /\ UNCHANGED <<leader, kin, stray, kept>>
        /\ Living' = Living /\ Reaped' = Reaped /\ Living \subseteq Kin
    BY <1>3 DEF List, At, Living, Reaped
  <2>1. /\ boss' \in BossType /\ boss'.pc = "scan" /\ boss'.how = boss.how
        /\ boss'.todo = Living \/ boss'.unread
    <3>1. CASE boss' = [boss EXCEPT !.pc = "scan", !.todo = Living, !.unread = FALSE]
      BY <1>0, <2>0, <3>1 DEF BossType, BossPcs
    <3>2. CASE boss' = [boss EXCEPT !.pc = "scan", !.todo = {}, !.unread = TRUE]
      BY <1>0, <3>2 DEF BossType, BossPcs
    <3> QED BY <1>3, <3>1, <3>2 DEF List
  <2>2. GroupTypeOK' BY <1>0, <2>0, <2>1 DEF GroupTypeOK
  <2>3. CustodyHolds' /\ WaitedFor' BY <1>0, <2>0, <2>1 DEF CustodyHolds, WaitedFor, Signalling
  <2>4. ScanCovers' BY <2>0, <2>1 DEF ScanCovers
  <2>5. VerdictHolds' BY <1>u, <2>0, <2>1 DEF VerdictHolds
  <2> QED BY <2>2, <2>3, <2>4, <2>5 DEF GroupInv
<1>4. ASSUME NEW k \in Kin, ReadStat(k) PROVE GroupInv'
  <2>0. boss.pc = "scan" /\ Aside /\ Living' = Living BY <1>4 DEF ReadStat, At, Living
  <2>1. CASE Go("probe") BY <1>a, <2>0, <2>1 DEF BossPcs, Signalling
  <2>2. CASE \/ boss' = [boss EXCEPT !.todo = @ \ {k}, !.unread = TRUE]
             \/ k \notin Living /\ boss' = [boss EXCEPT !.todo = @ \ {k}]
    <3>1. /\ boss' \in BossType /\ boss'.pc = "scan" /\ boss'.how = boss.how
          /\ boss'.unread \/ (boss'.unread = boss.unread /\ boss'.todo = boss.todo \ {k} /\ k \notin Living)
      <4>1. CASE boss' = [boss EXCEPT !.todo = @ \ {k}, !.unread = TRUE]
        BY <1>0, <2>0, <4>1 DEF BossType
      <4>2. CASE k \notin Living /\ boss' = [boss EXCEPT !.todo = @ \ {k}]
        <5>1. boss' \in BossType BY <1>0, <4>2 DEF BossType
        <5>2. boss'.pc = boss.pc /\ boss'.how = boss.how /\ boss'.unread = boss.unread /\ boss'.todo = boss.todo \ {k}
          BY <1>0, <4>2 DEF BossType
        <5> QED BY <2>0, <4>2, <5>1, <5>2
      <4> QED BY <2>2, <4>1, <4>2
    <3>2. GroupTypeOK' BY <1>0, <2>0, <3>1 DEF GroupTypeOK
    <3>3. CustodyHolds' /\ WaitedFor' BY <1>0, <2>0, <3>1 DEF CustodyHolds, WaitedFor, Signalling
    <3>4. ScanCovers' BY <1>0, <2>0, <3>1 DEF ScanCovers
    <3>5. VerdictHolds' BY <1>u, <2>0, <3>1 DEF VerdictHolds
    <3> QED BY <3>2, <3>3, <3>4, <3>5 DEF GroupInv
  <2> QED BY <1>4, <2>1, <2>2 DEF ReadStat
<1>5. CASE EndScan
  <2>0. boss.pc = "scan" /\ boss.todo = {} /\ UNCHANGED <<kin, late, stray, kept>> BY <1>5 DEF EndScan, At
  <2>1. CASE ~boss.unread /\ End("observed") /\ leader' = [leader EXCEPT !.state = "reaped"]
    <3>1. Living \subseteq late BY <1>0, <2>0, <2>1 DEF ScanCovers
    <3>2. leader' \in LeaderType /\ Reaped' BY <1>0, <2>1 DEF Reaped
    <3> QED BY <2>0, <2>1, <3>1, <3>2, BossEnds
  <2>2. CASE Go("probe") /\ UNCHANGED leader BY <1>a, <2>0, <2>2 DEF BossPcs, Signalling
  <2> QED BY <1>5, <2>1, <2>2 DEF EndScan
<1>6. CASE Interrupt
  <2>0. boss.pc # "done" /\ Aside BY <1>6 DEF Interrupt
  <2>1. boss' \in BossType /\ boss'.pc \in {"emergency", "done"} /\ boss'.how = boss.how
    BY <1>0, <1>6 DEF Interrupt, BossType, BossPcs
  <2> QED BY <1>0, <1>u, <2>0, <2>1, BossGoesOn DEF Signalling
<1>7. CASE CleanUp
  <2>0. boss.how \in {"unknown", "present"} /\ Aside BY <1>7 DEF CleanUp
  <2>1. boss' \in BossType /\ boss'.pc = "check" /\ boss'.how = boss.how
    BY <1>0, <1>7 DEF CleanUp, BossType, BossPcs
  <2> QED BY <1>0, <2>0, <2>1, BossGoesOn DEF Signalling
<1>8. CASE LastProbe
  <2>0. boss.pc = "last" /\ Aside BY <1>8 DEF LastProbe, At
  <2>1. CASE ~Exists /\ End("absent")
    <3>1. Reaped /\ Living = {} /\ Reaped' BY <2>0, <2>1 DEF Exists, Reaped
    <3> QED BY <1>0, <2>0, <2>1, <3>1, BossEnds
  <2>2. CASE End("present") BY <1>0, <1>e, <2>0, <2>2
  <2> QED BY <1>8, <2>1, <2>2 DEF LastProbe
<1>9. CASE SendTerm
  <2>0. boss.pc = "send_term" /\ Strays /\ Go("grace") /\ UNCHANGED <<leader, kin, late, kept>> BY <1>9 DEF SendTerm, At
  <2>1. kept => ~Reaped BY <1>0, <2>0 DEF CustodyHolds, Signalling
  <2>2. stray' \in BOOLEAN /\ (stray' => stray \/ ~kept) BY <1>0, <2>0, <2>1 DEF Strays, Exists
  <2>3. boss' \in BossType /\ boss'.pc = "grace" /\ boss'.how = boss.how BY <1>g, <2>0 DEF BossPcs
  <2> QED BY <1>0, <1>u, <2>0, <2>2, <2>3, BossGoesOn DEF Signalling
\* killpg(SIGKILL) after custody.
<1>k. ASSUME NEW pc \in Signalling, NEW next \in {"wait", "wait_again", "emergency_wait"}, SendKill(pc, next) PROVE GroupInv'
  <2>0. boss.pc \in Signalling /\ boss.pc # "done" /\ Kill /\ Go(next) /\ UNCHANGED <<late, kept>>
    BY <1>k DEF SendKill, At, Signalling
  <2>1. kept => ~Reaped BY <1>0, <2>0 DEF CustodyHolds
  <2>2. stray' \in BOOLEAN /\ (stray' => stray \/ ~kept) BY <1>0, <2>0, <2>1 DEF Kill, Strays, Exists
  <2>3. leader' \in LeaderType /\ kin' \in KinType BY <1>0, <2>0 DEF Kill
  <2>4. boss' \in BossType /\ boss'.pc = next /\ boss'.how = boss.how BY <1>g, <2>0 DEF BossPcs
  <2>5. next \notin Signalling \cup {"scan", "last"} BY <1>k DEF Signalling
  <2> QED BY <1>0, <1>u, <2>0, <2>2, <2>3, <2>4, <2>5, BossGoesOn
\* The leader is still the worker's, or custody is lost.
<1>c. ASSUME NEW pc, pc # "done", NEW next \in Signalling, Custody(pc, next) PROVE GroupInv'
  <2>0. boss.pc = pc /\ Aside BY <1>c DEF Custody, At
  <2>1. CASE Held /\ Go(next) BY <1>a, <1>c, <2>0, <2>1 DEF Held, BossPcs, Signalling
  <2>2. CASE End("custody_lost") BY <1>0, <1>e, <2>0, <2>2
  <2> QED BY <1>c, <2>1, <2>2 DEF Custody
<1>p. ASSUME NEW pc, pc # "done", NEW signal \in {"term", "kill"}, ProbeGroup(pc, signal) PROVE GroupInv'
  <2>0. boss.pc = pc /\ Aside BY <1>p DEF ProbeGroup, At
  <2>1. CASE Go(signal) BY <1>a, <1>p, <2>0, <2>1 DEF BossPcs, Signalling
  <2>2. CASE Go("wait") BY <1>a, <1>p, <2>0, <2>2 DEF BossPcs, Signalling
  <2> QED BY <1>p, <2>1, <2>2 DEF ProbeGroup
\* A wait reaps a leader that has exited; otherwise its time is up.
<1>w. ASSUME NEW pc, pc # "done", boss.pc = pc, UNCHANGED <<kin, late, stray, kept>>,
             leader' = [leader EXCEPT !.state = "reaped"], Go("last")
      PROVE  GroupInv'
  <2>1. leader' \in LeaderType /\ Reaped' BY <1>0, <1>w DEF Reaped
  <2>2. boss' \in BossType /\ boss'.pc = "last" /\ boss'.how = boss.how BY <1>g, <1>w DEF BossPcs
  <2> QED BY <1>0, <1>u, <1>w, <2>1, <2>2, BossGoesOn DEF Signalling
<1>10. CASE Wait("wait", Go("last"), Go("kill_again"))
  <2>0. boss.pc = "wait" /\ UNCHANGED <<kin, late, stray, kept>> BY <1>10 DEF Wait, At
  <2>1. CASE leader' = [leader EXCEPT !.state = "reaped"] /\ Go("last") BY <1>w, <2>0, <2>1
  <2>2. CASE UNCHANGED leader /\ Go("kill_again") BY <1>a, <2>0, <2>2 DEF BossPcs, Signalling
  <2> QED BY <1>10, <2>1, <2>2 DEF Wait
<1>11. CASE Wait("wait_again", Go("last"), End("present"))
  <2>0. boss.pc = "wait_again" /\ UNCHANGED <<kin, late, stray, kept>> BY <1>11 DEF Wait, At
  <2>1. CASE leader' = [leader EXCEPT !.state = "reaped"] /\ Go("last") BY <1>w, <2>0, <2>1
  <2>2. CASE UNCHANGED leader /\ End("present") BY <1>0, <1>e, <2>0, <2>2
  <2> QED BY <1>11, <2>1, <2>2 DEF Wait
<1>12. CASE Wait("emergency_wait", \/ ~Exists' /\ End("absent")
                                   \/ End("unknown"), End("unknown"))
  <2>0. UNCHANGED <<kin, late, stray, kept>> /\ Living' = Living BY <1>12 DEF Wait, Living
  <2>1. CASE leader' = [leader EXCEPT !.state = "reaped"] /\ ~Exists' /\ End("absent")
    <3>1. leader' \in LeaderType /\ Reaped' BY <1>0, <2>1 DEF Reaped
    <3>2. Living = {} BY <2>0, <2>1 DEF Exists
    <3> QED BY <2>0, <2>1, <3>1, <3>2, BossEnds
  <2>2. CASE leader' = [leader EXCEPT !.state = "reaped"] /\ End("unknown")
    <3>1. leader' \in LeaderType BY <1>0, <2>2
    <3> QED BY <1>e, <2>0, <2>2, <3>1
  <2>3. CASE UNCHANGED leader /\ End("unknown") BY <1>0, <1>e, <2>0, <2>3
  <2> QED BY <1>12, <2>1, <2>2, <2>3 DEF Wait
<1>13. ASSUME \/ Custody("term", "send_term") \/ Custody("kill", "send_kill") \/ Custody("kill_again", "send_kill_again")
              \/ Custody("emergency", "emergency_kill")
       PROVE  GroupInv'
  BY <1>13, <1>c DEF Signalling
<1>14. ASSUME \/ SendKill("send_kill", "wait") \/ SendKill("send_kill_again", "wait_again")
              \/ SendKill("emergency_kill", "emergency_wait")
       PROVE  GroupInv'
  BY <1>14, <1>k DEF Signalling
<1>15. ASSUME ProbeGroup("probe", "term") \/ ProbeGroup("grace", "kill") PROVE GroupInv'
  BY <1>15, <1>p
<1> QED BY <1>1, <1>2, <1>3, <1>4, <1>5, <1>6, <1>7, <1>8, <1>9, <1>10, <1>11, <1>12, <1>13, <1>14, <1>15 DEF Worker

\* A group whose end counts as proved has been reaped and has no member but what forked
\* behind the listing's back; and no signal goes to an id that is no longer the group's.
THEOREM OnlyTheGroupIsGone == GroupSpec => []OnlyItsGroupIsGone
<1>1. GroupInit => GroupInv BY GroupFirst
<1>2. GroupInv /\ [GroupNext]_groupVars => GroupInv'
  <2> SUFFICES ASSUME GroupInv, [GroupNext]_groupVars PROVE GroupInv'
    OBVIOUS
  <2>1. CASE GroupNext BY <2>1, GroupActs, BossActs DEF GroupNext
  <2>2. CASE UNCHANGED groupVars
    BY <2>2 DEF groupVars, GroupInv, GroupTypeOK, CustodyHolds, WaitedFor, ScanCovers, VerdictHolds, Living, Reaped
  <2> QED BY <2>1, <2>2
<1>3. GroupInv => OnlyItsGroupIsGone BY DEF GroupInv, CustodyHolds, VerdictHolds, OnlyItsGroupIsGone
<1> QED BY <1>1, <1>2, <1>3, PTL DEF GroupSpec

-----------------------------------------------------------------------------
(* Supervisor.                                                              *)

EntryType == [def : Nat, actions : SUBSET Actions, proposal : Nat]
KeyType == [def : Nat, rev : Nat, policy : Nat]
CallType == [item : QueueItems, action : Actions, key : KeyType]
StateType == [entry : EntryType, policy : Nat, op : {"none", "calling", "uncertain", "verified"},
              action : {"none"} \cup Actions, key : KeyType,
              evidence : {"none", "assessed", "prepared", "pr_open", "board_reconciled"}, of : KeyType]
HeldType == [pc : {"item", "child", "save"}, mode : {"observe", "run"}, entry : [QueueItems -> EntryType],
             policy : Nat, snap : [QueueItems -> Nat], at : QueueItems, mem : StateType]

SupTypeOK ==
  /\ entry \in [QueueItems -> EntryType]
  /\ policy \in Nat
  /\ native \in [QueueItems -> Nat]
  /\ disk \in [QueueItems -> StateType]
  /\ sup = Idle \/ sup \in HeldType
  /\ begun \subseteq CallType /\ proven \subseteq begun /\ called \subseteq CallType

\* What a state says a child achieved is proved.
Stands(i, s) ==
  /\ s.evidence = "assessed" => CallOf(i, "assess", s.of) \in proven
  /\ Prepared(s) => /\ CallOf(i, "local_execute", s.of) \in proven
                    /\ s.entry.def = s.of.def /\ s.policy = s.of.policy
  /\ s.evidence = "pr_open" => CallOf(i, "draft_pr", s.of) \in proven
  /\ s.evidence = "board_reconciled" => CallOf(i, "board_write", s.of) \in proven

\* A call in doubt would, once proved, be attributed to what it was made under; a
\* prepared candidate is only published.
DoubtFits(s) ==
  InDoubt(s) => /\ s.action \in Actions
                /\ s.action = "local_execute" => s.entry.def = s.key.def /\ s.policy = s.key.policy
                /\ s.action = "draft_pr" <=> Prepared(s)
                /\ Prepared(s) => s.key = s.of

StatesStand == \A i \in QueueItems : Stands(i, disk[i]) /\ DoubtFits(disk[i])

\* What the process has in memory of the item it is at.
MemoryFits ==
  LET s == disk[sup.at]
  IN  /\ sup.pc = "child" => sup.mem = s /\ InDoubt(s)
      /\ sup.pc = "save" => /\ InDoubt(s) /\ sup.mem = Verified(s)
                            /\ CallOf(sup.at, s.action, s.key) \in proven
                            /\ s.action = "board_write" => native[sup.at] > s.key.rev

\* The items before the one the process is at are out of doubt.
InQueueOrder == sup # Idle => \A j \in QueueItems : j < sup.at => ~InDoubt(disk[j])

\* The process has still to look at item i with the reads of this cycle.
Ahead(i) == sup # Idle /\ (sup.at < i \/ (sup.at = i /\ sup.pc = "item"))

Pending(c) == InDoubt(disk[c.item]) /\ disk[c.item].action = c.action /\ disk[c.item].key = c.key

\* A call that was made is in doubt, or it left what keeps it from being made again: a
\* beginning, a candidate, a pull request, or a native revision beyond its proposal.
CallKept(c) ==
  /\ Pending(c) \/ c \in begun
  /\ c.action = "local_execute" =>
       Prepared(disk[c.item]) \/ (InDoubt(disk[c.item]) /\ disk[c.item].action = "local_execute")
  /\ c.action = "draft_pr" =>
       disk[c.item].evidence = "pr_open" \/ (InDoubt(disk[c.item]) /\ disk[c.item].action = "draft_pr")
  /\ c.action = "board_write" =>
       \/ Pending(c)
       \/ native[c.item] > c.key.rev /\ (Ahead(c.item) => sup.snap[c.item] > c.key.rev)

CallsKept == \A c \in called : CallKept(c)

SupInv == SupTypeOK /\ StatesStand /\ MemoryFits /\ InQueueOrder /\ CallsKept /\ ~replayed

\* Nothing is called, and nothing is in doubt, in the beginning.
LEMMA SupFirst == SupInit => SupInv
<1> SUFFICES ASSUME SupInit PROVE SupInv
  OBVIOUS
<1>1. \A i \in QueueItems : (CHOOSE e \in Entries[i] : TRUE) \in EntryType
  <2> TAKE i \in QueueItems
  <2>1. \E e \in Entries[i] : TRUE BY QueueAssumption
  <2>2. (CHOOSE e \in Entries[i] : TRUE) \in Entries[i] BY <2>1
  <2> QED BY <2>2, QueueAssumption DEF EntryType
<1>2. NoState \in StateType BY DEF NoState, StateType, EntryType, NoKey, KeyType
<1>3. SupTypeOK BY <1>1, <1>2 DEF SupInit, SupTypeOK
<1>4. StatesStand BY DEF SupInit, StatesStand, Stands, DoubtFits, NoState, Prepared, InDoubt
<1>5. MemoryFits /\ InQueueOrder /\ CallsKept /\ ~replayed
  BY DEF SupInit, MemoryFits, InQueueOrder, CallsKept, Idle
<1> QED BY <1>3, <1>4, <1>5 DEF SupInv

\* How the state of an item is settled: nothing was in doubt and the evidence stays,
\* or the call in doubt was proved.
Settles(i, r) ==
  /\ r \in StateType /\ ~InDoubt(r) /\ Stands(i, r)
  /\ ~InDoubt(disk[i]) => r.evidence = disk[i].evidence
  /\ InDoubt(disk[i]) => /\ CallOf(i, disk[i].action, disk[i].key) \in proven
                         /\ r.evidence = EvidenceOf(disk[i].action) /\ r.of = disk[i].key
                         /\ disk[i].action = "board_write" => native[i] > disk[i].key.rev

\* What was called for a settled item is not called again.
LEMMA SettledCalls ==
  ASSUME SupInv, NEW i \in QueueItems, NEW r, Settles(i, r), NEW c \in called, c.item = i
  PROVE  /\ c \in begun
         /\ c.action = "local_execute" => Prepared(r)
         /\ c.action = "draft_pr" => r.evidence = "pr_open"
         /\ c.action = "board_write" =>
              /\ native[i] > c.key.rev
              /\ Ahead(i) => sup.snap[i] > c.key.rev \/ (r.evidence = "board_reconciled" /\ r.of = c.key)
<1>0. SupTypeOK /\ CallKept(c) /\ DoubtFits(disk[i]) BY DEF SupInv, CallsKept, StatesStand
<1>1. c \in CallType /\ proven \subseteq begun BY <1>0 DEF SupTypeOK
<1>2. c = CallOf(i, c.action, c.key) BY <1>1 DEF CallType, CallOf
<1>3. Pending(c) => c \in proven BY <1>2 DEF Pending, Settles
<1>4. c \in begun BY <1>0, <1>1, <1>3 DEF CallKept
<1>5. ASSUME c.action = "local_execute" PROVE Prepared(r)
  BY <1>0, <1>5 DEF CallKept, DoubtFits, Settles, Prepared, EvidenceOf
<1>6. ASSUME c.action = "draft_pr" PROVE r.evidence = "pr_open"
  BY <1>0, <1>6 DEF CallKept, DoubtFits, Settles, Prepared, EvidenceOf
<1>7. ASSUME c.action = "board_write"
      PROVE  /\ native[i] > c.key.rev
             /\ Ahead(i) => sup.snap[i] > c.key.rev \/ (r.evidence = "board_reconciled" /\ r.of = c.key)
  BY <1>0, <1>7 DEF CallKept, Pending, Settles, EvidenceOf
<1> QED BY <1>4, <1>5, <1>6, <1>7

\* A settled item is left for the next one, or for a new cycle with fresh reads.
LEMMA SettleAdvance ==
  ASSUME SupInv, sup \in HeldType, NEW i \in QueueItems, sup.at = i, NEW r, Settles(i, r), Write(i, r), Advance,
         UNCHANGED <<entry, policy, native, begun, proven, called, replayed>>
  PROVE  SupInv'
<1>0. /\ SupTypeOK /\ StatesStand /\ InQueueOrder /\ CallsKept /\ ~replayed
      /\ disk \in [QueueItems -> StateType] /\ native \in [QueueItems -> Nat] /\ i \in 1..Queue /\ Queue \in Nat
  BY QueueAssumption DEF SupInv, SupTypeOK, QueueItems
<1>1. /\ sup' = Idle \/ sup' \in HeldType
      /\ sup' # Idle => /\ sup'.pc = "item"
                        /\ (sup'.at = i + 1 /\ sup'.snap = sup.snap) \/ (sup'.at = 1 /\ sup'.snap = native)
  <2>1. CASE i < Queue /\ sup' = [sup EXCEPT !.pc = "item", !.at = @ + 1]
    <3>1. i + 1 \in QueueItems BY <1>0, <2>1 DEF QueueItems
    <3>2. sup' = [sup EXCEPT !.pc = "item", !.at = i + 1] BY <2>1
    <3>3. sup' \in HeldType BY <3>1, <3>2 DEF HeldType
    <3>4. sup'.pc = "item" /\ sup'.at = i + 1 /\ sup'.snap = sup.snap BY <3>2 DEF HeldType
    <3> QED BY <3>3, <3>4
  <2>2. CASE sup' = Idle BY <2>2
  <2>3. CASE sup' = [sup EXCEPT !.pc = "item", !.at = 1, !.snap = native]
    <3>1. 1 \in QueueItems BY <1>0 DEF QueueItems
    <3> QED BY <1>0, <2>3, <3>1 DEF HeldType
  <2> QED BY <2>1, <2>2, <2>3 DEF Advance
<1>2. disk' \in [QueueItems -> StateType] /\ disk'[i] = r /\ \A j \in QueueItems \ {i} : disk'[j] = disk[j]
  BY <1>0 DEF Write, Settles
<1>3. SupTypeOK' BY <1>0, <1>1, <1>2 DEF SupTypeOK
<1>4. StatesStand'
  <2>1. ASSUME NEW j \in QueueItems, j # i PROVE Stands(j, disk[j])' /\ DoubtFits(disk[j])'
    BY <1>0, <1>2, <2>1 DEF StatesStand, Stands, DoubtFits, Prepared, InDoubt
  <2>2. Stands(i, disk[i])' /\ DoubtFits(disk[i])'
    BY <1>2 DEF Settles, Stands, DoubtFits, Prepared, InDoubt
  <2> QED BY <2>1, <2>2 DEF StatesStand
<1>5. MemoryFits'
  <2>1. sup'.pc \notin {"child", "save"} BY <1>1 DEF Idle
  <2> QED BY <2>1 DEF MemoryFits
<1>6. InQueueOrder'
  <2> SUFFICES ASSUME sup' # Idle, NEW j \in QueueItems, j < sup'.at PROVE ~InDoubt(disk'[j])
    BY DEF InQueueOrder, InDoubt
  <2>1. j \in Nat \ {0} BY <1>0 DEF QueueItems
  <2>2. j = i \/ j < i BY <1>0, <1>1, <2>1
  <2>3. CASE j = i BY <1>2, <2>3 DEF Settles
  <2>4. CASE j < i
    <3>1. sup # Idle BY DEF HeldType, Idle
    <3>2. disk'[j] = disk[j] /\ ~InDoubt(disk[j]) BY <1>0, <1>2, <2>1, <2>4, <3>1 DEF InQueueOrder
    <3> QED BY <3>2
  <2> QED BY <2>2, <2>3, <2>4
<1>7. CallsKept'
  <2> SUFFICES ASSUME NEW c \in called PROVE CallKept(c)'
    BY DEF CallsKept
  <2>0. CallKept(c) /\ c.item \in QueueItems BY <1>0 DEF CallsKept, SupTypeOK, CallType
  <2>1. CASE c.item # i
    <3>1. disk'[c.item] = disk[c.item] /\ (Pending(c)' <=> Pending(c)) BY <1>2, <2>0, <2>1 DEF Pending, InDoubt
    <3>2. Ahead(c.item)' => Ahead(c.item) \/ sup'.snap = native
      <4>1. sup # Idle BY DEF HeldType, Idle
      <4>2. c.item \in Nat BY <1>0, <2>0 DEF QueueItems
      <4>3. sup' # Idle /\ sup'.at = i + 1 /\ (sup'.at < c.item \/ sup'.at = c.item) => sup.at < c.item
        BY <1>0, <4>2
      <4> QED BY <1>1, <4>1, <4>3 DEF Ahead
    <3>3. Ahead(c.item)' => sup'.snap \in {sup.snap, native} BY <1>1 DEF Ahead
    <3> QED BY <2>0, <3>1, <3>2, <3>3 DEF CallKept, Prepared, InDoubt
  <2>2. CASE c.item = i
    <3>1. /\ c \in begun
          /\ c.action = "local_execute" => Prepared(r)
          /\ c.action = "draft_pr" => r.evidence = "pr_open"
          /\ c.action = "board_write" => native[i] > c.key.rev
      BY <1>0, <2>2, SettledCalls
    <3>2. Ahead(i)' => sup'.snap = native BY <1>0, <1>1 DEF Ahead, QueueItems
    <3> QED BY <1>2, <2>2, <3>1, <3>2 DEF CallKept, Prepared
  <2> QED BY <2>1, <2>2
<1> QED BY <1>0, <1>3, <1>4, <1>5, <1>6, <1>7 DEF SupInv

\* The state of the item the process is at: what is in doubt or prepared is kept as
\* it is; anything else is read as the queue and the policy have it now.
LEMMA LoadedState ==
  ASSUME SupInv, sup \in HeldType, NEW i \in QueueItems, sup.at = i
  PROVE  /\ Loaded(i) \in StateType /\ Stands(i, Loaded(i)) /\ DoubtFits(Loaded(i))
         /\ InDoubt(disk[i]) <=> InDoubt(Loaded(i))
         /\ InDoubt(disk[i]) => Loaded(i) = disk[i]
         /\ Loaded(i).evidence = disk[i].evidence
         /\ ~Conflicting(Loaded(i), i) => Loaded(i).entry = sup.entry[i] /\ Loaded(i).policy = sup.policy
<1>0. /\ SupTypeOK /\ disk[i] \in StateType /\ Stands(i, disk[i]) /\ DoubtFits(disk[i])
      /\ sup.entry[i] \in EntryType /\ sup.policy \in Nat
  BY DEF SupInv, SupTypeOK, StatesStand, HeldType
<1>1. CASE Pinned(disk[i])
  BY <1>0, <1>1 DEF Loaded, Conflicting
<1>2. CASE ~Pinned(disk[i])
  <2>1. Loaded(i) = [disk[i] EXCEPT !.entry = sup.entry[i], !.policy = sup.policy] BY <1>2 DEF Loaded
  <2>2. Loaded(i) \in StateType BY <1>0, <2>1 DEF StateType
  <2>3. /\ Loaded(i).entry = sup.entry[i] /\ Loaded(i).policy = sup.policy
        /\ Loaded(i).evidence = disk[i].evidence /\ Loaded(i).of = disk[i].of /\ Loaded(i).op = disk[i].op
    BY <1>0, <2>1 DEF StateType
  <2>4. ~InDoubt(disk[i]) /\ ~InDoubt(Loaded(i)) /\ ~Prepared(disk[i]) /\ ~Prepared(Loaded(i))
    BY <1>2, <2>3 DEF Pinned, InDoubt, Prepared
  <2>5. Stands(i, Loaded(i)) BY <1>0, <2>3, <2>4 DEF Stands
  <2>6. DoubtFits(Loaded(i)) BY <2>4 DEF DoubtFits
  <2> QED BY <2>2, <2>3, <2>4, <2>5, <2>6
<1> QED BY <1>1, <1>2

\* A call in doubt that is proved becomes evidence that stands.
LEMMA VerifiedState ==
  ASSUME SupInv, NEW i \in QueueItems, InDoubt(disk[i]),
         CallOf(i, disk[i].action, disk[i].key) \in proven,
         disk[i].action = "board_write" => native[i] > disk[i].key.rev
  PROVE  Settles(i, Verified(disk[i]))
<1> DEFINE s == disk[i]
           v == Verified(s)
<1>0. s \in StateType /\ Stands(i, s) /\ DoubtFits(s) /\ s.action \in Actions
  BY DEF SupInv, SupTypeOK, StatesStand, DoubtFits
<1>1. EvidenceOf(s.action) \in {"assessed", "prepared", "pr_open", "board_reconciled"} BY DEF EvidenceOf
<1>2. v \in StateType BY <1>0, <1>1 DEF Verified, StateType
<1>3. /\ v.op = "verified" /\ v.evidence = EvidenceOf(s.action) /\ v.of = s.key
      /\ v.entry = s.entry /\ v.policy = s.policy
  BY <1>0 DEF Verified, StateType
<1>4. ~InDoubt(v) BY <1>3 DEF InDoubt
<1>5. Stands(i, v)
  <2>1. CASE s.action = "assess" BY <1>3, <2>1 DEF Stands, Prepared, EvidenceOf
  <2>2. CASE s.action = "local_execute" BY <1>0, <1>3, <2>2 DEF Stands, Prepared, EvidenceOf, DoubtFits
  <2>3. CASE s.action = "draft_pr" BY <1>0, <1>3, <2>3 DEF Stands, Prepared, EvidenceOf, DoubtFits
  <2>4. CASE s.action = "board_write" BY <1>3, <2>4 DEF Stands, Prepared, EvidenceOf
  <2> QED BY <1>0, <2>1, <2>2, <2>3, <2>4 DEF Actions
<1> QED BY <1>2, <1>3, <1>4, <1>5 DEF Settles

\* What is in doubt is settled by proof.
LEMMA RecoveredState ==
  ASSUME SupInv, sup \in HeldType, NEW i \in QueueItems, sup.at = i, Settleable(Loaded(i), i)
  PROVE  /\ Settles(i, Recovered(Loaded(i), i))
         /\ Recovered(Loaded(i), i).entry = sup.entry[i] /\ Recovered(Loaded(i), i).policy = sup.policy
<1>0. disk[i] \in StateType /\ native[i] \in Nat BY DEF SupInv, SupTypeOK
<1>1. CASE InDoubt(disk[i])
  <2>1. Loaded(i) = disk[i] /\ disk[i].entry = sup.entry[i] /\ disk[i].policy = sup.policy
    BY <1>1, LoadedState DEF Settleable
  <2>2. Proof(CallOf(i, disk[i].action, disk[i].key)) BY <1>1, <2>1 DEF Settleable
  <2>3. CallOf(i, disk[i].action, disk[i].key) \in proven
    BY <2>2 DEF Proof
  <2>4. disk[i].action = "board_write" => native[i] > disk[i].key.rev
    <3>1. disk[i].action = "board_write" => native[i] = disk[i].key.rev + 1 BY <2>2 DEF Proof, CallOf
    <3>2. disk[i].key.rev \in Nat BY <1>0 DEF StateType, KeyType
    <3> QED BY <1>0, <3>1, <3>2
  <2>5. Recovered(Loaded(i), i) = Verified(disk[i]) BY <1>1, <2>1 DEF Recovered
  <2>6. Verified(disk[i]).entry = disk[i].entry /\ Verified(disk[i]).policy = disk[i].policy
    BY <1>0 DEF Verified, StateType
  <2> QED BY <1>1, <2>1, <2>3, <2>4, <2>5, <2>6, VerifiedState
<1>2. CASE ~InDoubt(disk[i])
  <2>1. Recovered(Loaded(i), i) = Loaded(i) BY <1>2, LoadedState DEF Recovered
  <2> QED BY <1>2, <2>1, LoadedState DEF Settles, Settleable
<1> QED BY <1>1, <1>2

\* What a call that is due may rely on.
LEMMA DueCalls ==
  ASSUME SupInv, sup \in HeldType, NEW i \in QueueItems, sup.at = i, NEW r \in StateType, NEW c \in Due(i, r)
  PROVE  /\ c \in CallType /\ c.item = i
         /\ \/ c.action = "draft_pr" /\ Prepared(r) /\ r.evidence = "prepared" /\ c.key = r.of
            \/ /\ c.action = "board_write" /\ ~Prepared(r) /\ sup.snap[i] = c.key.rev
               /\ ~(r.evidence = "board_reconciled" /\ r.of = c.key)
            \/ c.action = "assess" /\ ~Prepared(r) /\ c \notin begun
            \/ /\ c.action = "local_execute" /\ ~Prepared(r)
               /\ c.key.def = sup.entry[i].def /\ c.key.policy = sup.policy
<1> DEFINE e == sup.entry[i]
           packet == [def |-> e.def, rev |-> sup.snap[i], policy |-> sup.policy]
           proposal == [NoKey EXCEPT !.rev = e.proposal]
<1>0. e \in EntryType /\ packet \in KeyType /\ proposal \in KeyType /\ proposal.rev = e.proposal
  BY DEF HeldType, EntryType, KeyType, NoKey
<1>1. CASE Prepared(r)
  <2>1. c = CallOf(i, "draft_pr", r.of) /\ r.evidence = "prepared" BY <1>1 DEF Due
  <2> QED BY <1>1, <2>1 DEF CallOf, CallType, Actions, StateType
<1>2. CASE ~Prepared(r) /\ "board_write" \in e.actions /\ e.proposal # 0
  <2>1. /\ c = CallOf(i, "board_write", proposal) /\ sup.snap[i] = e.proposal
        /\ ~(r.evidence = "board_reconciled" /\ r.of = proposal)
    BY <1>2 DEF Due
  <2>2. c \in CallType /\ c.item = i /\ c.action = "board_write" /\ c.key = proposal
    BY <1>0, <2>1 DEF CallOf, CallType, Actions
  <2> QED BY <1>0, <1>2, <2>1, <2>2
<1>3. CASE ~Prepared(r) /\ ~("board_write" \in e.actions /\ e.proposal # 0)
  <2>1. PICK a \in e.actions : c = CallOf(i, a, packet) BY <1>3 DEF Due
  <2>2. (c.action = "assess" /\ c \notin begun) \/ c.action = "local_execute" BY <1>3 DEF Due
  <2>3. c \in CallType /\ c.item = i /\ c.key = packet BY <1>0, <2>1 DEF CallOf, CallType, EntryType
  <2> QED BY <1>3, <2>2, <2>3
<1> QED BY <1>1, <1>2, <1>3

\* The intent to call is recorded, of a settled item, and the call is a new one.
LEMMA SupCalls == SupInv /\ CallChild => SupInv'
<1> SUFFICES ASSUME SupInv, CallChild PROVE SupInv'
  OBVIOUS
<1>1. sup \in HeldType /\ sup.pc = "item" BY DEF CallChild, Item, SupInv, SupTypeOK, Idle
<1>2. PICK i \in QueueItems : i = sup.at BY <1>1 DEF HeldType
<1> DEFINE r == Recovered(Loaded(i), i)
<1>3. Settles(i, r) /\ r.entry = sup.entry[i] /\ r.policy = sup.policy /\ r \in StateType
  BY <1>1, <1>2, RecoveredState DEF CallChild, Settles
<1>30. PICK c \in Due(i, r) :
        /\ Write(i, [r EXCEPT !.op = "calling", !.action = c.action, !.key = c.key])
        /\ sup' = [sup EXCEPT !.pc = "child",
                              !.mem = [r EXCEPT !.op = "calling", !.action = c.action, !.key = c.key]]
        /\ called' = called \cup {c}
        /\ replayed' = (replayed \/ \E d \in called :
             d.item = i /\ d.action = c.action /\ (d.key = c.key \/ c.action \in {"local_execute", "draft_pr"}))
  BY <1>2 DEF CallChild
<1>31. PICK calling : calling = [r EXCEPT !.op = "calling", !.action = c.action, !.key = c.key]
  OBVIOUS
<1>4. /\ c \in Due(i, r)
      /\ calling = [r EXCEPT !.op = "calling", !.action = c.action, !.key = c.key]
      /\ Write(i, calling)
      /\ sup' = [sup EXCEPT !.pc = "child", !.mem = calling]
      /\ called' = called \cup {c}
      /\ replayed' = (replayed \/ \E d \in called :
           d.item = i /\ d.action = c.action /\ (d.key = c.key \/ c.action \in {"local_execute", "draft_pr"}))
  BY <1>30, <1>31
<1>5. UNCHANGED <<entry, policy, native, begun, proven>> BY DEF CallChild
<1>6. /\ SupTypeOK /\ StatesStand /\ InQueueOrder /\ CallsKept /\ ~replayed
      /\ disk \in [QueueItems -> StateType]
  BY DEF SupInv, SupTypeOK
<1>7. /\ c \in CallType /\ c.item = i
      /\ \/ c.action = "draft_pr" /\ Prepared(r) /\ r.evidence = "prepared" /\ c.key = r.of
         \/ /\ c.action = "board_write" /\ ~Prepared(r) /\ sup.snap[i] = c.key.rev
            /\ ~(r.evidence = "board_reconciled" /\ r.of = c.key)
         \/ c.action = "assess" /\ ~Prepared(r) /\ c \notin begun
         \/ /\ c.action = "local_execute" /\ ~Prepared(r)
            /\ c.key.def = sup.entry[i].def /\ c.key.policy = sup.policy
  BY <1>1, <1>2, <1>3, DueCalls
<1>8. c.action \in Actions /\ c.key \in KeyType BY <1>7 DEF CallType
<1>9. /\ calling \in StateType /\ calling.op = "calling" /\ calling.action = c.action /\ calling.key = c.key
      /\ calling.entry = r.entry /\ calling.policy = r.policy /\ calling.evidence = r.evidence /\ calling.of = r.of
  BY <1>3, <1>4, <1>8 DEF StateType
<1>10. disk' \in [QueueItems -> StateType] /\ disk'[i] = calling /\ \A j \in QueueItems \ {i} : disk'[j] = disk[j]
  BY <1>4, <1>6, <1>9 DEF Write
<1>11. sup' \in HeldType /\ sup'.pc = "child" /\ sup'.mem = calling /\ sup'.at = i /\ sup'.snap = sup.snap
  BY <1>1, <1>2, <1>4, <1>9 DEF HeldType
<1>12. InDoubt(calling) /\ (Prepared(calling) <=> Prepared(r)) BY <1>9 DEF InDoubt, Prepared
<1>13. SupTypeOK' BY <1>4, <1>5, <1>6, <1>7, <1>10, <1>11 DEF SupTypeOK
<1>14. StatesStand'
  <2>1. ASSUME NEW j \in QueueItems, j # i PROVE Stands(j, disk[j])' /\ DoubtFits(disk[j])'
    BY <1>5, <1>6, <1>10, <2>1 DEF StatesStand, Stands, DoubtFits, Prepared, InDoubt
  <2>2. Stands(i, disk[i])' BY <1>3, <1>5, <1>9, <1>10, <1>12 DEF Settles, Stands, Prepared
  <2>3. DoubtFits(disk[i])' BY <1>3, <1>7, <1>8, <1>9, <1>10, <1>12 DEF DoubtFits, Prepared, InDoubt
  <2> QED BY <2>1, <2>2, <2>3 DEF StatesStand
<1>15. MemoryFits' BY <1>10, <1>11, <1>12 DEF MemoryFits, InDoubt
<1>16. InQueueOrder'
  <2>1. \A j \in QueueItems : j < i => j # i BY DEF QueueItems
  <2> QED BY <1>1, <1>2, <1>6, <1>10, <1>11, <2>1 DEF InQueueOrder, InDoubt, HeldType, Idle
<1>17. CallsKept'
  <2>1. CallKept(c)'
    BY <1>7, <1>8, <1>9, <1>10, <1>12 DEF CallKept, Pending, InDoubt
  <2>2. ASSUME NEW d \in called, d.item = i PROVE CallKept(d)'
    <3>1. /\ d \in begun
          /\ d.action = "local_execute" => Prepared(r)
          /\ d.action = "draft_pr" => r.evidence = "pr_open"
          /\ d.action = "board_write" => native[i] > d.key.rev
      BY <1>3, <2>2, SettledCalls
    <3>2. ~Ahead(i)' BY <1>11 DEF Ahead, QueueItems
    <3> QED BY <1>5, <1>9, <1>10, <1>12, <2>2, <3>1, <3>2 DEF CallKept, Prepared
  <2>3. ASSUME NEW d \in called, d.item # i PROVE CallKept(d)'
    <3>1. d.item \in QueueItems /\ CallKept(d) BY <1>6 DEF SupTypeOK, CallType, CallsKept
    <3>2. disk'[d.item] = disk[d.item] /\ (Ahead(d.item)' => Ahead(d.item))
      BY <1>1, <1>2, <1>10, <1>11, <2>3, <3>1 DEF Ahead, Idle
    <3> QED BY <1>5, <1>11, <3>1, <3>2 DEF CallKept, Pending, Prepared, InDoubt
  <2> QED BY <1>4, <2>1, <2>2, <2>3 DEF CallsKept
<1>18. ~replayed'
  <2> SUFFICES ASSUME NEW d \in called, d.item = i, d.action = c.action,
                      d.key = c.key \/ c.action \in {"local_execute", "draft_pr"}
               PROVE  FALSE
    BY <1>4, <1>6
  <2>1. /\ d \in begun
        /\ d.action = "local_execute" => Prepared(r)
        /\ d.action = "draft_pr" => r.evidence = "pr_open"
        /\ d.action = "board_write" =>
             (Ahead(i) => sup.snap[i] > d.key.rev \/ (r.evidence = "board_reconciled" /\ r.of = d.key))
    BY <1>3, SettledCalls
  <2>2. Ahead(i) BY <1>1, <1>2 DEF Ahead, Idle
  <2>3. CASE c.action = "assess"
    <3>1. d = c BY <1>6, <1>7, <2>3 DEF SupTypeOK, CallType
    <3> QED BY <1>7, <2>1, <2>3, <3>1
  <2>4. CASE c.action = "board_write"
    <3>1. c.key.rev \in Nat BY <1>8 DEF KeyType
    <3> QED BY <1>7, <2>1, <2>2, <2>4, <3>1
  <2>5. CASE c.action \in {"local_execute", "draft_pr"} BY <1>7, <2>1, <2>5
  <2> QED BY <1>7, <2>3, <2>4, <2>5
<1> QED BY <1>13, <1>14, <1>15, <1>16, <1>17, <1>18 DEF SupInv

\* More is proved, more has begun, and the board is edited: whatever stands goes on to stand.
LEMMA SupGrows ==
  ASSUME SupInv, SupTypeOK', UNCHANGED <<disk, called, replayed>>,
         proven \subseteq proven', begun \subseteq begun', \A i \in QueueItems : native'[i] >= native[i],
         sup' = sup
  PROVE  SupInv'
<1>0. SupTypeOK /\ StatesStand /\ MemoryFits /\ InQueueOrder /\ CallsKept /\ ~replayed BY DEF SupInv
<1>1. StatesStand' BY <1>0 DEF StatesStand, Stands, DoubtFits, Prepared, InDoubt
<1>2. \A i \in QueueItems, n \in Nat : native[i] > n => native'[i] > n BY <1>0 DEF SupTypeOK
<1>3. MemoryFits'
  <2>1. sup.pc = "child" => sup'.mem = disk'[sup'.at] /\ InDoubt(disk'[sup'.at]) BY <1>0 DEF MemoryFits, InDoubt
  <2>2. ASSUME sup.pc = "save" PROVE /\ InDoubt(disk'[sup'.at]) /\ sup'.mem = Verified(disk'[sup'.at])
                                     /\ CallOf(sup'.at, disk'[sup'.at].action, disk'[sup'.at].key) \in proven'
                                     /\ disk'[sup'.at].action = "board_write" => native'[sup'.at] > disk'[sup'.at].key.rev
    <3>1. sup \in HeldType /\ sup.at \in QueueItems BY <1>0, <2>2 DEF SupTypeOK, Idle, HeldType
    <3>2. disk[sup.at].key.rev \in Nat BY <1>0, <3>1 DEF SupTypeOK, StateType, KeyType
    <3> QED BY <1>0, <1>2, <2>2, <3>1, <3>2 DEF MemoryFits, InDoubt
  <2> QED BY <2>1, <2>2 DEF MemoryFits, InDoubt
<1>4. InQueueOrder' BY <1>0 DEF InQueueOrder, InDoubt
<1>5. CallsKept'
  <2> SUFFICES ASSUME NEW c \in called PROVE CallKept(c)'
    BY DEF CallsKept
  <2>1. CallKept(c) /\ c.item \in QueueItems /\ c.key.rev \in Nat BY <1>0 DEF CallsKept, SupTypeOK, CallType, KeyType
  <2>2. (Pending(c)' <=> Pending(c)) /\ (Ahead(c.item)' <=> Ahead(c.item)) BY DEF Pending, InDoubt, Ahead
  <2> QED BY <1>2, <2>1, <2>2 DEF CallKept, Prepared, InDoubt
<1> QED BY <1>0, <1>1, <1>3, <1>4, <1>5 DEF SupInv

\* What happens outside of the process, and what its child does.
LEMMA SupOutside ==
  ASSUME SupInv, (\E i \in QueueItems : ChangeQueue(i) \/ EditItem(i)) \/ ChangePolicy \/ LandLate \/ Begin \/ Complete
  PROVE  SupInv'
<1>0. SupTypeOK BY DEF SupInv
<1>1. ASSUME NEW i \in QueueItems, ChangeQueue(i) PROVE SupInv'
  <2>1. PICK e \in Entries[i] : entry' = [entry EXCEPT ![i] = e] BY <1>1 DEF ChangeQueue
  <2>2. e \in EntryType BY QueueAssumption DEF EntryType
  <2>3. UNCHANGED <<policy, native, disk, sup, begun, proven, called, replayed>> BY <1>1 DEF ChangeQueue
  <2>4. SupTypeOK' BY <1>0, <2>1, <2>2, <2>3 DEF SupTypeOK
  <2> QED BY <1>0, <2>3, <2>4, SupGrows DEF SupTypeOK
<1>2. ASSUME NEW i \in QueueItems, EditItem(i) PROVE SupInv'
  <2>1. native' = [native EXCEPT ![i] = @ + 1] /\ UNCHANGED <<entry, policy, disk, sup, begun, proven, called, replayed>>
    BY <1>2 DEF EditItem
  <2>2. SupTypeOK' /\ \A j \in QueueItems : native'[j] >= native[j] BY <1>0, <2>1 DEF SupTypeOK
  <2> QED BY <2>1, <2>2, SupGrows
<1>3. CASE ChangePolicy
  <2>1. SupTypeOK' /\ UNCHANGED <<native, disk, sup, begun, proven, called, replayed>>
    BY <1>0, <1>3 DEF ChangePolicy, SupTypeOK
  <2> QED BY <1>0, <2>1, SupGrows DEF SupTypeOK
<1>4. CASE LandLate
  <2>1. PICK c \in begun : proven' = proven \cup {c} BY <1>4 DEF LandLate
  <2>2. UNCHANGED <<entry, policy, native, disk, sup, begun, called, replayed>> BY <1>4 DEF LandLate
  <2>3. SupTypeOK' BY <1>0, <2>1, <2>2 DEF SupTypeOK
  <2> QED BY <1>0, <2>1, <2>2, <2>3, SupGrows DEF SupTypeOK
<1>5. ASSUME sup.pc = "child" PROVE Current \in CallType
  <2>1. sup \in HeldType /\ sup.at \in QueueItems BY <1>0, <1>5 DEF SupTypeOK, Idle, HeldType
  <2>2. sup.mem = disk[sup.at] /\ InDoubt(disk[sup.at]) BY <1>5 DEF SupInv, MemoryFits
  <2>3. disk[sup.at].action \in Actions /\ disk[sup.at].key \in KeyType
    BY <1>0, <2>1, <2>2 DEF SupInv, SupTypeOK, StatesStand, DoubtFits, StateType
  <2> QED BY <2>1, <2>2, <2>3 DEF Current, CallOf, CallType
<1>6. CASE Begin
  <2>1. sup.pc = "child" /\ begun' = begun \cup {Current}
        /\ UNCHANGED <<entry, policy, native, disk, sup, proven, called, replayed>>
    BY <1>6 DEF Begin
  <2>2. SupTypeOK' BY <1>0, <1>5, <2>1 DEF SupTypeOK
  <2> QED BY <1>0, <2>1, <2>2, SupGrows DEF SupTypeOK
<1>7. CASE Complete
  <2>1. /\ sup.pc = "child" /\ Current \in begun /\ proven' = proven \cup {Current}
        /\ UNCHANGED <<entry, policy, disk, sup, begun, called, replayed>>
        /\ native' = [native EXCEPT ![sup.at] = @ + 1] \/ native' = native
    BY <1>7 DEF Complete
  <2>2. SupTypeOK' /\ \A j \in QueueItems : native'[j] >= native[j] BY <1>0, <2>1 DEF SupTypeOK
  <2> QED BY <2>1, <2>2, SupGrows
<1> QED BY <1>1, <1>2, <1>3, <1>4, <1>6, <1>7

\* The process starts with fresh reads, and leaves everything as it is when it ends.
LEMMA SupComesAndGoes ==
  ASSUME SupInv, UNCHANGED <<entry, policy, native, disk, begun, proven, called, replayed>>,
         sup' = Idle \/ \E mode \in {"observe", "run"} : Start(mode)
  PROVE  SupInv'
<1>0. SupTypeOK /\ StatesStand /\ CallsKept /\ ~replayed BY DEF SupInv
<1>1. sup' = Idle \/ (sup' \in HeldType /\ sup'.pc = "item" /\ sup'.at = 1 /\ sup'.snap = native)
  <2>1. NoState \in StateType BY DEF NoState, StateType, EntryType, NoKey, KeyType
  <2>2. 1 \in QueueItems BY QueueAssumption DEF QueueItems
  <2> QED BY <1>0, <2>1, <2>2 DEF Start, HeldType, SupTypeOK
<1>2. SupTypeOK' BY <1>0, <1>1 DEF SupTypeOK
<1>3. StatesStand' BY <1>0 DEF StatesStand, Stands, DoubtFits, Prepared, InDoubt
<1>4. MemoryFits'
  <2>1. sup'.pc \notin {"child", "save"} BY <1>1 DEF Idle
  <2> QED BY <2>1 DEF MemoryFits
<1>5. InQueueOrder' BY <1>1 DEF InQueueOrder, QueueItems
<1>6. CallsKept'
  <2> SUFFICES ASSUME NEW c \in called PROVE CallKept(c)'
    BY DEF CallsKept
  <2>1. CallKept(c) BY <1>0 DEF CallsKept
  <2>2. (Pending(c)' <=> Pending(c)) /\ (Ahead(c.item)' => sup'.snap = native) BY <1>1 DEF Pending, InDoubt, Ahead
  <2> QED BY <2>1, <2>2 DEF CallKept, Prepared, InDoubt
<1> QED BY <1>0, <1>2, <1>3, <1>4, <1>5, <1>6 DEF SupInv

\* The steps at an item that call nobody.
LEMMA SupAtItem ==
  ASSUME SupInv, Halt \/ Rest
  PROVE  SupInv'
<1>1. sup \in HeldType BY DEF Halt, Rest, Item, SupInv, SupTypeOK, Idle
<1>2. PICK i \in QueueItems : i = sup.at BY <1>1 DEF HeldType
<1>3. UNCHANGED <<entry, policy, native, begun, proven, called, replayed>> BY DEF Halt, Rest
<1>4. disk \in [QueueItems -> StateType] BY DEF SupInv, SupTypeOK
<1>5. CASE Rest
  <2>1. Settles(i, Recovered(Loaded(i), i)) /\ Write(i, Recovered(Loaded(i), i)) /\ Advance
    BY <1>1, <1>2, <1>5, RecoveredState DEF Rest
  <2> QED BY <1>1, <1>2, <1>3, <2>1, SettleAdvance
<1>6. CASE Write(i, Loaded(i)) /\ Pinned(Loaded(i)) /\ sup' = Idle
  <2>1. Loaded(i) = disk[i]
    <3>1. CASE Pinned(disk[i]) BY <3>1 DEF Loaded
    <3>2. CASE ~Pinned(disk[i])
      <4>1. ~InDoubt(disk[i]) /\ ~Prepared(disk[i]) BY <3>2 DEF Pinned
      <4>2. ~InDoubt(Loaded(i)) /\ ~Prepared(Loaded(i)) BY <1>1, <1>2, <4>1, LoadedState DEF Prepared
      <4> QED BY <1>6, <4>2 DEF Pinned
    <3> QED BY <3>1, <3>2
  <2>2. disk' = disk BY <1>4, <1>6, <2>1 DEF Write
  <2> QED BY <1>3, <1>6, <2>2, SupComesAndGoes
<1>7. CASE Write(i, Loaded(i)) /\ ~InDoubt(Loaded(i)) /\ Advance
  <2>1. Settles(i, Loaded(i)) BY <1>1, <1>2, <1>7, LoadedState DEF Settles
  <2> QED BY <1>1, <1>2, <1>3, <1>7, <2>1, SettleAdvance
<1>8. CASE Halt BY <1>2, <1>6, <1>7, <1>8 DEF Halt, Conflicting, Pinned
<1> QED BY <1>5, <1>8

\* The steps after a call: the proof is found and written, or the call stays in doubt.
LEMMA SupAfterCall ==
  ASSUME SupInv, Ingest \/ Save \/ Doubt
  PROVE  SupInv'
<1>0. SupTypeOK /\ StatesStand /\ MemoryFits /\ InQueueOrder /\ CallsKept /\ ~replayed
  BY DEF SupInv
<1>1. sup \in HeldType BY <1>0 DEF Ingest, Save, Doubt, SupTypeOK, Idle
<1>2. PICK i \in QueueItems : i = sup.at BY <1>1 DEF HeldType
<1>3. disk \in [QueueItems -> StateType] /\ disk[i] \in StateType /\ native[i] \in Nat BY <1>0 DEF SupTypeOK
<1>4. CASE Ingest
  <2>0. /\ sup.pc = "child" /\ sup.mem = disk[i] /\ InDoubt(disk[i])
        /\ UNCHANGED <<entry, policy, native, disk, begun, proven, called, replayed>>
    BY <1>0, <1>2, <1>4 DEF Ingest, MemoryFits
  <2>1. /\ CallOf(i, disk[i].action, disk[i].key) \in proven
        /\ disk[i].action = "board_write" => native[i] = disk[i].key.rev + 1
    BY <1>2, <1>4, <2>0 DEF Ingest, Proof, Current, CallOf
  <2>2. disk[i].action = "board_write" => native[i] > disk[i].key.rev
    <3>1. disk[i].key.rev \in Nat BY <1>3 DEF StateType, KeyType
    <3> QED BY <1>3, <2>1, <3>1
  <2>3. sup' = [sup EXCEPT !.pc = "save", !.mem = Verified(sup.mem)] BY <1>4 DEF Ingest
  <2>4. Verified(disk[i]) \in StateType BY <2>0, <2>1, <2>2, VerifiedState DEF Settles
  <2>5. /\ sup' \in HeldType /\ sup'.pc = "save" /\ sup'.mem = Verified(disk[i])
        /\ sup'.at = i /\ sup'.snap = sup.snap
    BY <1>1, <1>2, <2>0, <2>3, <2>4 DEF HeldType
  <2>6. SupTypeOK' BY <1>0, <2>0, <2>5 DEF SupTypeOK
  <2>7. StatesStand' BY <1>0, <2>0 DEF StatesStand, Stands, DoubtFits, Prepared, InDoubt
  <2>8. MemoryFits' BY <2>0, <2>1, <2>2, <2>5 DEF MemoryFits, InDoubt
  <2>9. sup # Idle BY <2>0 DEF Idle
  <2>10. InQueueOrder' BY <1>0, <1>2, <2>0, <2>5, <2>9 DEF InQueueOrder, InDoubt
  <2>11. CallsKept'
    <3> SUFFICES ASSUME NEW c \in called PROVE CallKept(c)'
      BY <2>0 DEF CallsKept
    <3>1. CallKept(c) BY <1>0 DEF CallsKept
    <3>2. (Pending(c)' <=> Pending(c)) /\ (Ahead(c.item)' => Ahead(c.item))
      BY <1>2, <2>0, <2>5, <2>9 DEF Pending, InDoubt, Ahead
    <3> QED BY <2>0, <2>5, <3>1, <3>2 DEF CallKept, Prepared, InDoubt
  <2> QED BY <1>0, <2>0, <2>6, <2>7, <2>8, <2>10, <2>11 DEF SupInv
<1>5. CASE Save
  <2>1. /\ InDoubt(disk[i]) /\ sup.mem = Verified(disk[i]) /\ CallOf(i, disk[i].action, disk[i].key) \in proven
        /\ disk[i].action = "board_write" => native[i] > disk[i].key.rev
    BY <1>0, <1>2, <1>5 DEF Save, MemoryFits
  <2>2. Settles(i, sup.mem) BY <2>1, VerifiedState
  <2>3. Write(i, sup.mem) /\ Advance /\ UNCHANGED <<entry, policy, native, begun, proven, called, replayed>>
    BY <1>2, <1>5 DEF Save
  <2> QED BY <1>1, <1>2, <2>2, <2>3, SettleAdvance
<1>6. CASE Doubt
  <2>0. /\ sup.mem = disk[i] /\ InDoubt(disk[i]) /\ sup' = Idle
        /\ UNCHANGED <<entry, policy, native, begun, proven, called, replayed>>
    BY <1>0, <1>2, <1>6 DEF Doubt, MemoryFits
  <2>1. disk' = [disk EXCEPT ![i] = [disk[i] EXCEPT !.op = "uncertain"]] BY <1>2, <1>6, <2>0 DEF Doubt, Write
  <2>2. /\ disk'[i] \in StateType /\ disk'[i].op = "uncertain"
        /\ disk'[i].entry = disk[i].entry /\ disk'[i].policy = disk[i].policy
        /\ disk'[i].action = disk[i].action /\ disk'[i].key = disk[i].key
        /\ disk'[i].evidence = disk[i].evidence /\ disk'[i].of = disk[i].of
    BY <1>3, <2>1 DEF StateType
  <2>3. disk' \in [QueueItems -> StateType] /\ \A j \in QueueItems \ {i} : disk'[j] = disk[j]
    BY <1>3, <2>1, <2>2
  <2>4. InDoubt(disk'[i]) BY <2>2 DEF InDoubt
  <2>5. SupTypeOK' BY <1>0, <2>0, <2>3 DEF SupTypeOK
  <2>6. StatesStand'
    <3>1. ASSUME NEW j \in QueueItems, j # i PROVE Stands(j, disk[j])' /\ DoubtFits(disk[j])'
      BY <1>0, <2>0, <2>3, <3>1 DEF StatesStand, Stands, DoubtFits, Prepared, InDoubt
    <3>2. Stands(i, disk[i])' BY <1>0, <2>0, <2>2 DEF StatesStand, Stands, Prepared
    <3>3. DoubtFits(disk[i])' BY <1>0, <2>0, <2>2 DEF StatesStand, DoubtFits, Prepared
    <3> QED BY <3>1, <3>2, <3>3 DEF StatesStand
  <2>7. MemoryFits' BY <2>0 DEF MemoryFits, Idle
  <2>8. InQueueOrder' BY <2>0 DEF InQueueOrder
  <2>9. CallsKept'
    <3> SUFFICES ASSUME NEW c \in called PROVE CallKept(c)'
      BY <2>0 DEF CallsKept
    <3>1. CallKept(c) /\ c.item \in QueueItems BY <1>0 DEF CallsKept, SupTypeOK, CallType
    <3>2. ~Ahead(c.item)' BY <2>0 DEF Ahead
    <3>3. CASE c.item = i BY <2>0, <2>2, <2>4, <3>1, <3>2, <3>3 DEF CallKept, Pending, Prepared
    <3>4. CASE c.item # i BY <2>0, <2>3, <3>1, <3>2, <3>4 DEF CallKept, Pending, Prepared, InDoubt
    <3> QED BY <3>3, <3>4
  <2> QED BY <1>0, <2>0, <2>5, <2>6, <2>7, <2>8, <2>9 DEF SupInv
<1> QED BY <1>4, <1>5, <1>6

\* Every step of the supervisor, of its items and of the people outside keeps the invariant.
LEMMA SupStep == SupInv /\ [SupNext]_supVars => SupInv'
<1> SUFFICES ASSUME SupInv, [SupNext]_supVars PROVE SupInv'
  OBVIOUS
<1>1. CASE \/ \E i \in QueueItems : ChangeQueue(i) \/ EditItem(i)
           \/ ChangePolicy \/ LandLate \/ Begin \/ Complete
  BY <1>1, SupOutside
<1>2. CASE (\E mode \in {"observe", "run"} : Start(mode)) \/ Die
  <2>1. UNCHANGED <<entry, policy, native, disk, begun, proven, called, replayed>> BY <1>2 DEF Start, Die
  <2>2. sup' = Idle \/ \E mode \in {"observe", "run"} : Start(mode) BY <1>2 DEF Die
  <2> QED BY <2>1, <2>2, SupComesAndGoes
<1>3. CASE UNCHANGED supVars
  <2>1. SupTypeOK' BY <1>3 DEF supVars, SupInv, SupTypeOK
  <2>2. \A i \in QueueItems : native'[i] >= native[i] BY <1>3 DEF supVars, SupInv, SupTypeOK
  <2> QED BY <1>3, <2>1, <2>2, SupGrows DEF supVars
<1> QED BY <1>1, <1>2, <1>3, SupAtItem, SupCalls, SupAfterCall DEF SupNext

\* What a state file says a child achieved, the child's own durable state proves, and
\* a prepared candidate is attributed to what its call was made under.
THEOREM SupervisorEvidence == SupSpec => []EvidenceStands
<1>1. SupInv => EvidenceStands BY DEF SupInv, StatesStand, Stands, EvidenceStands
<1> QED BY <1>1, SupFirst, SupStep, PTL DEF SupSpec

\* No call is made twice, and nothing is called past an item that is in doubt.
THEOREM SupervisorCallsOnce == SupSpec => []NeverReplayed
<1>1. SupInv => NeverReplayed
  <2> SUFFICES ASSUME SupInv, sup.pc = "child", NEW j \in 1..(sup.at - 1) PROVE ~InDoubt(disk[j])
    BY DEF SupInv, NeverReplayed
  <2>1. sup # Idle /\ sup \in HeldType BY DEF SupInv, SupTypeOK, Idle
  <2>2. sup.at \in 1..Queue BY <2>1 DEF HeldType, QueueItems
  <2>3. j \in QueueItems /\ j < sup.at BY <2>2, QueueAssumption DEF QueueItems
  <2> QED BY <2>1, <2>3 DEF SupInv, InQueueOrder
<1> QED BY <1>1, SupFirst, SupStep, PTL DEF SupSpec

=============================================================================
