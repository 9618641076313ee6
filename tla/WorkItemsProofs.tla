--------------------------- MODULE WorkItemsProofs ---------------------------
(***************************************************************************)
(* Proofs about the local work-item lane, for any items, workers, roles    *)
(* and scopes.                                                             *)
(*                                                                         *)
(* Custody (which child runs for which item) holds in every regime.  The   *)
(* promises of the scheduler hold when requeue-stale leaves the claims of  *)
(* live workers alone (~StealLive).                                        *)
(***************************************************************************)
EXTENDS WorkItems, TLAPS

Item == {{}} \cup {{i} : i \in Items}

\* Where a worker may still launch, supervise or report an invocation.
Busy == {"claimed", "loaded", "marked", "running", "reporting"}

\* A worker holds an item exactly while it is busy, ...
HoldsItem == \A w \in Workers : worker[w].item # {} <=> worker[w].pc \in Busy

\* ... one that was added to the store, ...
HoldsAdded == \A w \in Workers : \A i \in worker[w].item : item[i].state # "absent"

\* ... and an invocation id from the mark on.
HoldsInvocation ==
  \A w \in Workers : /\ worker[w].pc \in {"idle", "claimed", "loaded", "dead"} => worker[w].inv = None
                     /\ worker[w].pc \in {"marked", "running"} => worker[w].inv # None

\* An invocation id belongs to one worker.
OwnInvocation ==
  \A w, v \in Workers : worker[w].inv = worker[v].inv /\ worker[w].inv # None => w = v

\* The item of a marked or running worker is marked with that worker's id.
MarkHolds ==
  \A w \in Workers : worker[w].pc \in {"marked", "running"} =>
    \A i \in worker[w].item : item[i].unc = worker[w].inv

\* No child before the launch, and none after its end was proved.
NoChildYet ==
  \A w \in Workers :
    /\ worker[w].pc = "marked" => child[worker[w].inv] = {}
    /\ worker[w].pc = "reporting" /\ worker[w].result.proved =>
         worker[w].inv # None /\ child[worker[w].inv] = {}

AbsentIsFresh == \A i \in Items : item[i].state = "absent" => item[i].unc = None

CustodyInv == /\ TypeOK
              /\ HoldsItem /\ HoldsAdded /\ HoldsInvocation
              /\ OwnInvocation /\ MarkHolds /\ NoChildYet
              /\ AbsentIsFresh /\ ChildIsMarked
-----------------------------------------------------------------------------
(* Types.                                                                  *)

\* The empty store and idle workers have the types of TypeOK.
LEMMA TypingInit == Init => TypeOK
BY ItemsAssumption DEF Init, TypeOK, FreshItem, Resting, NoResult, ItemType, WorkerType, ResultType, Statuses

\* A result that a refused run reports has the type of a result.
LEMMA RefusedType ==
  /\ \A s \in Statuses : Refused(s) \in ResultType
  /\ \A s \in Statuses : \A S \in SUBSET Roles : WithRun(Refused(s), S) \in ResultType
BY DEF Refused, WithRun, NoResult, ResultType, Statuses

\* A status computed at the end of a child is one that record_result accepts.
LEMMA FinishStatusType ==
  ASSUME NEW i, NEW before, NEW after, NEW f PROVE FinishStatus(i, before, after, f) \in Statuses
BY DEF FinishStatus, Statuses

\* Reporting keeps the type of the workers.
LEMMA ReportType ==
  ASSUME TypeOK, NEW w \in Workers, NEW r \in ResultType, Report(w, r)
  PROVE  worker' \in [Workers -> WorkerType]
BY ZenonT(40) DEF TypeOK, WorkerType, Report

\* Every action keeps the types of TypeOK.
LEMMA TypingStep == TypeOK /\ [Next]_vars => TypeOK'
<1> SUFFICES ASSUME TypeOK, [Next]_vars PROVE TypeOK'
  OBVIOUS
<1> USE ItemsAssumption
<1>1. ASSUME NEW i \in Items, Add(i) \/ Rework(i) PROVE TypeOK'
  <2>1. item[i] \in ItemType BY DEF TypeOK
  <2>2. FreshItem("ready") \in ItemType BY DEF FreshItem, ItemType, Statuses
  <2>3. [item[i] EXCEPT !.state = "ready", !.run = {}, !.passed = FALSE, !.reworked = TRUE] \in ItemType
    BY <2>1 DEF ItemType, Statuses
  <2>4. CASE Add(i) BY <2>2, <2>4 DEF TypeOK, Add
  <2>5. CASE Rework(i)
    <3>1. item' = [item EXCEPT ![i] = [item[i] EXCEPT !.state = "ready", !.run = {}, !.passed = FALSE, !.reworked = TRUE]]
      BY <2>5 DEF Rework, TypeOK
    <3> QED BY <2>3, <2>5, <3>1 DEF TypeOK, Rework
  <2> QED BY <1>1, <2>4, <2>5
<1>2. ASSUME NEW S \in SUBSET Items, RequeueStale(S) PROVE TypeOK'
  BY <1>2 DEF TypeOK, RequeueStale, ItemType, Statuses
<1>3. ASSUME NEW w \in Workers, NEW i \in Items, Claim(w, i) PROVE TypeOK'
  <2>1. item' \in [Items -> ItemType]
    BY <1>3 DEF TypeOK, Claim, ItemType
  <2>2. [worker[w] EXCEPT !.pc = "claimed", !.item = {i}] \in WorkerType
    BY DEF TypeOK, WorkerType
  <2>3. worker' = [worker EXCEPT ![w] = [worker[w] EXCEPT !.pc = "claimed", !.item = {i}]]
    BY <1>3 DEF TypeOK, Claim
  <2> QED BY <1>3, <2>1, <2>2, <2>3 DEF TypeOK, Claim
<1>4. ASSUME NEW w \in Workers, Run(w) PROVE TypeOK'
  <2>0. worker[w].item \subseteq Items /\ worker[w].inv \in Invocations \cup {None} /\ worker[w].before \in SUBSET Roles
    BY DEF TypeOK, WorkerType
  <2>1. CASE RefuseEarly(w)
    BY <2>1, RefusedType, ReportType DEF TypeOK, RefuseEarly, Statuses
  <2>2. CASE LoadRun(w)
    <3>1. PICK i \in worker[w].item :
            \/ item[i].run # Roles /\ worker' = [worker EXCEPT ![w].pc = "loaded", ![w].before = item[i].run]
            \/ item[i].run = Roles /\ i \notin Gated /\ worker' = [worker EXCEPT ![w].pc = "loaded"]
            \/ item[i].run = Roles /\ i \in Gated /\ Report(w, Refused("blocked"))
      BY <2>2 DEF LoadRun
    <3>2. item[i].run \in SUBSET Roles BY <2>0 DEF TypeOK, ItemType
    <3>3. worker' \in [Workers -> WorkerType]
      BY <3>1, <3>2, RefusedType, ReportType DEF TypeOK, WorkerType, Statuses
    <3> QED BY <2>2, <3>3 DEF TypeOK, LoadRun
  <2>3. CASE RefuseLoaded(w)
    BY <2>0, <2>3, RefusedType, ReportType DEF TypeOK, RefuseLoaded, Statuses
  <2>4. CASE Mark(w)
    <3>1. CASE item' = item /\ Report(w, Refused("blocked"))
      BY <2>4, <3>1, RefusedType, ReportType DEF TypeOK, Mark, Statuses
    <3>2. ASSUME NEW i \in worker[w].item, NEW n \in Invocations, item' = [item EXCEPT ![i].unc = n],
                 worker' = [worker EXCEPT ![w].pc = "marked", ![w].inv = n]
          PROVE  TypeOK'
      <4>1. item' \in [Items -> ItemType]
        BY <2>0, <3>2 DEF TypeOK, ItemType
      <4>2. [worker[w] EXCEPT !.pc = "marked", !.inv = n] \in WorkerType
        BY DEF TypeOK, WorkerType
      <4>3. worker' = [worker EXCEPT ![w] = [worker[w] EXCEPT !.pc = "marked", !.inv = n]]
        BY <3>2 DEF TypeOK
      <4> QED BY <2>4, <4>1, <4>2, <4>3 DEF TypeOK, Mark
    <3> QED BY <2>4, <3>1, <3>2 DEF Mark
  <2>5. CASE CancelMarked(w)
    <3>1. worker' \in [Workers -> WorkerType]
      BY <2>0, <2>5, RefusedType, ReportType DEF CancelMarked, Statuses
    <3>2. item' \in [Items -> ItemType]
      BY <2>0, <2>5 DEF TypeOK, CancelMarked, ItemType
    <3> QED BY <2>5, <3>1, <3>2 DEF TypeOK, CancelMarked
  <2>6. CASE RefusePinned(w)
    BY <2>6, RefusedType, ReportType DEF TypeOK, RefusePinned, Statuses
  <2>7. CASE Launch(w)
    <3>1. worker[w].item \in Item BY DEF TypeOK, WorkerType, Item
    <3>2. child' \in [Invocations -> Item] BY <2>7, <3>1 DEF TypeOK, Launch, Item
    <3> QED BY <2>7, <3>2 DEF TypeOK, Launch, WorkerType, Item
  <2>8. CASE LaunchUnknown(w)
    <3>1. worker[w].item \in Item BY DEF TypeOK, WorkerType, Item
    <3>2. child' \in [Invocations -> Item] BY <2>8, <3>1 DEF TypeOK, LaunchUnknown, Item
    <3>3. worker' \in [Workers -> WorkerType]
      BY <2>8, RefusedType, ReportType DEF LaunchUnknown, Statuses
    <3> QED BY <2>8, <3>2, <3>3 DEF TypeOK, LaunchUnknown, Item
  <2>9. CASE Finish(w)
    <3>0. PICK i \in worker[w].item :
            \E after \in AfterRoles(i, worker[w].before) : \E f \in Endings(i, after) :
              Report(w, [status |-> FinishStatus(i, worker[w].before, after, f), proved |-> TRUE,
                         hasRun |-> TRUE, roles |-> after, passed |-> f.passed])
      BY <2>9 DEF Finish
    <3>a. PICK after \in AfterRoles(i, worker[w].before) : \E f \in Endings(i, after) :
            Report(w, [status |-> FinishStatus(i, worker[w].before, after, f), proved |-> TRUE,
                       hasRun |-> TRUE, roles |-> after, passed |-> f.passed])
      BY <3>0
    <3>1. PICK f \in Endings(i, after) :
            Report(w, [status |-> FinishStatus(i, worker[w].before, after, f), proved |-> TRUE,
                       hasRun |-> TRUE, roles |-> after, passed |-> f.passed])
      BY <3>a
    <3>2. after \in SUBSET Roles BY DEF AfterRoles
    <3>3. f.passed \in BOOLEAN BY DEF Endings
    <3>4. [status |-> FinishStatus(i, worker[w].before, after, f), proved |-> TRUE,
           hasRun |-> TRUE, roles |-> after, passed |-> f.passed] \in ResultType
      BY <3>2, <3>3, FinishStatusType DEF ResultType
    <3>5. worker' \in [Workers -> WorkerType] BY <3>1, <3>4, ReportType
    <3> QED BY <2>9, <3>5 DEF TypeOK, Finish
  <2>10. CASE FinishUnproved(w)
    <3>1. ASSUME NEW i, NEW after \in IF i \in Contracted THEN {worker[w].before}
                                       ELSE AfterRoles(i, worker[w].before)
          PROVE  after \in SUBSET Roles
      BY <2>0 DEF AfterRoles
    <3>2. worker' \in [Workers -> WorkerType]
      BY <2>10, <3>1, RefusedType, ReportType DEF FinishUnproved, Statuses
    <3>3. child' \in [Invocations -> Item] BY <2>10 DEF TypeOK, FinishUnproved, Item
    <3> QED BY <2>10, <3>2, <3>3 DEF TypeOK, FinishUnproved, Item
  <2>11. CASE Record(w)
    <3>1. worker[w].result \in ResultType BY DEF TypeOK, WorkerType
    <3>2. Resting("idle") \in WorkerType
      BY DEF Resting, NoResult, WorkerType, ResultType, Statuses
    <3>3. worker' \in [Workers -> WorkerType] BY <2>11, <3>2 DEF TypeOK, Record
    <3>4. ASSUME NEW i \in worker[w].item PROVE Recorded(w, i) \in ItemType
      <4>1. item[i] \in ItemType BY <2>0 DEF TypeOK
      <4>2. RecordedStatus(w, i) \in Statuses BY <3>1 DEF RecordedStatus, ResultType, Statuses
      <4>3. (worker[w].result.passed /\ RecordedStatus(w, i) = "done") \in BOOLEAN
        OBVIOUS
      <4> QED BY <3>1, <4>1, <4>2, <4>3 DEF Recorded, ItemType, ResultType
    <3>5. item' \in [Items -> ItemType]
      BY <2>0, <2>11, <3>4 DEF TypeOK, Record
    <3> QED BY <2>11, <3>3, <3>5 DEF TypeOK, Record
  <2> QED BY <1>4, <2>1, <2>2, <2>3, <2>4, <2>5, <2>6, <2>7, <2>8, <2>9, <2>10, <2>11 DEF Run
<1>5. ASSUME NEW w \in Workers, Crash(w) \/ Restart(w) PROVE TypeOK'
  <2>1. Resting("idle") \in WorkerType /\ Resting("dead") \in WorkerType
    BY DEF Resting, NoResult, WorkerType, ResultType, Statuses
  <2> QED BY <1>5, <2>1 DEF TypeOK, Crash, Restart
<1>6. ASSUME NEW n \in Invocations, Exit(n) PROVE TypeOK'
  BY <1>6 DEF TypeOK, Exit
<1>7. CASE UNCHANGED vars BY <1>7 DEF vars, TypeOK
<1> QED BY <1>1, <1>2, <1>3, <1>4, <1>5, <1>6, <1>7 DEF Next

\* The store, the workers' memory and the children have their types in every
\* reachable state of the lane.
THEOREM TypesHold == Spec => []TypeOK
<1>1. Init => TypeOK BY TypingInit
<1>2. TypeOK /\ [Next]_vars => TypeOK' BY TypingStep
<1> QED BY <1>1, <1>2, PTL DEF Spec
-----------------------------------------------------------------------------
(* Custody.                                                                *)

\* Before the first item is added there is nothing in custody.
LEMMA CustodyInit == Init => CustodyInv
<1> SUFFICES ASSUME Init PROVE CustodyInv
  OBVIOUS
<1>1. TypeOK BY TypingInit
<1> QED
  BY <1>1 DEF Init, CustodyInv, HoldsItem, HoldsAdded, HoldsInvocation, OwnInvocation, MarkHolds,
              NoChildYet, AbsentIsFresh, ChildIsMarked, FreshItem, Resting, Busy

\* A step that only touches the store and neither marks, resolves nor removes an item.
LEMMA StoreOnly ==
  ASSUME CustodyInv, TypeOK', UNCHANGED <<worker, child>>,
         \A i \in Items : /\ item'[i].unc = item[i].unc
                          /\ item'[i].state = "absent" => item[i].state = "absent"
  PROVE  CustodyInv'
<1> USE ItemsAssumption DEF CustodyInv, TypeOK, WorkerType
<1>1. HoldsItem' BY DEF HoldsItem, Busy
<1>2. HoldsAdded' BY DEF HoldsAdded
<1>3. HoldsInvocation' BY DEF HoldsInvocation
<1>4. OwnInvocation' BY DEF OwnInvocation
<1>5. MarkHolds' BY DEF MarkHolds, OwnInvocation, HoldsInvocation
<1>6. NoChildYet' BY DEF NoChildYet, OwnInvocation, HoldsInvocation
<1>7. AbsentIsFresh' BY DEF AbsentIsFresh, HoldsAdded
<1>8. ChildIsMarked' BY DEF ChildIsMarked, NoChildYet, MarkHolds
<1> QED BY <1>1, <1>2, <1>3, <1>4, <1>5, <1>6, <1>7, <1>8

\* A worker gives up and reports without proof; children may have ended meanwhile.
LEMMA ReportsUnproved ==
  ASSUME CustodyInv, TypeOK', NEW w \in Workers, worker[w].pc \in Busy,
         NEW r, ~r.proved, Report(w, r), UNCHANGED item,
         \A n \in Invocations : child'[n] \subseteq child[n]
  PROVE  CustodyInv'
<1> USE ItemsAssumption DEF CustodyInv, TypeOK, WorkerType, Report
<1>1. HoldsItem' BY DEF HoldsItem, Busy
<1>2. HoldsAdded' BY DEF HoldsAdded
<1>3. HoldsInvocation' BY DEF HoldsInvocation
<1>4. OwnInvocation' BY DEF OwnInvocation
<1>5. MarkHolds' BY DEF MarkHolds, OwnInvocation, HoldsInvocation
<1>6. NoChildYet' BY DEF NoChildYet, OwnInvocation, HoldsInvocation
<1>7. AbsentIsFresh' BY DEF AbsentIsFresh, HoldsAdded
<1>8. ChildIsMarked' BY DEF ChildIsMarked, NoChildYet, MarkHolds
<1> QED BY <1>1, <1>2, <1>3, <1>4, <1>5, <1>6, <1>7, <1>8

\* add_work_item and requeue_for_rework leave the marks and the children alone.
LEMMA CustodyAdd ==
  ASSUME CustodyInv, TypeOK', NEW i \in Items, Add(i)
  PROVE  CustodyInv'
<1> USE ItemsAssumption DEF CustodyInv, TypeOK, ItemType, WorkerType
<1>1. HoldsItem' BY DEF HoldsItem, Busy, Add, FreshItem
<1>2. HoldsAdded' BY DEF HoldsAdded, Add, FreshItem
<1>3. HoldsInvocation' BY DEF HoldsInvocation, Add, FreshItem
<1>4. OwnInvocation' BY DEF OwnInvocation, Add, FreshItem
<1>5. MarkHolds'
  <2>1. \A w \in Workers : i \notin worker[w].item BY DEF HoldsAdded, Add
  <2> QED BY <2>1 DEF MarkHolds, Add
<1>6. NoChildYet' BY DEF NoChildYet, OwnInvocation, HoldsInvocation, Add, FreshItem
<1>7. AbsentIsFresh' BY DEF AbsentIsFresh, Add, FreshItem
<1>8. ChildIsMarked'
  <2>1. \A n \in Invocations : i \notin child[n] BY DEF ChildIsMarked, AbsentIsFresh, Add
  <2> QED BY <2>1 DEF ChildIsMarked, Add
<1> QED BY <1>1, <1>2, <1>3, <1>4, <1>5, <1>6, <1>7, <1>8

\* claim gives a worker an item and no invocation yet.
LEMMA CustodyClaim ==
  ASSUME CustodyInv, TypeOK', NEW w \in Workers, NEW i \in Items, Claim(w, i)
  PROVE  CustodyInv'
<1> USE ItemsAssumption DEF CustodyInv, TypeOK, ItemType, WorkerType
<1>1. HoldsItem' BY DEF HoldsItem, Busy, Claim, Ready
<1>2. HoldsAdded' BY DEF HoldsAdded, Claim, Ready
<1>3. HoldsInvocation' BY DEF HoldsInvocation, Claim, Ready
<1>4. OwnInvocation' BY DEF OwnInvocation, Claim, Ready
<1>5. MarkHolds' BY DEF MarkHolds, OwnInvocation, HoldsInvocation, Claim, Ready
<1>6. NoChildYet' BY DEF NoChildYet, OwnInvocation, HoldsInvocation, Claim, Ready
<1>7. AbsentIsFresh' BY DEF AbsentIsFresh, HoldsAdded, Claim, Ready
<1>8. ChildIsMarked' BY DEF ChildIsMarked, NoChildYet, MarkHolds, Claim, Ready
<1> QED BY <1>1, <1>2, <1>3, <1>4, <1>5, <1>6, <1>7, <1>8

\* A worker that dies or restarts drops what it held; its child keeps its mark.
LEMMA CustodyCrash ==
  ASSUME CustodyInv, TypeOK', NEW w \in Workers, Crash(w) \/ Restart(w)
  PROVE  CustodyInv'
<1> USE ItemsAssumption DEF CustodyInv, TypeOK, ItemType, WorkerType
<1>1. HoldsItem' BY DEF HoldsItem, Busy, Crash, Restart, Resting
<1>2. HoldsAdded' BY DEF HoldsAdded, Crash, Restart, Resting
<1>3. HoldsInvocation' BY DEF HoldsInvocation, Crash, Restart, Resting
<1>4. OwnInvocation' BY DEF OwnInvocation, Crash, Restart, Resting
<1>5. MarkHolds' BY DEF MarkHolds, OwnInvocation, HoldsInvocation, Crash, Restart, Resting
<1>6. NoChildYet' BY DEF NoChildYet, OwnInvocation, HoldsInvocation, Crash, Restart, Resting
<1>7. AbsentIsFresh' BY DEF AbsentIsFresh, HoldsAdded, Crash, Restart, Resting
<1>8. ChildIsMarked' BY DEF ChildIsMarked, NoChildYet, MarkHolds, Crash, Restart, Resting
<1> QED BY <1>1, <1>2, <1>3, <1>4, <1>5, <1>6, <1>7, <1>8

\* A child that ends leaves the marks as they are.
LEMMA CustodyExit ==
  ASSUME CustodyInv, TypeOK', NEW n \in Invocations, Exit(n)
  PROVE  CustodyInv'
<1> USE ItemsAssumption DEF CustodyInv, TypeOK, ItemType, WorkerType
<1>1. HoldsItem' BY DEF HoldsItem, Busy, Exit
<1>2. HoldsAdded' BY DEF HoldsAdded, Exit
<1>3. HoldsInvocation' BY DEF HoldsInvocation, Exit
<1>4. OwnInvocation' BY DEF OwnInvocation, Exit
<1>5. MarkHolds' BY DEF MarkHolds, OwnInvocation, HoldsInvocation, Exit
<1>6. NoChildYet' BY DEF NoChildYet, OwnInvocation, HoldsInvocation, Exit
<1>7. AbsentIsFresh' BY DEF AbsentIsFresh, HoldsAdded, Exit
<1>8. ChildIsMarked' BY DEF ChildIsMarked, NoChildYet, MarkHolds, Exit
<1> QED BY <1>1, <1>2, <1>3, <1>4, <1>5, <1>6, <1>7, <1>8

\* mark_uncertain gives item and worker the same unused id, before any child.
LEMMA CustodyMark ==
  ASSUME CustodyInv, TypeOK', NEW w \in Workers, NEW i \in worker[w].item, NEW n \in Invocations, Unused(n), ~Unresolved(i),
         worker[w].pc = "loaded", UNCHANGED child,
         item' = [item EXCEPT ![i].unc = n],
         worker' = [worker EXCEPT ![w].pc = "marked", ![w].inv = n]
  PROVE  CustodyInv'
<1> USE ItemsAssumption DEF CustodyInv, TypeOK, ItemType, WorkerType
<1>1. HoldsItem' BY DEF HoldsItem, Busy, Unused, Unresolved
<1>2. HoldsAdded' BY DEF HoldsAdded, Unused, Unresolved
<1>3. HoldsInvocation' BY DEF HoldsInvocation, Unused, Unresolved
<1>4. OwnInvocation' BY DEF OwnInvocation, Unused, Unresolved
<1>5. MarkHolds' BY DEF MarkHolds, OwnInvocation, HoldsInvocation, Unused, Unresolved
<1>6. NoChildYet' BY DEF NoChildYet, OwnInvocation, HoldsInvocation, Unused, Unresolved
<1>7. AbsentIsFresh' BY DEF AbsentIsFresh, HoldsAdded, Unused, Unresolved
<1>8. ChildIsMarked' BY DEF ChildIsMarked, NoChildYet, MarkHolds, Unused, Unresolved
<1> QED BY <1>1, <1>2, <1>3, <1>4, <1>5, <1>6, <1>7, <1>8

\* A worker between claim and mark, or one that refuses, has no child.
LEMMA CustodyLoaded ==
  ASSUME CustodyInv, TypeOK', NEW w \in Workers, worker[w].pc = "claimed", NEW b,
         worker' = [worker EXCEPT ![w].pc = "loaded", ![w].before = b] \/ worker' = [worker EXCEPT ![w].pc = "loaded"],
         UNCHANGED <<item, child>>
  PROVE  CustodyInv'
<1> USE ItemsAssumption DEF CustodyInv, TypeOK, ItemType, WorkerType
<1>1. HoldsItem' BY DEF HoldsItem, Busy
<1>2. HoldsAdded' BY DEF HoldsAdded
<1>3. HoldsInvocation' BY DEF HoldsInvocation
<1>4. OwnInvocation' BY DEF OwnInvocation
<1>5. MarkHolds' BY DEF MarkHolds, OwnInvocation, HoldsInvocation
<1>6. NoChildYet' BY DEF NoChildYet, OwnInvocation, HoldsInvocation
<1>7. AbsentIsFresh' BY DEF AbsentIsFresh, HoldsAdded
<1>8. ChildIsMarked' BY DEF ChildIsMarked, NoChildYet, MarkHolds
<1> QED BY <1>1, <1>2, <1>3, <1>4, <1>5, <1>6, <1>7, <1>8

\* A mark is taken back only while its child has not been started.
LEMMA CustodyCancelMarked ==
  ASSUME CustodyInv, TypeOK', NEW w \in Workers, CancelMarked(w)
  PROVE  CustodyInv'
<1> USE ItemsAssumption DEF CustodyInv, TypeOK, ItemType, WorkerType
<1>1. HoldsItem' BY DEF HoldsItem, Busy, CancelMarked, Report, Refused, NoResult, WithRun
<1>2. HoldsAdded' BY DEF HoldsAdded, CancelMarked, Report, Refused, NoResult, WithRun
<1>3. HoldsInvocation' BY DEF HoldsInvocation, CancelMarked, Report, Refused, NoResult, WithRun
<1>4. OwnInvocation' BY DEF OwnInvocation, CancelMarked, Report, Refused, NoResult, WithRun
<1>5. MarkHolds' BY DEF MarkHolds, OwnInvocation, HoldsInvocation, CancelMarked, Report, Refused, NoResult, WithRun
<1>6. NoChildYet' BY DEF NoChildYet, OwnInvocation, HoldsInvocation, CancelMarked, Report, Refused, NoResult, WithRun
<1>7. AbsentIsFresh' BY DEF AbsentIsFresh, HoldsAdded, CancelMarked, Report, Refused, NoResult, WithRun
<1>8. ChildIsMarked' BY DEF ChildIsMarked, NoChildYet, MarkHolds, CancelMarked, Report, Refused, NoResult, WithRun
<1> QED BY <1>1, <1>2, <1>3, <1>4, <1>5, <1>6, <1>7, <1>8

\* The child that starts is the one its item is marked with.
LEMMA CustodyLaunch ==
  ASSUME CustodyInv, TypeOK', NEW w \in Workers, Launch(w)
  PROVE  CustodyInv'
<1> USE ItemsAssumption DEF CustodyInv, TypeOK, ItemType, WorkerType
<1>1. HoldsItem' BY DEF HoldsItem, Busy, Launch
<1>2. HoldsAdded' BY DEF HoldsAdded, Launch
<1>3. HoldsInvocation' BY DEF HoldsInvocation, Launch
<1>4. OwnInvocation' BY DEF OwnInvocation, Launch
<1>5. MarkHolds' BY DEF MarkHolds, OwnInvocation, HoldsInvocation, Launch
<1>6. NoChildYet' BY DEF NoChildYet, OwnInvocation, HoldsInvocation, Launch
<1>7. AbsentIsFresh' BY DEF AbsentIsFresh, HoldsAdded, Launch
<1>8. ChildIsMarked' BY DEF ChildIsMarked, NoChildYet, MarkHolds, Launch
<1> QED BY <1>1, <1>2, <1>3, <1>4, <1>5, <1>6, <1>7, <1>8

\* So is the child of a launch that raised, if there is one.
LEMMA CustodyLaunchUnknown ==
  ASSUME CustodyInv, TypeOK', NEW w \in Workers, LaunchUnknown(w)
  PROVE  CustodyInv'
<1> USE ItemsAssumption DEF CustodyInv, TypeOK, ItemType, WorkerType
<1>1. HoldsItem' BY DEF HoldsItem, Busy, LaunchUnknown, Report, Refused, NoResult
<1>2. HoldsAdded' BY DEF HoldsAdded, LaunchUnknown, Report, Refused, NoResult
<1>3. HoldsInvocation' BY DEF HoldsInvocation, LaunchUnknown, Report, Refused, NoResult
<1>4. OwnInvocation' BY DEF OwnInvocation, LaunchUnknown, Report, Refused, NoResult
<1>5. MarkHolds' BY DEF MarkHolds, OwnInvocation, HoldsInvocation, LaunchUnknown, Report, Refused, NoResult
<1>6. NoChildYet' BY DEF NoChildYet, OwnInvocation, HoldsInvocation, LaunchUnknown, Report, Refused, NoResult
<1>7. AbsentIsFresh' BY DEF AbsentIsFresh, HoldsAdded, LaunchUnknown, Report, Refused, NoResult
<1>8. ChildIsMarked' BY DEF ChildIsMarked, NoChildYet, MarkHolds, LaunchUnknown, Report, Refused, NoResult
<1> QED BY <1>1, <1>2, <1>3, <1>4, <1>5, <1>6, <1>7, <1>8

\* A result is proved only when the child of the invocation is gone.
LEMMA CustodyFinish ==
  ASSUME CustodyInv, TypeOK', NEW w \in Workers, Finish(w)
  PROVE  CustodyInv'
<1> USE ItemsAssumption DEF CustodyInv, TypeOK, ItemType, WorkerType
<1>1. HoldsItem' BY DEF HoldsItem, Busy, Finish, Report
<1>2. HoldsAdded' BY DEF HoldsAdded, Finish, Report
<1>3. HoldsInvocation' BY DEF HoldsInvocation, Finish, Report
<1>4. OwnInvocation' BY DEF OwnInvocation, Finish, Report
<1>5. MarkHolds' BY DEF MarkHolds, OwnInvocation, HoldsInvocation, Finish, Report
<1>6. NoChildYet' BY DEF NoChildYet, OwnInvocation, HoldsInvocation, Finish, Report
<1>7. AbsentIsFresh' BY DEF AbsentIsFresh, HoldsAdded, Finish, Report
<1>8. ChildIsMarked' BY DEF ChildIsMarked, NoChildYet, MarkHolds, Finish, Report
<1> QED BY <1>1, <1>2, <1>3, <1>4, <1>5, <1>6, <1>7, <1>8

\* record_result clears a mark only on a proved result of that invocation.
LEMMA CustodyRecord ==
  ASSUME CustodyInv, TypeOK', NEW w \in Workers, Record(w)
  PROVE  CustodyInv'
<1> USE ItemsAssumption DEF CustodyInv, TypeOK, ItemType, WorkerType
<1>1. HoldsItem' BY DEF HoldsItem, Busy, Record, Recorded, RecordedStatus, Resolves, Resting, Unresolved
<1>2. HoldsAdded'
  <2>1. \A i \in Items : RecordedStatus(w, i) # "absent" BY DEF RecordedStatus, ResultType, Statuses
  <2> QED BY <2>1 DEF HoldsAdded, Record, Recorded, Resting
<1>3. HoldsInvocation' BY DEF HoldsInvocation, Record, Recorded, RecordedStatus, Resolves, Resting, Unresolved
<1>4. OwnInvocation' BY ZenonT(40) DEF OwnInvocation, Record, Recorded, RecordedStatus, Resolves, Resting, Unresolved
<1>5. MarkHolds' BY SMTT(60) DEF MarkHolds, OwnInvocation, HoldsInvocation, Record, Recorded, RecordedStatus, Resolves, Resting, Unresolved
<1>6. NoChildYet' BY DEF NoChildYet, OwnInvocation, HoldsInvocation, Record, Recorded, RecordedStatus, Resolves, Resting, Unresolved
<1>7. AbsentIsFresh'
  <2>1. \A i \in Items : RecordedStatus(w, i) # "absent" BY DEF RecordedStatus, ResultType, Statuses
  <2> QED BY <2>1 DEF AbsentIsFresh, Record, Recorded
<1>8. ChildIsMarked'
  <2>1. PICK i \in worker[w].item : item' = [item EXCEPT ![i] = Recorded(w, i)] BY DEF Record
  <2>2. worker[w].pc = "reporting" /\ child' = child BY DEF Record
  <2>3. i \in Items /\ item[i] \in ItemType BY <2>2
  <2>4. item'[i] = Recorded(w, i) /\ \A j \in Items \ {i} : item'[j] = item[j] BY <2>1, <2>3
  <2>5. item'[i].unc = IF Resolves(w, i) THEN None ELSE item[i].unc BY <2>3, <2>4 DEF Recorded
  <2>6. Resolves(w, i) => \A n \in Invocations : i \notin child[n]
    BY <2>2 DEF Resolves, NoChildYet, ChildIsMarked
  <2>7. \A n \in Invocations : \A j \in child[n] : j \in Items /\ item[j].unc = n BY DEF ChildIsMarked
  <2> QED BY <2>2, <2>4, <2>5, <2>6, <2>7 DEF ChildIsMarked
<1> QED BY <1>1, <1>2, <1>3, <1>4, <1>5, <1>6, <1>7, <1>8

\* Custody is kept by every step of the lane.
LEMMA CustodyStep == CustodyInv /\ [Next]_vars => CustodyInv'
<1> SUFFICES ASSUME CustodyInv, [Next]_vars PROVE CustodyInv'
  OBVIOUS
<1>0. TypeOK /\ TypeOK' BY TypingStep DEF CustodyInv
<1>1. ASSUME NEW i \in Items, Add(i) PROVE CustodyInv'
  BY <1>0, <1>1, CustodyAdd
<1>2. ASSUME NEW i \in Items, Rework(i) PROVE CustodyInv'
  BY <1>0, <1>2, StoreOnly DEF Rework, TypeOK, ItemType
<1>3. ASSUME NEW S \in SUBSET Items, RequeueStale(S) PROVE CustodyInv'
  BY <1>0, <1>3, StoreOnly DEF RequeueStale, TypeOK, ItemType
<1>4. ASSUME NEW w \in Workers, NEW i \in Items, Claim(w, i) PROVE CustodyInv'
  BY <1>0, <1>4, CustodyClaim
<1>5. ASSUME NEW w \in Workers, Run(w) PROVE CustodyInv'
  <2>0. \A s \in Statuses, S \in SUBSET Roles : ~Refused(s).proved /\ ~WithRun(Refused(s), S).proved
    BY DEF Refused, WithRun, NoResult
  <2>1. CASE RefuseEarly(w)
    BY <1>0, <2>0, <2>1, ReportsUnproved DEF RefuseEarly, Busy, Statuses
  <2>2. CASE LoadRun(w)
    BY <1>0, <2>0, <2>2, ReportsUnproved, CustodyLoaded DEF LoadRun, Busy, Statuses
  <2>3. CASE RefuseLoaded(w)
    BY <1>0, <2>0, <2>3, ReportsUnproved DEF RefuseLoaded, Busy, Statuses, TypeOK, WorkerType
  <2>4. CASE Mark(w)
    BY <1>0, <2>0, <2>4, ReportsUnproved, CustodyMark DEF Mark, Busy, Statuses
  <2>5. CASE CancelMarked(w) BY <1>0, <2>5, CustodyCancelMarked
  <2>6. CASE RefusePinned(w)
    BY <1>0, <2>0, <2>6, ReportsUnproved DEF RefusePinned, Busy, Statuses
  <2>7. CASE Launch(w) BY <1>0, <2>7, CustodyLaunch
  <2>8. CASE LaunchUnknown(w) BY <1>0, <2>8, CustodyLaunchUnknown
  <2>9. CASE Finish(w) BY <1>0, <2>9, CustodyFinish
  <2>10. CASE FinishUnproved(w)
    <3>1. \A n \in Invocations : child'[n] \subseteq child[n]
      BY <1>0, <2>10 DEF FinishUnproved, TypeOK
    <3>2. \E r : Report(w, r) /\ ~r.proved
      <4>1. CASE Report(w, Refused("blocked"))
        BY <4>1 DEF Refused, NoResult
      <4>2. ASSUME NEW S, Report(w, WithRun(Refused("blocked"), S)) PROVE \E r : Report(w, r) /\ ~r.proved
        <5>1. ~WithRun(Refused("blocked"), S).proved BY DEF Refused, WithRun, NoResult
        <5> QED BY <4>2, <5>1
      <4> QED BY <2>10, <4>1, <4>2 DEF FinishUnproved
    <3>3. worker[w].pc \in Busy /\ UNCHANGED item
      BY <2>10 DEF FinishUnproved, Busy
    <3> QED BY <1>0, <3>1, <3>2, <3>3, ReportsUnproved
  <2>11. CASE Record(w) BY <1>0, <2>11, CustodyRecord
  <2> QED BY <1>5, <2>1, <2>2, <2>3, <2>4, <2>5, <2>6, <2>7, <2>8, <2>9, <2>10, <2>11 DEF Run
<1>6. ASSUME NEW w \in Workers, Crash(w) \/ Restart(w) PROVE CustodyInv'
  BY <1>0, <1>6, CustodyCrash
<1>7. ASSUME NEW n \in Invocations, Exit(n) PROVE CustodyInv'
  BY <1>0, <1>7, CustodyExit
<1>8. CASE UNCHANGED vars
  BY <1>0, <1>8, StoreOnly DEF vars
<1> QED BY <1>1, <1>2, <1>3, <1>4, <1>5, <1>6, <1>7, <1>8 DEF Next

\* In every regime, whatever workers crash or are overtaken: a child process that
\* runs is the one its item is marked with (mark_uncertain and record_result).
THEOREM CustodyHolds == Spec => []ChildIsMarked
<1>1. Init => CustodyInv BY CustodyInit
<1>2. CustodyInv /\ [Next]_vars => CustodyInv' BY CustodyStep
<1>3. CustodyInv => ChildIsMarked BY DEF CustodyInv
<1> QED BY <1>1, <1>2, <1>3, PTL DEF Spec

-----------------------------------------------------------------------------
(* The scheduler's promises, when requeue-stale leaves the claims of live      *)
(* workers alone (~StealLive); with StealLive they fail: see MCWorkItems.      *)

\* A worker's item is running, and no other worker has it.
SoleClaim ==
  \A w \in Workers : \A i \in worker[w].item :
    item[i].state = "running" /\ \A v \in Workers : i \in worker[v].item => v = w

\* A worker only reports done with every role complete and the review passed.
EarnedResult ==
  \A w \in Workers : worker[w].pc = "reporting" /\ worker[w].result.status = "done" =>
    /\ worker[w].result.hasRun
    /\ worker[w].result.roles = Roles
    /\ \A i \in worker[w].item : i \in Gated => worker[w].result.passed

ClaimInv == CustodyInv /\ SoleClaim /\ EarnedResult /\ DoneIsEarned

\* No item is claimed or done in the empty store.
LEMMA ClaimInit == Init => ClaimInv
<1> SUFFICES ASSUME Init PROVE ClaimInv
  OBVIOUS
<1>1. CustodyInv BY CustodyInit
<1> QED BY <1>1 DEF Init, ClaimInv, SoleClaim, EarnedResult, DoneIsEarned, FreshItem, Resting, NoResult

\* A step of a worker that neither changes the store nor reports done.
LEMMA ClaimQuiet ==
  ASSUME ClaimInv, CustodyInv', UNCHANGED item,
         \A w \in Workers : worker'[w].item \subseteq worker[w].item,
         \A w \in Workers : \/ worker'[w] = worker[w]
                            \/ worker'[w].pc # "reporting"
                            \/ worker'[w].result.status # "done"
  PROVE  ClaimInv'
<1> USE DEF ClaimInv
<1>1. SoleClaim' BY DEF SoleClaim
<1>2. EarnedResult' BY DEF EarnedResult
<1>3. DoneIsEarned' BY DEF DoneIsEarned, Unresolved
<1> QED BY <1>1, <1>2, <1>3

\* Adding or reworking an item touches no item that a worker holds.
LEMMA ClaimAdd ==
  ASSUME ClaimInv, CustodyInv', NEW i \in Items, Add(i) \/ Rework(i)
  PROVE  ClaimInv'
<1> USE DEF ClaimInv
<1>0. TypeOK /\ TypeOK' BY DEF CustodyInv
<1>1. \A w \in Workers : i \notin worker[w].item BY DEF SoleClaim, Add, Rework
<1>2. /\ worker' = worker
      /\ \A j \in Items \ {i} : item'[j] = item[j]
      /\ item'[i].state = "ready"
  BY <1>0 DEF Add, Rework, FreshItem, TypeOK, ItemType
<1>3. SoleClaim' BY <1>0, <1>1, <1>2 DEF SoleClaim, TypeOK, WorkerType
<1>4. EarnedResult' BY <1>2 DEF EarnedResult
<1>5. DoneIsEarned' BY <1>2 DEF DoneIsEarned, Unresolved
<1> QED BY <1>3, <1>4, <1>5

\* Requeueing takes no item from a live worker (this is where ~StealLive is used).
LEMMA ClaimRequeue ==
  ASSUME ~StealLive, ClaimInv, CustodyInv', NEW S \in SUBSET Items, RequeueStale(S)
  PROVE  ClaimInv'
<1> USE DEF ClaimInv
<1>0. TypeOK /\ TypeOK' BY DEF CustodyInv
<1>1. \A w \in Workers : worker[w].item \cap S = {}
  BY <1>0 DEF RequeueStale, Stale, HeldBySomeone, Working, TypeOK, WorkerType
<1>2. /\ worker' = worker
      /\ \A j \in Items \ S : item'[j] = item[j]
      /\ \A j \in S : item'[j].state = "ready"
  BY <1>0 DEF RequeueStale, TypeOK, ItemType
<1>3. SoleClaim' BY <1>0, <1>1, <1>2 DEF SoleClaim, TypeOK, WorkerType
<1>4. EarnedResult' BY <1>2 DEF EarnedResult
<1>5. DoneIsEarned' BY <1>2 DEF DoneIsEarned, Unresolved
<1> QED BY <1>3, <1>4, <1>5

\* A claimed item was ready, so nobody else holds it.
LEMMA ClaimClaim ==
  ASSUME ClaimInv, CustodyInv', NEW w \in Workers, NEW i \in Items, Claim(w, i)
  PROVE  ClaimInv'
<1> USE DEF ClaimInv
<1>0. TypeOK /\ TypeOK' BY DEF CustodyInv
<1>1. \A v \in Workers : i \notin worker[v].item BY DEF SoleClaim, Claim, Ready
<1>2. /\ \A j \in Items \ {i} : item'[j] = item[j]
      /\ item'[i].state = "running"
      /\ \A v \in Workers \ {w} : worker'[v] = worker[v]
      /\ worker'[w].item = {i} /\ worker'[w].pc = "claimed"
  BY <1>0 DEF Claim, TypeOK, ItemType, WorkerType
<1>3. SoleClaim'
  <2> SUFFICES ASSUME NEW v \in Workers, NEW j \in worker'[v].item
               PROVE  item'[j].state = "running" /\ \A u \in Workers : j \in worker'[u].item => u = v
    BY DEF SoleClaim
  <2>1. CASE v = w BY <1>1, <1>2, <2>1
  <2>2. CASE v # w
    <3>1. j \in worker[v].item /\ j # i /\ j \in Items BY <1>0, <1>1, <1>2, <2>2 DEF TypeOK, WorkerType
    <3> QED BY <1>2, <2>2, <3>1 DEF SoleClaim
  <2> QED BY <2>1, <2>2
<1>4. EarnedResult' BY <1>2 DEF EarnedResult
<1>5. DoneIsEarned' BY <1>2 DEF DoneIsEarned, Unresolved
<1> QED BY <1>3, <1>4, <1>5

\* Marking an item and resolving the mark leave its state running.
LEMMA ClaimMark ==
  ASSUME ClaimInv, CustodyInv', NEW w \in Workers, NEW i \in worker[w].item, NEW u,
         item' = [item EXCEPT ![i].unc = u],
         \A v \in Workers : worker'[v].item = worker[v].item,
         \A v \in Workers : \/ worker'[v] = worker[v]
                            \/ worker'[v].pc # "reporting"
                            \/ worker'[v].result.status # "done"
  PROVE  ClaimInv'
<1> USE DEF ClaimInv
<1>0. TypeOK /\ TypeOK' BY DEF CustodyInv
<1>1. i \in Items BY <1>0 DEF TypeOK, WorkerType
<1>2. /\ \A j \in Items \ {i} : item'[j] = item[j]
      /\ item'[i].state = "running"
  BY <1>0, <1>1 DEF SoleClaim, TypeOK, ItemType
<1>3. SoleClaim' BY <1>0, <1>1, <1>2 DEF SoleClaim, TypeOK, WorkerType
<1>4. EarnedResult' BY DEF EarnedResult
<1>5. DoneIsEarned' BY <1>2 DEF DoneIsEarned, Unresolved
<1> QED BY <1>3, <1>4, <1>5

\* A finished child reports done only with its roles complete and its review passed.
LEMMA ClaimFinish ==
  ASSUME ClaimInv, CustodyInv', NEW w \in Workers, Finish(w)
  PROVE  ClaimInv'
<1> USE DEF ClaimInv
<1>0. TypeOK /\ TypeOK' BY DEF CustodyInv
<1>1. PICK i \in worker[w].item :
        \E after \in AfterRoles(i, worker[w].before) : \E f \in Endings(i, after) :
          Report(w, [status |-> FinishStatus(i, worker[w].before, after, f), proved |-> TRUE,
                     hasRun |-> TRUE, roles |-> after, passed |-> f.passed])
  BY DEF Finish
<1>a. PICK after \in AfterRoles(i, worker[w].before) : \E f \in Endings(i, after) :
        Report(w, [status |-> FinishStatus(i, worker[w].before, after, f), proved |-> TRUE,
                   hasRun |-> TRUE, roles |-> after, passed |-> f.passed])
  BY <1>1
<1>2. PICK f \in Endings(i, after) :
        Report(w, [status |-> FinishStatus(i, worker[w].before, after, f), proved |-> TRUE,
                   hasRun |-> TRUE, roles |-> after, passed |-> f.passed])
  BY <1>a
<1>3. FinishStatus(i, worker[w].before, after, f) = "done" => after = Roles /\ (i \in Gated => f.passed)
  BY DEF FinishStatus
<1>4. worker[w].item = {i} BY <1>0 DEF TypeOK, WorkerType
<1>5. /\ \A v \in Workers \ {w} : worker'[v] = worker[v]
      /\ worker'[w].item = worker[w].item
      /\ worker'[w].result = [status |-> FinishStatus(i, worker[w].before, after, f), proved |-> TRUE,
                              hasRun |-> TRUE, roles |-> after, passed |-> f.passed]
      /\ item' = item
  BY <1>0, <1>2 DEF Report, Finish, TypeOK, WorkerType
<1>6. SoleClaim' BY <1>5 DEF SoleClaim
<1>7. EarnedResult' BY <1>3, <1>4, <1>5 DEF EarnedResult
<1>8. DoneIsEarned' BY <1>5 DEF DoneIsEarned, Unresolved
<1> QED BY <1>6, <1>7, <1>8

\* What a worker records about its item.
LEMMA RecordEffect ==
  ASSUME TypeOK, NEW w \in Workers, NEW i \in worker[w].item, Record(w)
  PROVE  /\ i \in Items
         /\ worker[w].item = {i}
         /\ \A j \in Items \ {i} : item'[j] = item[j]
         /\ item'[i] = Recorded(w, i)
         /\ worker' = [worker EXCEPT ![w] = Resting("idle")]
BY DEF Record, TypeOK, WorkerType, ItemType

\* record_result ends the one claim on the item and stores an earned status.
LEMMA ClaimRecord ==
  ASSUME ClaimInv, CustodyInv', NEW w \in Workers, Record(w)
  PROVE  ClaimInv'
<1> USE DEF ClaimInv
<1>0. TypeOK /\ TypeOK' BY DEF CustodyInv
<1>1. PICK i : i \in worker[w].item BY DEF Record
<1>2. /\ i \in Items
      /\ worker[w].item = {i}
      /\ \A j \in Items \ {i} : item'[j] = item[j]
      /\ item'[i] = Recorded(w, i)
      /\ worker' = [worker EXCEPT ![w] = Resting("idle")]
  BY <1>0, <1>1, RecordEffect
<1>3. /\ worker'[w].item = {} /\ worker'[w].pc = "idle"
      /\ \A v \in Workers \ {w} : worker'[v] = worker[v]
  BY <1>0, <1>2 DEF Resting, TypeOK
<1>4. SoleClaim' BY <1>0, <1>1, <1>2, <1>3 DEF SoleClaim, TypeOK, WorkerType
<1>5. EarnedResult' BY <1>3 DEF EarnedResult
<1>6. item'[i].state = "done" => item'[i].run = Roles /\ item'[i].unc = None /\ (i \in Gated => item'[i].passed)
  <2> SUFFICES ASSUME item'[i].state = "done"
               PROVE  item'[i].run = Roles /\ item'[i].unc = None /\ (i \in Gated => item'[i].passed)
    OBVIOUS
  <2>1. RecordedStatus(w, i) = "done" BY <1>0, <1>2 DEF Recorded, TypeOK, ItemType
  <2>2. worker[w].result.status = "done" /\ (Unresolved(i) => Resolves(w, i))
    BY <2>1 DEF RecordedStatus
  <2>3. worker[w].result.hasRun /\ worker[w].result.roles = Roles /\ (i \in Gated => worker[w].result.passed)
    BY <1>1, <2>2 DEF EarnedResult, Record
  <2>4. item'[i].run = Roles BY <1>0, <1>2, <2>3 DEF Recorded, TypeOK, ItemType
  <2>5. item'[i].unc = None BY <1>0, <1>2, <2>2 DEF Recorded, Unresolved, TypeOK, ItemType
  <2>6. item'[i].passed = (worker[w].result.passed /\ RecordedStatus(w, i) = "done")
    BY <1>0, <1>2 DEF Recorded, TypeOK, ItemType
  <2> QED BY <2>1, <2>3, <2>4, <2>5, <2>6
<1>7. DoneIsEarned' BY <1>2, <1>6 DEF DoneIsEarned, Unresolved
<1> QED BY <1>4, <1>5, <1>7

\* A worker dies or is restarted; what it held is dropped.
LEMMA ClaimCrash ==
  ASSUME ClaimInv, CustodyInv', NEW w \in Workers, Crash(w) \/ Restart(w)
  PROVE  ClaimInv'
<1>1. TypeOK BY DEF ClaimInv, CustodyInv
<1>2. /\ \A v \in Workers \ {w} : worker'[v] = worker[v]
      /\ worker'[w].item = {} /\ worker'[w].pc \in {"idle", "dead"}
      /\ item' = item
  BY <1>1 DEF TypeOK, WorkerType, Crash, Restart, Resting
<1> QED BY <1>2, ClaimQuiet

\* Every step of the lane keeps the claims in order.
LEMMA ClaimStep == ASSUME ~StealLive PROVE ClaimInv /\ [Next]_vars => ClaimInv'
<1> SUFFICES ASSUME ~StealLive, ClaimInv, [Next]_vars PROVE ClaimInv'
  OBVIOUS
<1>0. CustodyInv /\ CustodyInv' /\ TypeOK /\ TypeOK' BY CustodyStep DEF ClaimInv, CustodyInv
<1>1. ASSUME NEW i \in Items, Add(i) \/ Rework(i) PROVE ClaimInv'
  BY <1>0, <1>1, ClaimAdd
<1>2. ASSUME NEW S \in SUBSET Items, RequeueStale(S) PROVE ClaimInv'
  BY <1>0, <1>2, ClaimRequeue
<1>3. ASSUME NEW w \in Workers, NEW i \in Items, Claim(w, i) PROVE ClaimInv'
  BY <1>0, <1>3, ClaimClaim
<1>4. ASSUME NEW w \in Workers, Run(w) PROVE ClaimInv'
  <2>0. ASSUME NEW r, Report(w, r), r.status # "done", item' = item PROVE ClaimInv'
    BY <1>0, <2>0, ClaimQuiet DEF Report, TypeOK, WorkerType
  <2>a. \A s \in {"blocked", "failed"} : Refused(s).status # "done"
    BY DEF Refused, NoResult
  <2>b. \A s \in {"blocked", "failed"} : \A S : WithRun(Refused(s), S).status # "done"
    BY DEF Refused, NoResult, WithRun
  <2>1. CASE RefuseEarly(w) BY <2>0, <2>1, <2>a DEF RefuseEarly
  <2>2. CASE LoadRun(w)
    <3>1. CASE Report(w, Refused("blocked")) BY <2>0, <2>2, <2>a, <3>1 DEF LoadRun
    <3>2. ASSUME NEW i \in worker[w].item,
                 \/ worker' = [worker EXCEPT ![w].pc = "loaded", ![w].before = item[i].run]
                 \/ worker' = [worker EXCEPT ![w].pc = "loaded"]
          PROVE  ClaimInv'
      BY <1>0, <2>2, <3>2, ClaimQuiet DEF LoadRun, TypeOK, WorkerType
    <3> QED BY <2>2, <3>1, <3>2 DEF LoadRun
  <2>3. CASE RefuseLoaded(w) BY <2>0, <2>3, <2>b DEF RefuseLoaded
  <2>4. CASE Mark(w)
    <3>1. CASE item' = item /\ Report(w, Refused("blocked")) BY <2>0, <2>a, <3>1
    <3>2. ASSUME NEW i \in worker[w].item, NEW n \in Invocations, item' = [item EXCEPT ![i].unc = n],
                 worker' = [worker EXCEPT ![w].pc = "marked", ![w].inv = n]
          PROVE  ClaimInv'
      BY <1>0, <3>2, ClaimMark DEF TypeOK, WorkerType
    <3> QED BY <2>4, <3>1, <3>2 DEF Mark
  <2>5. CASE CancelMarked(w)
    <3>1. PICK i \in worker[w].item : item' = [item EXCEPT ![i].unc = None]
      BY <2>5 DEF CancelMarked
    <3>2. WithRun(Refused("blocked"), worker[w].before).status # "done" BY <2>b
    <3>3. /\ \A v \in Workers \ {w} : worker'[v] = worker[v]
          /\ worker'[w].item = worker[w].item
          /\ worker'[w].result.status # "done"
      BY <1>0, <2>5, <3>2 DEF CancelMarked, Report, TypeOK, WorkerType
    <3> QED BY <1>0, <3>1, <3>3, ClaimMark
  <2>6. CASE RefusePinned(w) BY <2>0, <2>6, <2>a DEF RefusePinned
  <2>7. CASE Launch(w)
    BY <1>0, <2>7, ClaimQuiet DEF Launch, TypeOK, WorkerType
  <2>8. CASE LaunchUnknown(w) BY <2>0, <2>8, <2>a DEF LaunchUnknown
  <2>9. CASE Finish(w) BY <1>0, <2>9, ClaimFinish
  <2>10. CASE FinishUnproved(w) BY <2>0, <2>10, <2>a, <2>b DEF FinishUnproved
  <2>11. CASE Record(w) BY <1>0, <2>11, ClaimRecord
  <2> QED BY <1>4, <2>1, <2>2, <2>3, <2>4, <2>5, <2>6, <2>7, <2>8, <2>9, <2>10, <2>11 DEF Run
<1>5. ASSUME NEW w \in Workers, Crash(w) \/ Restart(w) PROVE ClaimInv'
  BY <1>0, <1>5, ClaimCrash
<1>6. ASSUME NEW n \in Invocations, Exit(n) PROVE ClaimInv'
  BY <1>0, <1>6, ClaimQuiet DEF Exit
<1>7. CASE UNCHANGED vars BY <1>0, <1>7, ClaimQuiet DEF vars
<1> QED BY <1>1, <1>2, <1>3, <1>4, <1>5, <1>6, <1>7 DEF Next

\* The claim invariant holds in every state, if live claims are not stolen.
LEMMA ClaimsHold == ASSUME ~StealLive PROVE Spec => []ClaimInv
<1>1. Init => ClaimInv BY ClaimInit
<1>2. ClaimInv /\ [Next]_vars => ClaimInv' BY ClaimStep
<1> QED BY <1>1, <1>2, PTL DEF Spec

\* A done item has completed every role, passed the review it needs and has no
\* invocation whose end is unknown (record_result, requeue_for_rework, claim).
THEOREM DoneEarned == ASSUME ~StealLive PROVE Spec => []DoneIsEarned
<1>1. Spec => []ClaimInv BY ClaimsHold
<1>2. ClaimInv => DoneIsEarned BY DEF ClaimInv
<1> QED BY <1>1, <1>2, PTL
-----------------------------------------------------------------------------
(* The arbiter.                                                            *)

\* Whether two items conflict does not depend on which is asked about.
LEMMA ConflictSymmetric == \A i, j \in Items : Conflict(i, j) => Conflict(j, i)
<1>1. \A x, y : UnknownOrEqual(x, y) => UnknownOrEqual(y, x) BY DEF UnknownOrEqual
<1>2. \A x, y : WriteScopesOverlap(x, y) => WriteScopesOverlap(y, x)
  BY DEF WriteScopesOverlap
<1> QED BY <1>1, <1>2 DEF Conflict, ActiveScopeConflict

\* The empty lane is the empty arbiter.
LEMMA ArbiterInit == Init => Arbiter!Init
BY DEF Init, Arbiter!Init, InProgress, AcceptedItems, Active, Accepted, Unresolved, FreshItem

\* A step that puts nothing in progress and accepts at most an item that leaves
\* is a step of the arbiter.
LEMMA LeaveStep ==
  ASSUME InProgress' \subseteq InProgress,
         AcceptedItems' = AcceptedItems \/ \E i \in InProgress \ InProgress' : AcceptedItems' = AcceptedItems \cup {i}
  PROVE  Arbiter!Leave(InProgress \ InProgress')
BY DEF Arbiter!Leave, InProgress, AcceptedItems

\* Steps that change no item's state and resolve only running items.
LEMMA UnchangedSets ==
  ASSUME \A i \in Items : /\ Active(i)' <=> Active(i)
                          /\ Accepted(i)' <=> Accepted(i)
  PROVE  InProgress' = InProgress /\ AcceptedItems' = AcceptedItems
BY DEF InProgress, AcceptedItems

\* Every step of the lane admits one item, lets items leave, or stutters.
LEMMA ArbiterStep ==
  ASSUME ~StealLive, ClaimInv, ClaimInv', [Next]_vars
  PROVE  [Arbiter!Next]_<<InProgress, AcceptedItems>>
<1>0. TypeOK /\ TypeOK' BY DEF ClaimInv, CustodyInv
<1>a. ASSUME item' = item PROVE InProgress' = InProgress /\ AcceptedItems' = AcceptedItems
  BY <1>a, UnchangedSets DEF Active, Accepted, Unresolved
<1>b. ASSUME NEW w \in Workers, NEW i \in worker[w].item, NEW u, item' = [item EXCEPT ![i].unc = u]
      PROVE  InProgress' = InProgress /\ AcceptedItems' = AcceptedItems
  <2>1. i \in Items BY <1>0 DEF TypeOK, WorkerType
  <2>2. /\ \A j \in Items \ {i} : item'[j] = item[j]
        /\ item'[i].state = item[i].state /\ item'[i].passed = item[i].passed
        /\ item[i].state = "running"
    BY <1>0, <1>b, <2>1 DEF ClaimInv, SoleClaim, TypeOK, ItemType
  <2>3. \A j \in Items : (Active(j)' <=> Active(j)) /\ (Accepted(j)' <=> Accepted(j))
    BY <2>2 DEF Active, Accepted, Unresolved
  <2> QED BY <2>3, UnchangedSets
<1>1. ASSUME NEW i \in Items, Add(i) \/ Rework(i) PROVE InProgress' = InProgress /\ AcceptedItems' = AcceptedItems
  <2>1. /\ \A j \in Items \ {i} : item'[j] = item[j]
        /\ item'[i].state = "ready" /\ item'[i].unc = None
        /\ item[i].state \in {"absent", "blocked"} /\ item[i].unc = None
    BY <1>0, <1>1 DEF Add, Rework, FreshItem, Unresolved, ClaimInv, CustodyInv, AbsentIsFresh, TypeOK, ItemType
  <2>2. \A j \in Items : (Active(j)' <=> Active(j)) /\ (Accepted(j)' <=> Accepted(j))
    BY <2>1 DEF Active, Accepted, Unresolved
  <2> QED BY <2>2, UnchangedSets
<1>2. ASSUME NEW S \in SUBSET Items, RequeueStale(S) PROVE Arbiter!Next
  <2>1. /\ \A j \in Items \ S : item'[j] = item[j]
        /\ \A j \in S : /\ item'[j].state = "ready" /\ item'[j].unc = None
                       /\ item[j].state = "running" /\ item[j].unc = None
    BY <1>0, <1>2 DEF RequeueStale, Stale, Unresolved, TypeOK, ItemType
  <2>2. InProgress' \subseteq InProgress /\ AcceptedItems' = AcceptedItems
    BY <2>1 DEF InProgress, AcceptedItems, Active, Accepted, Unresolved
  <2>3. Arbiter!Leave(InProgress \ InProgress') BY <2>2, LeaveStep
  <2> QED BY <2>3 DEF Arbiter!Next, InProgress
<1>3. ASSUME NEW w \in Workers, NEW i \in Items, Claim(w, i) PROVE Arbiter!Next
  <2>1. /\ \A j \in Items \ {i} : item'[j] = item[j]
        /\ item'[i].state = "running" /\ item[i].state = "ready" /\ item[i].unc = None
    BY <1>0, <1>3 DEF Claim, Ready, Unresolved, TypeOK, ItemType
  <2>2. i \notin InProgress \cup AcceptedItems BY <2>1 DEF InProgress, AcceptedItems, Active, Accepted, Unresolved
  <2>3. \A j \in InProgress : <<i, j>> \notin Excluded
    BY <1>3 DEF Claim, Ready, InProgress, Excluded
  <2>4. DependsOn[i] \subseteq AcceptedItems
    BY <1>3, ItemsAssumption DEF Claim, Ready, AcceptedItems
  <2>5. InProgress' = InProgress \cup {i} /\ AcceptedItems' = AcceptedItems
    BY <2>1 DEF InProgress, AcceptedItems, Active, Accepted, Unresolved
  <2>6. Arbiter!Admit(i)
    BY <2>2, <2>3, <2>4, <2>5 DEF Arbiter!Admit, InProgress, AcceptedItems, Excluded
  <2> QED BY <2>6 DEF Arbiter!Next
<1>4. ASSUME NEW w \in Workers, Record(w) PROVE Arbiter!Next
  <2>1. PICK i : i \in worker[w].item BY <1>4 DEF Record
  <2>2. /\ i \in Items
        /\ \A j \in Items \ {i} : item'[j] = item[j]
        /\ item'[i] = Recorded(w, i)
        /\ item[i].state = "running"
    BY <1>0, <1>4, <2>1, RecordEffect DEF ClaimInv, SoleClaim
  <2>3. i \in InProgress /\ i \notin AcceptedItems BY <2>2 DEF InProgress, AcceptedItems, Active, Accepted, Unresolved
  <2>4. InProgress' \subseteq InProgress /\ \A j \in Items \ {i} : j \in AcceptedItems' <=> j \in AcceptedItems
    BY <2>2, <2>3 DEF InProgress, AcceptedItems, Active, Accepted, Unresolved
  <2>5. i \in AcceptedItems' => i \notin InProgress'
    BY <2>2 DEF InProgress, AcceptedItems, Active, Accepted, Unresolved, ClaimInv, DoneIsEarned
  <2>6. AcceptedItems' = AcceptedItems \/ \E j \in InProgress \ InProgress' : AcceptedItems' = AcceptedItems \cup {j}
    BY <2>3, <2>4, <2>5 DEF AcceptedItems
  <2>7. Arbiter!Leave(InProgress \ InProgress') BY <2>4, <2>6, LeaveStep
  <2> QED BY <2>7 DEF Arbiter!Next, InProgress
<1>5. ASSUME NEW w \in Workers, Run(w), ~Record(w) PROVE InProgress' = InProgress /\ AcceptedItems' = AcceptedItems
  <2>1. CASE Mark(w) BY <1>a, <1>b, <2>1 DEF Mark
  <2>2. CASE CancelMarked(w) BY <1>b, <2>2 DEF CancelMarked
  <2>3. CASE item' = item BY <1>a, <2>3
  <2> QED BY <1>5, <2>1, <2>2, <2>3 DEF Run, RefuseEarly, LoadRun, RefuseLoaded, RefusePinned, Launch,
                                        LaunchUnknown, Finish, FinishUnproved
<1>6. ASSUME NEW w \in Workers, Crash(w) \/ Restart(w) PROVE InProgress' = InProgress /\ AcceptedItems' = AcceptedItems
  BY <1>6, <1>a DEF Crash, Restart
<1>7. ASSUME NEW n \in Invocations, Exit(n) PROVE InProgress' = InProgress /\ AcceptedItems' = AcceptedItems
  BY <1>7, <1>a DEF Exit
<1>8. CASE UNCHANGED vars BY <1>8, <1>a DEF vars
<1> QED BY <1>1, <1>2, <1>3, <1>4, <1>5, <1>6, <1>7, <1>8 DEF Next

\* The lane refines the arbiter: claims admit an item, recorded results and
\* requeued claims let it leave, and everything in between is a stutter.
THEOREM LaneRefinesArbiter == ASSUME ~StealLive PROVE Spec => ArbiterSpec
<1>1. Spec => []ClaimInv BY ClaimsHold
<1>2. Init => Arbiter!Init BY ArbiterInit
<1>3. ClaimInv /\ ClaimInv' /\ [Next]_vars => [Arbiter!Next]_<<InProgress, AcceptedItems>> BY ArbiterStep
<1> QED BY <1>1, <1>2, <1>3, PTL DEF Spec, ArbiterSpec, Arbiter!Spec
-----------------------------------------------------------------------------
(* What the arbiter's steps keep.                                          *)

\* Items in progress do not conflict, and everything they depend on is accepted.
Arbitrated ==
  /\ \A i, j \in InProgress : ~Conflict(i, j)
  /\ \A i \in InProgress : DependsOn[i] \subseteq AcceptedItems

\* Items in progress never conflict, and their dependencies stay accepted.
LEMMA ArbitratedStep ==
  ASSUME Arbitrated, [Arbiter!Next]_<<InProgress, AcceptedItems>>
  PROVE  Arbitrated' /\ AcceptedItems \subseteq AcceptedItems'
<1>0. InProgress \subseteq Items /\ InProgress' \subseteq Items BY DEF InProgress
<1>1. ASSUME NEW i \in Items, Arbiter!Admit(i) PROVE Arbitrated' /\ AcceptedItems \subseteq AcceptedItems'
  <2>1. /\ InProgress' = InProgress \cup {i} /\ AcceptedItems' = AcceptedItems
        /\ DependsOn[i] \subseteq AcceptedItems
        /\ \A j \in InProgress : <<i, j>> \notin Excluded
    BY <1>1 DEF Arbiter!Admit
  <2>2. \A j \in InProgress : ~Conflict(i, j) /\ ~Conflict(j, i)
    BY <1>0, <2>1, ConflictSymmetric DEF Excluded
  <2>3. ~Conflict(i, i) BY DEF Conflict
  <2>4. \A j, k \in InProgress' : ~Conflict(j, k)
    BY <2>1, <2>2, <2>3 DEF Arbitrated
  <2>5. \A j \in InProgress' : DependsOn[j] \subseteq AcceptedItems'
    BY <2>1 DEF Arbitrated
  <2> QED BY <2>1, <2>4, <2>5 DEF Arbitrated, Conflict
<1>2. ASSUME NEW S \in SUBSET Items, Arbiter!Leave(S) PROVE Arbitrated' /\ AcceptedItems \subseteq AcceptedItems'
  <2>1. InProgress' \subseteq InProgress /\ AcceptedItems \subseteq AcceptedItems'
    BY <1>2 DEF Arbiter!Leave
  <2> QED BY <2>1 DEF Arbitrated, Conflict
<1>3. CASE UNCHANGED <<InProgress, AcceptedItems>> BY <1>3 DEF Arbitrated, Conflict
<1> QED BY <1>1, <1>2, <1>3 DEF Arbiter!Next

\* The claim invariant and the arbiter's invariant hold in every state.
LEMMA ArbitratedHolds == ASSUME ~StealLive PROVE Spec => [](ClaimInv /\ Arbitrated)
<1>1. Spec => []ClaimInv BY ClaimsHold
<1>2. Init => Arbitrated
  BY DEF Init, Arbitrated, InProgress, Active, Unresolved, FreshItem
<1>3. ClaimInv /\ ClaimInv' /\ Arbitrated /\ [Next]_vars => Arbitrated'
  BY ArbiterStep, ArbitratedStep
<1> QED BY <1>1, <1>2, <1>3, PTL DEF Spec

\* No two child processes run on overlapping repository, branch and write scope
\* (active_scope_conflict in claim), whatever crashes in between.
THEOREM ScopesExclude == ASSUME ~StealLive PROVE Spec => []ScopeExclusion
<1>1. Spec => [](ClaimInv /\ Arbitrated) BY ArbitratedHolds
<1>2. ClaimInv /\ Arbitrated => ScopeExclusion
  <2>1. ASSUME ClaimInv, NEW n \in Invocations, NEW i \in child[n] PROVE i \in InProgress
    <3>1. i \in Items /\ item[i].unc = n
      BY <2>1 DEF ClaimInv, CustodyInv, TypeOK, ChildIsMarked
    <3> QED BY <3>1, ItemsAssumption DEF InProgress, Active, Unresolved
  <2> QED BY <2>1 DEF Arbitrated, ScopeExclusion
<1> QED BY <1>1, <1>2, PTL

\* No child process runs while one of its item's dependencies is not accepted
\* (accepted_dependency in claim).
THEOREM DependenciesAreHeld == ASSUME ~StealLive PROVE Spec => []DependenciesHold
<1>1. Spec => [](ClaimInv /\ Arbitrated) BY ArbitratedHolds
<1>2. ClaimInv /\ Arbitrated => DependenciesHold
  <2>1. ASSUME ClaimInv, NEW n \in Invocations, NEW i \in child[n] PROVE i \in InProgress
    <3>1. i \in Items /\ item[i].unc = n
      BY <2>1 DEF ClaimInv, CustodyInv, TypeOK, ChildIsMarked
    <3> QED BY <3>1, ItemsAssumption DEF InProgress, Active, Unresolved
  <2> QED BY <2>1 DEF Arbitrated, DependenciesHold, AcceptedItems
<1> QED BY <1>1, <1>2, PTL

\* An accepted item stays accepted: no late result, requeue or rework takes the
\* acceptance back (requeue_for_rework, record_result).
THEOREM AcceptanceStays == ASSUME ~StealLive PROVE Spec => AcceptanceIsFinal
<1>1. Spec => [](ClaimInv /\ Arbitrated) BY ArbitratedHolds
<1>2. ClaimInv /\ ClaimInv' /\ Arbitrated /\ [Next]_vars =>
        [\A i \in Items : Accepted(i) => Accepted(i)']_vars
  <2>1. ClaimInv /\ ClaimInv' /\ Arbitrated /\ [Next]_vars => AcceptedItems \subseteq AcceptedItems'
    BY ArbiterStep, ArbitratedStep
  <2> QED BY <2>1 DEF AcceptedItems
<1> QED BY <1>1, <1>2, PTL DEF Spec, AcceptanceIsFinal
=============================================================================
