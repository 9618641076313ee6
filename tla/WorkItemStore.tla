---------------------------- MODULE WorkItemStore ----------------------------
(***************************************************************************)
(* AtlasWorkItemStore of atlas_work_items.py: work-items.json is loaded    *)
(* whole, changed in memory and written back through one fixed temporary   *)
(* file, all inside the lock of StoreLock.  The payload is abstracted to   *)
(* the number of updates of each process that it contains: a writer that   *)
(* worked on an old copy undoes another writer's updates.                  *)
(***************************************************************************)
EXTENDS StoreLock

CONSTANT MaxUpdates  \* bound on the updates one process makes (model checking only)

ASSUME MaxUpdatesAssumption == MaxUpdates \in Nat

VARIABLES
  store,  \* work-items.json
  tmp,    \* work-items.json.tmp: missing, being written, or complete
  step,   \* how far each process is inside its with block
  local   \* the payload each process holds in memory

dataVars == <<store, tmp, step, local>>
storeVars == <<lockVars, dataVars>>

Payload == [Procs -> Nat]
Empty == [p \in Procs |-> 0]
Missing == [kind |-> "missing", payload |-> Empty]
Torn == [kind |-> "torn", payload |-> Empty]
Whole(d) == [kind |-> "whole", payload |-> d]

StoreInit == /\ LockInit
             /\ store = Whole(Empty)
             /\ tmp = Missing
             /\ step = [p \in Procs |-> "none"]
             /\ local = [p \in Procs |-> Empty]
-----------------------------------------------------------------------------
StepTo(p, s) == step' = [step EXCEPT ![p] = s]
Inside(p, s) == pc[p] = "held" /\ step[p] = s

\* load(): a torn file raises ValueError and the with block is left.
Load(p) ==
  /\ Inside(p, "load")
  /\ \/ store.kind = "whole" /\ local' = [local EXCEPT ![p] = store.payload] /\ StepTo(p, "update")
     \/ store.kind # "whole" /\ StepTo(p, "leave") /\ UNCHANGED local
  /\ UNCHANGED <<lockVars, store, tmp>>

\* The updater changes the payload, or it returns or raises with nothing to
\* save (a claim on an item no longer ready, an unknown id, a refused rework).
Change(p) ==
  /\ Inside(p, "update")
  /\ \/ /\ local[p][p] < MaxUpdates
        /\ local' = [local EXCEPT ![p][p] = @ + 1]
        /\ StepTo(p, "truncate")
     \/ StepTo(p, "leave") /\ UNCHANGED local
  /\ UNCHANGED <<lockVars, store, tmp>>

\* Mutant of Truncate: work-items.json is opened for writing in place.
TruncateInPlace(p) == /\ Inside(p, "truncate")
                      /\ store' = Torn
                      /\ StepTo(p, "fill")
                      /\ UNCHANGED <<lockVars, tmp, local>>

\* save(): write_text opens the temporary file, which truncates it, ...
Truncate(p) == /\ Inside(p, "truncate")
               /\ tmp' = Torn
               /\ StepTo(p, "fill")
               /\ UNCHANGED <<lockVars, store, local>>

\* ... and fills it, or fails half-way and leaves it torn.
Fill(p) == /\ Inside(p, "fill")
           /\ \/ tmp' = Whole(local[p]) /\ StepTo(p, "replace")
              \/ Faults /\ tmp' = Torn /\ StepTo(p, "leave")
           /\ UNCHANGED <<lockVars, store, local>>

\* tmp.replace(path) is atomic; without a temporary file it raises.
Replace(p) == /\ Inside(p, "replace")
              /\ \/ tmp # Missing /\ store' = tmp /\ tmp' = Missing
                 \/ tmp = Missing /\ UNCHANGED <<store, tmp>>
              /\ StepTo(p, "leave")
              /\ UNCHANGED <<lockVars, local>>

Access(p) == Load(p) \/ Change(p) \/ Truncate(p) \/ Fill(p) \/ Replace(p)

\* Mutant of Acquire: the payload loaded before the lock was taken is used.
AcquireLoadedEarlier(p) == WritePid(p) /\ StepTo(p, "update") /\ UNCHANGED <<store, tmp, local>>

\* The lock protocol around it: the block starts with load and ends with __exit__.
Acquire(p) == WritePid(p) /\ StepTo(p, "load") /\ UNCHANGED <<store, tmp, local>>
LeaveBlock(p) == /\ Inside(p, "leave")
                 /\ Release(p)
                 /\ StepTo(p, "none")
                 /\ local' = [local EXCEPT ![p] = Empty]
                 /\ UNCHANGED <<store, tmp>>

LockOnly(p) == /\ \/ Enter(p) \/ Stat(p) \/ ReadPid(p) \/ Probe(p) \/ Unlink(p)
                  \/ Create(p) \/ Retry(p) \/ WriteFails(p) \/ ProcessDies(p)
               /\ UNCHANGED dataVars

StoreNext == \/ \E p \in Procs : LockOnly(p) \/ Acquire(p) \/ Access(p) \/ LeaveBlock(p)
             \/ Age /\ UNCHANGED dataVars

StoreSpec == StoreInit /\ [][StoreNext]_storeVars
-----------------------------------------------------------------------------
FileType == [kind : {"missing", "torn", "whole"}, payload : Payload]
Steps == {"none", "load", "update", "truncate", "fill", "replace", "leave"}

StoreTypeOK == /\ LockTypeOK
               /\ store \in FileType
               /\ tmp \in FileType
               /\ step \in [Procs -> Steps]
               /\ local \in [Procs -> Payload]

\* While no lock was stolen, a reader of work-items.json (readers take no lock)
\* never finds a half-written file, whatever crashed and wherever.
StoreNeverTorn == ~stolen => store.kind = "whole"

\* While no lock was stolen, every save keeps all earlier updates and adds
\* exactly its own: save() of one process never undoes another's claim or result.
NoLostUpdate ==
  [][~stolen /\ store' # store =>
       \E p \in Procs : store'.payload = [store.payload EXCEPT ![p] = @ + 1]]_storeVars

\* The store implements the atomic store its callers assume.
Atomic == INSTANCE AtomicStore WITH store <- store.payload
AtomicSpec == Atomic!Spec
=============================================================================
