------------------------------ MODULE StoreLock ------------------------------
(***************************************************************************)
(* The lock file of the local work-item store: class _StoreLock of         *)
(* atlas_work_items.py.  Every mutation of work-items.json runs inside     *)
(* `with store.lock()`.                                                    *)
(*                                                                         *)
(* The protocol is modelled at the grain of its file-system calls, because *)
(* that is where it can go wrong: a waiter stats the file, reads the pid   *)
(* in it, probes that pid and unlinks the path, and the file behind the    *)
(* path may be another one by the time it does.                            *)
(***************************************************************************)
EXTENDS Naturals

CONSTANTS
  Procs,     \* the processes that use the store (workers, daemons, CLIs)
  Faults,    \* TRUE: a process may die, or fail while it writes the lock file
  SlowHolds  \* TRUE: a live owner may keep the lock for more than 300 seconds

ASSUME RegimeAssumption == Faults \in BOOLEAN /\ SlowHolds \in BOOLEAN

VARIABLES
  file,   \* the lock file: NoFile, or who created it, whether its pid is in it, and its age
  pc,     \* where each process is in __enter__ / the with block / __exit__
  seen,   \* the pid the process last read from the lock file
  stolen  \* history: some step unlinked the lock file of a process that held it

lockVars == <<file, pc, seen, stolen>>

NoFile == [owner |-> {}, written |-> FALSE, old |-> FALSE]
FileOf(p) == [owner |-> {p}, written |-> FALSE, old |-> FALSE]

Waiting == {"stat", "read", "probe", "unlink", "create"}
Owning == {"write", "held"}
Locations == {"idle", "dead"} \cup Waiting \cup Owning

Owners == {p \in Procs : pc[p] \in Owning}
Alive(p) == pc[p] # "dead"

\* Removing the path takes the lock from every owner but the remover itself.
Removes(p) == /\ file' = NoFile
              /\ stolen' = (stolen \/ \E q \in file.owner \ {p} : pc[q] \in Owning)

Goto(p, l) == pc' = [pc EXCEPT ![p] = l]

LockInit == /\ file = NoFile
            /\ pc = [p \in Procs |-> "idle"]
            /\ seen = [p \in Procs |-> p]
            /\ stolen = FALSE
-----------------------------------------------------------------------------
\* __enter__ is called: the deadline is set and the first round begins.
Enter(p) == /\ pc[p] = "idle"
            /\ Goto(p, "stat")
            /\ UNCHANGED <<file, seen, stolen>>

\* Mutants of Stat: every existing file counts as stale; none is too old.
StatAlwaysStale(p) == /\ pc[p] = "stat"
                      /\ Goto(p, IF file = NoFile THEN "create" ELSE "unlink")
                      /\ UNCHANGED <<file, seen, stolen>>
StatWithoutAge(p) == /\ pc[p] = "stat"
                     /\ Goto(p, IF file = NoFile THEN "create" ELSE "read")
                     /\ UNCHANGED <<file, seen, stolen>>

\* _remove_stale_lock: stat() finds no file, a file older than 300 s, or a fresh one.
Stat(p) ==
  /\ pc[p] = "stat"
  /\ \/ file = NoFile /\ Goto(p, "create")
     \/ file # NoFile /\ file.old /\ Goto(p, "unlink")
     \/ file # NoFile /\ ~file.old /\ Goto(p, "read")
  /\ UNCHANGED <<file, seen, stolen>>

\* read_text() and int(payload["pid"]): a vanished or still empty file ends the check.
ReadPid(p) ==
  /\ pc[p] = "read"
  /\ \/ /\ ~file.written
        /\ Goto(p, "create")
        /\ UNCHANGED seen
     \/ /\ file.written
        /\ \E q \in file.owner : seen' = [seen EXCEPT ![p] = q]
        /\ Goto(p, "probe")
  /\ UNCHANGED <<file, stolen>>

\* os.kill(pid, 0): only ProcessLookupError leads to the unlink.  A dead owner's
\* pid may have been given to an unrelated process, which looks alive.
Probe(p) ==
  /\ pc[p] = "probe"
  /\ \/ Goto(p, "create") \* alive, PermissionError, or the pid was reused
     \/ ~Alive(seen[p]) /\ Goto(p, "unlink")
  /\ UNCHANGED <<file, seen, stolen>>

\* path.unlink(missing_ok=True): whatever is at the path now goes.
Unlink(p) == /\ pc[p] = "unlink"
             /\ Removes(p)
             /\ Goto(p, "create")
             /\ UNCHANGED seen

\* Mutant of Create: the open without O_EXCL, by truncating the file.
CreateTruncating(p) == /\ pc[p] = "create"
                       /\ file' = FileOf(p)
                       /\ Goto(p, "write")
                       /\ UNCHANGED <<seen, stolen>>

\* os.open(O_CREAT | O_EXCL) succeeds ...
Create(p) == /\ pc[p] = "create"
             /\ file = NoFile
             /\ file' = FileOf(p)
             /\ Goto(p, "write")
             /\ UNCHANGED <<seen, stolen>>

\* ... or raises FileExistsError: sleep and start another round, or give up
\* with RuntimeError once the 30-second deadline has passed.
Retry(p) == /\ pc[p] = "create"
            /\ file # NoFile
            /\ \/ Goto(p, "stat")
               \/ Goto(p, "idle")
            /\ UNCHANGED <<file, seen, stolen>>

\* The pid is written through the descriptor, so into this process's own file.
WritePid(p) == /\ pc[p] = "write"
               /\ file' = IF file.owner = {p} THEN [file EXCEPT !.written = TRUE] ELSE file
               /\ Goto(p, "held")
               /\ UNCHANGED <<seen, stolen>>

\* The write raises inside __enter__: __exit__ never runs and the file stays.
WriteFails(p) == /\ Faults
                 /\ pc[p] = "write"
                 /\ Goto(p, "idle")
                 /\ UNCHANGED <<file, seen, stolen>>

\* __exit__ unlinks the path without asking whose file it is.
Release(p) == /\ pc[p] = "held"
              /\ Removes(p)
              /\ Goto(p, "idle")
              /\ UNCHANGED seen

\* The process is killed; its file, if any, stays behind.
ProcessDies(p) == /\ Faults
            /\ Alive(p)
            /\ Goto(p, "dead")
            /\ UNCHANGED <<file, seen, stolen>>

\* 300 s pass since the file was created.  A live owner's update takes far less
\* than that unless SlowHolds.
Age == /\ file # NoFile
       /\ ~file.old
       /\ SlowHolds \/ \A p \in file.owner : pc[p] \notin Owning
       /\ file' = [file EXCEPT !.old = TRUE]
       /\ UNCHANGED <<pc, seen, stolen>>

Acquiring(p) == Stat(p) \/ ReadPid(p) \/ Probe(p) \/ Unlink(p) \/ Create(p) \/ Retry(p) \/ WritePid(p)

LockNext == \/ \E p \in Procs : Enter(p) \/ Acquiring(p) \/ WriteFails(p) \/ Release(p) \/ ProcessDies(p)
            \/ Age

LockSpec == LockInit /\ [][LockNext]_lockVars

\* A process that is running gets scheduled, time passes, and the callers (the
\* daemon cycles and the CLIs an operator reruns) come back for the lock.  Dying
\* and failing are never owed.
LockFairness == /\ \A p \in Procs : WF_lockVars(Enter(p)) /\ WF_lockVars(Acquiring(p)) /\ WF_lockVars(Release(p))
                /\ WF_lockVars(Age)

FairLockSpec == LockSpec /\ LockFairness
-----------------------------------------------------------------------------
OwnerSets == {{}} \cup {{p} : p \in Procs}

LockTypeOK == /\ file \in [owner : OwnerSets, written : BOOLEAN, old : BOOLEAN]
              /\ pc \in [Procs -> Locations]
              /\ seen \in [Procs -> Procs]
              /\ stolen \in BOOLEAN

\* At most one process is inside the lock: what every `with store.lock()` in
\* atlas_work_items.py relies on.
MutualExclusion == \A p, q \in Owners : p = q

\* Every way two processes can both be inside the lock goes through one defect:
\* an unlink of a file that a live owner was holding.
ExclusionUnlessStolen == ~stolen => MutualExclusion

\* The lock file of a process that is inside the lock is never removed by another.
NeverStolen == ~stolen

\* A lock file nobody is inside any more (its creator died, or failed while
\* writing it) does not block the store for ever: it is removed by pid or by age.
Abandoned == file # NoFile /\ \A p \in file.owner : pc[p] \notin Owning
SomeoneLeft == \E p \in Procs : Alive(p)
AbandonedLockReclaimed == Abandoned ~> (~Abandoned \/ ~SomeoneLeft)
=============================================================================
