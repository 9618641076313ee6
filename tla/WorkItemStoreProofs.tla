------------------------- MODULE WorkItemStoreProofs -------------------------
(***************************************************************************)
(* Proofs about the lock file and the store behind it, for any set of      *)
(* processes: the lock excludes unless a live owner's file was unlinked,   *)
(* and the store is never torn, loses no update and implements the atomic  *)
(* store when nothing fails.                                               *)
(*                                                                         *)
(* The argument: O_EXCL makes the creator of the file its only owner, so   *)
(* as long as no owner's file was unlinked by someone else, the file names *)
(* every process that is inside the lock.  The lock's theorems carry over  *)
(* to the store by the lemma that every step of the store is a step of the *)
(* lock or leaves it alone.                                                *)
(***************************************************************************)
EXTENDS WorkItemStore, TLAPS

-----------------------------------------------------------------------------
(* The lock.                                                                *)

\* The strengthening: the file at the path is the file of whoever is inside.
FileNamesOwner == ~stolen => \A p \in Owners : file.owner = {p}
LockInv == LockTypeOK /\ FileNamesOwner

\* Types hold: every step of the protocol stays within the modelled file and locations.
LEMMA LockTyping == LockInit => LockTypeOK
<1> SUFFICES ASSUME LockInit PROVE LockTypeOK
  OBVIOUS
<1>1. file \in [owner : OwnerSets, written : BOOLEAN, old : BOOLEAN]
  BY DEF LockInit, NoFile, OwnerSets
<1>2. pc \in [Procs -> Locations]
  BY DEF LockInit, Locations
<1>3. seen \in [Procs -> Procs] /\ stolen \in BOOLEAN
  BY DEF LockInit
<1> QED BY <1>1, <1>2, <1>3 DEF LockTypeOK

\* Types are preserved by every step of the lock protocol.
LEMMA LockTypingStep == LockTypeOK /\ [LockNext]_lockVars => LockTypeOK'
<1> SUFFICES ASSUME LockTypeOK, [LockNext]_lockVars PROVE LockTypeOK'
  OBVIOUS
<1> USE DEF LockTypeOK, Goto, Locations, Waiting, Owning, OwnerSets, NoFile, FileOf
<1>1. ASSUME NEW p \in Procs, Enter(p) PROVE LockTypeOK'
  BY <1>1 DEF Enter
<1>2. ASSUME NEW p \in Procs, Acquiring(p) PROVE LockTypeOK'
  <2>1. CASE Stat(p) BY <2>1 DEF Stat
  <2>2. CASE ReadPid(p) BY <2>2 DEF ReadPid
  <2>3. CASE Probe(p) BY <2>3 DEF Probe
  <2>4. CASE Unlink(p) BY <2>4 DEF Unlink, Removes
  <2>5. CASE Create(p) BY <2>5 DEF Create
  <2>6. CASE Retry(p) BY <2>6 DEF Retry
  <2>7. CASE WritePid(p) BY <2>7 DEF WritePid
  <2> QED BY <1>2, <2>1, <2>2, <2>3, <2>4, <2>5, <2>6, <2>7 DEF Acquiring
<1>3. ASSUME NEW p \in Procs, WriteFails(p) PROVE LockTypeOK'
  BY <1>3 DEF WriteFails
<1>4. ASSUME NEW p \in Procs, Release(p) PROVE LockTypeOK'
  BY <1>4 DEF Release, Removes
<1>5. ASSUME NEW p \in Procs, ProcessDies(p) PROVE LockTypeOK'
  BY <1>5 DEF ProcessDies
<1>6. CASE Age BY <1>6 DEF Age
<1>7. CASE UNCHANGED lockVars BY <1>7 DEF lockVars
<1> QED BY <1>1, <1>2, <1>3, <1>4, <1>5, <1>6, <1>7 DEF LockNext

\* A step that only moves p between places outside the lock, or out of it.
LEMMA MovesOutside ==
  ASSUME LockInv, NEW p \in Procs, NEW l \in Locations \ Owning,
         Goto(p, l), file'.owner = file.owner, UNCHANGED stolen
  PROVE  FileNamesOwner'
BY DEF LockInv, LockTypeOK, FileNamesOwner, Owners, Goto

\* The path is unlinked by p, which is not inside the lock afterwards.
LEMMA RemovalKeepsInv ==
  ASSUME LockInv, NEW p \in Procs, NEW l \in Locations \ Owning, Goto(p, l), Removes(p)
  PROVE  FileNamesOwner'
BY DEF LockInv, LockTypeOK, FileNamesOwner, Owners, Goto, Removes, NoFile, OwnerSets

\* FileNamesOwner is inductive together with the types.
LEMMA LockInvStep == LockInv /\ [LockNext]_lockVars => LockInv'
<1> SUFFICES ASSUME LockInv, [LockNext]_lockVars PROVE FileNamesOwner'
  BY LockTypingStep DEF LockInv
<1> USE DEF Locations, Waiting, Owning
<1>1. ASSUME NEW p \in Procs, Enter(p) PROVE FileNamesOwner'
  BY <1>1, MovesOutside DEF Enter
<1>2. ASSUME NEW p \in Procs, Acquiring(p) PROVE FileNamesOwner'
  <2>1. CASE Stat(p) BY <2>1, MovesOutside DEF Stat
  <2>2. CASE ReadPid(p) BY <2>2, MovesOutside DEF ReadPid
  <2>3. CASE Probe(p) BY <2>3, MovesOutside DEF Probe
  <2>4. CASE Unlink(p) BY <2>4, RemovalKeepsInv DEF Unlink
  <2>5. CASE Create(p)
    BY <2>5 DEF Create, Goto, LockInv, LockTypeOK, FileNamesOwner, Owners, NoFile, FileOf
  <2>6. CASE Retry(p) BY <2>6, MovesOutside DEF Retry
  <2>7. CASE WritePid(p)
    BY <2>7 DEF WritePid, Goto, LockInv, LockTypeOK, FileNamesOwner, Owners
  <2> QED BY <1>2, <2>1, <2>2, <2>3, <2>4, <2>5, <2>6, <2>7 DEF Acquiring
<1>3. ASSUME NEW p \in Procs, WriteFails(p) PROVE FileNamesOwner'
  BY <1>3, MovesOutside DEF WriteFails
<1>4. ASSUME NEW p \in Procs, Release(p) PROVE FileNamesOwner'
  BY <1>4, RemovalKeepsInv DEF Release
<1>5. ASSUME NEW p \in Procs, ProcessDies(p) PROVE FileNamesOwner'
  BY <1>5, MovesOutside DEF ProcessDies
<1>6. CASE Age
  BY <1>6 DEF Age, LockInv, LockTypeOK, FileNamesOwner, Owners
<1>7. CASE UNCHANGED lockVars
  BY <1>7 DEF lockVars, LockInv, FileNamesOwner, Owners
<1> QED BY <1>1, <1>2, <1>3, <1>4, <1>5, <1>6, <1>7 DEF LockNext

\* Initially nobody is inside.
LEMMA LockInvInit == LockInit => LockInv
BY LockTyping DEF LockInit, LockInv, FileNamesOwner, Owners, Owning

\* The types of the lock protocol hold in every reachable state (_StoreLock).
THEOREM LockTypesHold == LockSpec => []LockTypeOK
<1>1. LockInit => LockTypeOK BY LockTyping
<1>2. LockTypeOK /\ [LockNext]_lockVars => LockTypeOK' BY LockTypingStep
<1> QED BY <1>1, <1>2, PTL DEF LockSpec

\* For any number of processes, crashes, failed writes and slow owners: two
\* processes are inside the lock only after some owner's lock file was unlinked
\* by another process (_StoreLock.__enter__ and __exit__ are otherwise exclusive).
THEOREM ExclusionHolds == LockSpec => []ExclusionUnlessStolen
<1>1. LockInit => LockInv BY LockInvInit
<1>2. LockInv /\ [LockNext]_lockVars => LockInv' BY LockInvStep
<1>3. LockInv => ExclusionUnlessStolen
  BY DEF LockInv, FileNamesOwner, ExclusionUnlessStolen, MutualExclusion
<1> QED BY <1>1, <1>2, <1>3, PTL DEF LockSpec
-----------------------------------------------------------------------------
(***************************************************************************)
(* Without faults and slow owners there is nothing to reclaim: the file at *)
(* the path always belongs to a process inside the lock, it is never old,  *)
(* and no waiter ever gets as far as the unlink.                           *)
(***************************************************************************)
QuietInv == /\ LockInv
            /\ ~stolen
            /\ \A p \in Procs : Alive(p) /\ pc[p] # "unlink"
            /\ ~file.old
            /\ \A p \in file.owner : pc[p] \in Owning
            /\ file.owner = {} => file = NoFile

\* The quiet regime is preserved by every step.
LEMMA QuietStep ==
  ASSUME ~Faults, ~SlowHolds, QuietInv, [LockNext]_lockVars
  PROVE  QuietInv'
<1>1. LockInv' BY LockInvStep DEF QuietInv
<1> USE DEF QuietInv, LockInv, LockTypeOK, OwnerSets, Goto, Alive, Owning, NoFile, Locations, Waiting
<1>2. ASSUME NEW p \in Procs, Enter(p) PROVE QuietInv'
  BY <1>1, <1>2 DEF Enter
<1>3. ASSUME NEW p \in Procs, Acquiring(p) PROVE QuietInv'
  <2>1. CASE Stat(p) BY <1>1, <2>1 DEF Stat
  <2>2. CASE ReadPid(p) BY <1>1, <2>2 DEF ReadPid
  <2>3. CASE Probe(p) BY <1>1, <2>3 DEF Probe
  <2>4. CASE Unlink(p) BY <2>4 DEF Unlink
  <2>5. CASE Create(p) BY <1>1, <2>5 DEF Create, FileOf
  <2>6. CASE Retry(p) BY <1>1, <2>6 DEF Retry
  <2>7. CASE WritePid(p)
    <3>1. file'.owner = file.owner /\ file'.old = file.old
      BY <2>7 DEF WritePid
    <3>2. file.owner = {} => file' = file
      BY <2>7 DEF WritePid
    <3>3. \A q \in Procs : Alive(q)' /\ pc'[q] # "unlink"
      BY <2>7 DEF WritePid
    <3>4. \A q \in file'.owner : pc'[q] \in Owning
      BY <2>7, <3>1 DEF WritePid
    <3>5. file'.owner = {} => file' = NoFile
      BY <3>1, <3>2
    <3> QED BY <1>1, <2>7, <3>1, <3>3, <3>4, <3>5 DEF WritePid
  <2> QED BY <1>3, <2>1, <2>2, <2>3, <2>4, <2>5, <2>6, <2>7 DEF Acquiring
<1>4. ASSUME NEW p \in Procs, Release(p) PROVE QuietInv'
  BY <1>1, <1>4 DEF Release, Removes, FileNamesOwner, Owners
<1>5. ASSUME NEW p \in Procs, WriteFails(p) \/ ProcessDies(p) PROVE QuietInv'
  BY <1>5 DEF WriteFails, ProcessDies
<1>6. CASE Age BY <1>6 DEF Age
<1>7. CASE UNCHANGED lockVars BY <1>1, <1>7 DEF lockVars
<1> QED BY <1>2, <1>3, <1>4, <1>5, <1>6, <1>7 DEF LockNext

\* Without crashes, failed writes and owners slower than 300 s no live owner's
\* lock file is ever removed by another process.
THEOREM NothingStolen ==
  ASSUME ~Faults, ~SlowHolds PROVE LockSpec => []NeverStolen
<1>1. LockInit => QuietInv
  BY LockInvInit DEF QuietInv, LockInit, Alive, NoFile
<1>2. QuietInv /\ [LockNext]_lockVars => QuietInv' BY QuietStep
<1>3. QuietInv => NeverStolen BY DEF QuietInv, NeverStolen
<1> QED BY <1>1, <1>2, <1>3, PTL DEF LockSpec

\* So at most one process at a time is inside the lock.
THEOREM QuietExclusion ==
  ASSUME ~Faults, ~SlowHolds PROVE LockSpec => []MutualExclusion
<1>1. LockSpec => []NeverStolen BY NothingStolen
<1>2. LockSpec => []ExclusionUnlessStolen BY ExclusionHolds
<1>3. NeverStolen /\ ExclusionUnlessStolen => MutualExclusion
  BY DEF NeverStolen, ExclusionUnlessStolen
<1> QED BY <1>1, <1>2, <1>3, PTL

-----------------------------------------------------------------------------
(* The store.                                                               *)

\* The copy a process holds is the store itself until it changes it, and the
\* store with one more update of its own afterwards.
CopyIsFresh(p) ==
  /\ Inside(p, "update") => local[p] = store.payload
  /\ \A s \in {"truncate", "fill", "replace"} :
       Inside(p, s) => local[p] = [store.payload EXCEPT ![p] = @ + 1]
  /\ Inside(p, "replace") => tmp = Whole(local[p])

DataInv == ~stolen => store.kind = "whole" /\ \A p \in Procs : CopyIsFresh(p)

StoreInv == LockInv /\ StoreTypeOK /\ DataInv

\* A step of the store is a step of the lock protocol or leaves the lock alone.
LEMMA StepIsLockStep == [StoreNext]_storeVars => [LockNext]_lockVars
<1> SUFFICES ASSUME [StoreNext]_storeVars PROVE [LockNext]_lockVars
  OBVIOUS
<1>1. ASSUME NEW p \in Procs, LockOnly(p) PROVE LockNext
  BY <1>1 DEF LockOnly, LockNext, Acquiring
<1>2. ASSUME NEW p \in Procs, Acquire(p) PROVE LockNext
  BY <1>2 DEF Acquire, LockNext, Acquiring
<1>3. ASSUME NEW p \in Procs, LeaveBlock(p) PROVE LockNext
  BY <1>3 DEF LeaveBlock, LockNext
<1>4. ASSUME NEW p \in Procs, Access(p) PROVE UNCHANGED lockVars
  BY <1>4 DEF Access, Load, Change, Truncate, Fill, Replace
<1>5. CASE UNCHANGED storeVars BY <1>5 DEF storeVars
<1>6. CASE Age BY <1>6 DEF LockNext
<1> QED BY <1>1, <1>2, <1>3, <1>4, <1>5, <1>6 DEF StoreNext

\* A process inside the lock is alone there as long as nothing was stolen.
LEMMA Alone ==
  ASSUME LockInv, ~stolen, NEW p \in Procs, NEW q \in Procs,
         pc[p] = "held", pc[q] = "held"
  PROVE  p = q
BY DEF LockInv, FileNamesOwner, Owners, Owning

\* A stolen lock is never forgotten.
LEMMA StolenForEver == LockTypeOK /\ [LockNext]_lockVars => (stolen => stolen')
BY DEF LockTypeOK, LockNext, lockVars, Enter, Acquiring, Stat, ReadPid, Probe, Unlink, Create,
       Retry, WritePid, WriteFails, Release, ProcessDies, Age, Removes

\* Types are preserved by every step of the store.
LEMMA TypingStep == StoreTypeOK /\ [StoreNext]_storeVars => StoreTypeOK'
<1> SUFFICES ASSUME StoreTypeOK, [StoreNext]_storeVars PROVE StoreTypeOK'
  OBVIOUS
<1>0. LockTypeOK' BY StepIsLockStep, LockTypingStep DEF StoreTypeOK
<1> USE DEF StoreTypeOK, FileType, Steps, Payload, StepTo, Empty, Missing, Torn, Whole
<1>1. ASSUME NEW p \in Procs, LockOnly(p) PROVE StoreTypeOK'
  BY <1>0, <1>1 DEF LockOnly, dataVars
<1>2. ASSUME NEW p \in Procs, Acquire(p) PROVE StoreTypeOK'
  BY <1>0, <1>2 DEF Acquire
<1>3. ASSUME NEW p \in Procs, LeaveBlock(p) PROVE StoreTypeOK'
  BY <1>0, <1>3 DEF LeaveBlock
<1>4. ASSUME NEW p \in Procs, Access(p) PROVE StoreTypeOK'
  <2>1. CASE Load(p) BY <1>0, <2>1 DEF Load
  <2>2. CASE Change(p)
    <3>1. [local[p] EXCEPT ![p] = @ + 1] \in Payload
      OBVIOUS
    <3>2. local' \in [Procs -> Payload]
      BY <2>2, <3>1 DEF Change
    <3>3. step' \in [Procs -> Steps]
      BY <2>2 DEF Change
    <3> QED BY <1>0, <2>2, <3>2, <3>3 DEF Change
  <2>3. CASE Truncate(p) BY <1>0, <2>3 DEF Truncate
  <2>4. CASE Fill(p) BY <1>0, <2>4 DEF Fill
  <2>5. CASE Replace(p) BY <1>0, <2>5 DEF Replace
  <2> QED BY <1>4, <2>1, <2>2, <2>3, <2>4, <2>5 DEF Access
<1>5. CASE UNCHANGED storeVars BY <1>0, <1>5 DEF storeVars, dataVars
<1>6. CASE Age /\ UNCHANGED dataVars BY <1>0, <1>6 DEF dataVars
<1> QED BY <1>1, <1>2, <1>3, <1>4, <1>5, <1>6 DEF StoreNext

\* DataInv survives every step.  Only a process inside the lock touches the data,
\* and it is alone there unless something was stolen.
LEMMA DataStep == StoreInv /\ [StoreNext]_storeVars => DataInv'
<1> SUFFICES ASSUME StoreInv, [StoreNext]_storeVars, ~stolen' PROVE DataInv'
  BY DEF DataInv
<1>0. ~stolen /\ DataInv /\ LockInv /\ LockTypeOK /\ StoreTypeOK
  BY StepIsLockStep, StolenForEver DEF StoreInv, StoreTypeOK
<1>1. store.kind = "whole" /\ \A q \in Procs : CopyIsFresh(q)
  BY <1>0 DEF DataInv
<1> USE DEF Inside
<1>2. ASSUME UNCHANGED dataVars, \A q \in Procs : pc'[q] = "held" => pc[q] = "held"
      PROVE  DataInv'
  BY <1>1, <1>2 DEF DataInv, CopyIsFresh, dataVars
<1>3. ASSUME NEW p \in Procs, LockOnly(p) PROVE DataInv'
  <2>1. UNCHANGED dataVars BY <1>3 DEF LockOnly
  <2>2. \A q \in Procs : pc'[q] = "held" => pc[q] = "held"
    BY <1>0, <1>3 DEF LockOnly, Enter, Stat, ReadPid, Probe, Unlink, Create, Retry, WriteFails,
                      ProcessDies, Goto, LockTypeOK
  <2> QED BY <1>2, <2>1, <2>2
<1>4. ASSUME NEW p \in Procs, Acquire(p) PROVE DataInv'
  <2>1. ~Inside(p, "update")' /\ \A s \in {"truncate", "fill", "replace"} : ~Inside(p, s)'
    BY <1>0, <1>4 DEF Acquire, StepTo, StoreTypeOK
  <2>2. ASSUME NEW q \in Procs, q # p PROVE CopyIsFresh(q)'
    BY <1>0, <1>1, <1>4, <2>2 DEF Acquire, WritePid, Goto, StepTo, LockTypeOK, StoreTypeOK, CopyIsFresh
  <2>3. CopyIsFresh(p)' BY <2>1 DEF CopyIsFresh
  <2> QED BY <1>1, <1>4, <2>2, <2>3 DEF Acquire, DataInv
<1>5. ASSUME NEW p \in Procs, LeaveBlock(p) PROVE DataInv'
  <2>1. ASSUME NEW q \in Procs PROVE ~(pc[q] = "held" /\ q # p)
    BY <1>0, <1>5, Alone DEF LeaveBlock
  <2>2. ASSUME NEW q \in Procs PROVE pc'[q] # "held"
    BY <1>0, <1>5, <2>1 DEF LeaveBlock, Release, Goto, LockTypeOK
  <2> QED BY <1>1, <1>5, <2>2 DEF LeaveBlock, DataInv, CopyIsFresh
<1>6. ASSUME NEW p \in Procs, Access(p) PROVE DataInv'
  <2>0. pc[p] = "held" /\ UNCHANGED pc
    BY <1>6 DEF Access, Load, Change, Truncate, Fill, Replace, lockVars
  <2>1. ASSUME NEW q \in Procs, q # p PROVE CopyIsFresh(q)'
    BY <1>0, <2>0, <2>1, Alone DEF CopyIsFresh
  <2>2. store'.kind = "whole" /\ CopyIsFresh(p)'
    <3> USE DEF CopyIsFresh, StepTo, StoreTypeOK
    <3>1. CASE Load(p) BY <1>0, <1>1, <2>0, <3>1 DEF Load
    <3>2. CASE Change(p) BY <1>0, <1>1, <2>0, <3>2 DEF Change, Payload
    <3>3. CASE Truncate(p) BY <1>0, <1>1, <2>0, <3>3 DEF Truncate
    <3>4. CASE Fill(p) BY <1>0, <1>1, <2>0, <3>4 DEF Fill
    <3>5. CASE Replace(p) BY <1>0, <1>1, <2>0, <3>5 DEF Replace, Whole, Missing
    <3> QED BY <1>6, <3>1, <3>2, <3>3, <3>4, <3>5 DEF Access
  <2> QED BY <2>1, <2>2 DEF DataInv
<1>7. CASE UNCHANGED storeVars BY <1>1, <1>7 DEF storeVars, lockVars, dataVars, DataInv, CopyIsFresh
<1>8. CASE Age /\ UNCHANGED dataVars BY <1>2, <1>8 DEF Age
<1> QED BY <1>3, <1>4, <1>5, <1>6, <1>7, <1>8 DEF StoreNext

\* The initial state satisfies the invariant.
LEMMA StoreInvInit == StoreInit => StoreInv
<1> SUFFICES ASSUME StoreInit PROVE StoreInv
  OBVIOUS
<1>1. LockInv BY LockInvInit DEF StoreInit
<1>2. StoreTypeOK
  BY <1>1 DEF StoreInit, LockInv, StoreTypeOK, FileType, Steps, Payload, Empty, Missing, Whole
<1>3. DataInv
  BY DEF StoreInit, LockInit, DataInv, CopyIsFresh, Inside, Whole
<1> QED BY <1>1, <1>2, <1>3 DEF StoreInv

\* StoreInv is inductive.
LEMMA StoreInvStep == StoreInv /\ [StoreNext]_storeVars => StoreInv'
BY TypingStep, DataStep, StepIsLockStep, LockInvStep DEF StoreInv

\* The types of the lock, of both files and of every process's copy hold.
THEOREM TypesHold == StoreSpec => []StoreTypeOK
<1>1. StoreInit => StoreInv BY StoreInvInit
<1>2. StoreInv /\ [StoreNext]_storeVars => StoreInv' BY StoreInvStep
<1>3. StoreInv => StoreTypeOK BY DEF StoreInv
<1> QED BY <1>1, <1>2, <1>3, PTL DEF StoreSpec

\* Whatever crashes and wherever, work-items.json is never found half-written
\* as long as no lock was stolen (save() through the temporary file).
THEOREM NeverTorn == StoreSpec => []StoreNeverTorn
<1>1. StoreInit => StoreInv BY StoreInvInit
<1>2. StoreInv /\ [StoreNext]_storeVars => StoreInv' BY StoreInvStep
<1>3. StoreInv => StoreNeverTorn BY DEF StoreInv, DataInv, StoreNeverTorn
<1> QED BY <1>1, <1>2, <1>3, PTL DEF StoreSpec

\* The only step that changes the store is a save that adds the saver's own
\* update to everything already there.
LEMMA SaveAddsOne ==
  ASSUME StoreInv, [StoreNext]_storeVars, ~stolen, store' # store
  PROVE  \E p \in Procs : store'.payload = [store.payload EXCEPT ![p] = @ + 1]
<1>1. PICK p \in Procs : Replace(p)
  BY DEF StoreNext, LockOnly, Acquire, LeaveBlock, Access, Load, Change, Truncate, Fill, storeVars, dataVars
<1>2. tmp = Whole(local[p]) /\ local[p] = [store.payload EXCEPT ![p] = @ + 1]
  BY <1>1 DEF Replace, StoreInv, DataInv, CopyIsFresh
<1>3. store' = tmp BY <1>1 DEF Replace
<1> QED BY <1>2, <1>3 DEF Whole

\* No update of one process is undone by the save of another, crashes included,
\* as long as no lock was stolen (AtlasWorkItemStore.update_item, claim, requeue).
THEOREM NoUpdateLost == StoreSpec => NoLostUpdate
<1>1. StoreInit => StoreInv BY StoreInvInit
<1>2. StoreInv /\ [StoreNext]_storeVars => StoreInv' BY StoreInvStep
<1>3. StoreInv /\ [StoreNext]_storeVars =>
        [~stolen /\ store' # store =>
           \E p \in Procs : store'.payload = [store.payload EXCEPT ![p] = @ + 1]]_storeVars
  BY SaveAddsOne
<1> QED BY <1>1, <1>2, <1>3, PTL DEF StoreSpec, NoLostUpdate

\* With every fault the store implements the atomic store up to the first theft of
\* a lock: until then each step of work-items.json is one whole update of one process.
THEOREM AtomicUntilStolen ==
  /\ StoreSpec => Atomic!Init /\ [][~stolen => Atomic!Next]_(store.payload)
  /\ StoreSpec /\ []~stolen => AtomicSpec
<1>1. StoreInit => StoreInv /\ Atomic!Init
  BY StoreInvInit DEF StoreInit, Atomic!Init, Whole, Empty
<1>2. StoreInv /\ [StoreNext]_storeVars => StoreInv' BY StoreInvStep
<1>3. StoreInv /\ [StoreNext]_storeVars => [~stolen => Atomic!Next]_(store.payload)
  BY SaveAddsOne DEF Atomic!Next, Atomic!Update
<1>4. ~stolen /\ [~stolen => Atomic!Next]_(store.payload) => [Atomic!Next]_(store.payload)
  OBVIOUS
<1> QED BY <1>1, <1>2, <1>3, <1>4, PTL DEF StoreSpec, AtomicSpec, Atomic!Spec

\* Without faults and slow owners the store implements the atomic store.
THEOREM StoreIsAtomic == ASSUME ~Faults, ~SlowHolds PROVE StoreSpec => AtomicSpec
<1> DEFINE I == StoreInv /\ QuietInv
<1>1. StoreInit => I
  BY StoreInvInit, LockInvInit DEF QuietInv, StoreInit, LockInit, Alive, NoFile
<1>2. I /\ [StoreNext]_storeVars => I'
  BY StoreInvStep, StepIsLockStep, QuietStep
<1>3. StoreInit => Atomic!Init BY DEF StoreInit, Atomic!Init, Whole, Empty
<1>4. I /\ [StoreNext]_storeVars => [Atomic!Next]_(store.payload)
  BY SaveAddsOne DEF QuietInv, Atomic!Next, Atomic!Update
<1> QED BY <1>1, <1>2, <1>3, <1>4, PTL DEF StoreSpec, AtomicSpec, Atomic!Spec
=============================================================================
