--------------------------- MODULE IssueLaneProofs ---------------------------
(***************************************************************************)
(* Proofs about the GitHub lane.                                           *)
(*                                                                         *)
(* IssueDispatch, for any number of issues, lanes, workers, scopes and     *)
(* deaths: as long as no file that was needed is unlinked, one worker runs *)
(* for an issue, and workers whose write scopes overlap do not run side by *)
(* side.  Both hold whether or not the queue is refilled.                  *)
(*                                                                         *)
(* PullRequests, for any pull requests, overlaps, stages and pushes, any   *)
(* failures, and any number of cycles whose commands run beside each       *)
(* other: what is merged at the head it was approved for has earned it,    *)
(* and, as long as no command fails, of two that overlap one finalize      *)
(* merges one at most.                                                     *)
(***************************************************************************)
EXTENDS IssueDispatch, PullRequests, FiniteSetTheorems, WellFoundedInduction, TLAPS

-----------------------------------------------------------------------------
(* IssueDispatch: the inductive invariant. *)

Lock(i, c) == <<"lock", LockKey[i], LockNames(i)[c]>>
Locks(i) == {Lock(i, c) : c \in 1..Len(LockNames(i))}

\* The files that stand for an issue: its lease, and the first of its locks.
StandsFor(i) == {Lease(i), Lock(i, 1)}

Stages == {"idle", "queue", "pick", "unready", "look", "stat", "unlink", "create", "write",
           "recheck", "scan", "scanstat", "leave", "start", "wait", "drop"}
Outside == {"idle", "queue", "pick", "unready"}
Taking == {"look", "stat", "unlink", "create", "write"}
Started == {"start", "wait"}

SomeIssue == Issues \cup {NoJob.issue}
FileType == [owner : SUBSET Lanes, issue : SUBSET Issues, written : BOOLEAN, old : BOOLEAN]
LaneType == [at : Stages, list : SUBSET Issues, skip : SUBSET Issues, issue : SomeIssue,
             path : Paths \cup {Lease(NoJob.issue)}, held : SUBSET Paths]
JobType == [at : {"none", "check", "label", "working", "clear", "mark", "over"},
            issue : SomeIssue, lane : SUBSET Lanes]
DispatchTypes == /\ files \in [Paths -> FileType]
                 /\ lane \in [Lanes -> LaneType]
                 /\ job \in [Jobs -> JobType]

\* What a lane that takes a file works on, and what it holds by then.
TakesLease(p) == LET i == lane[p].issue IN
  /\ lane[p].path = Lease(i)
  /\ lane[p].held = IF At(p, "write") THEN {Lease(i)} ELSE {}
TakesNamespace(p) == LET i == lane[p].issue IN
  /\ lane[p].path = Namespace(i)
  /\ lane[p].held = IF At(p, "write") THEN {Lease(i), Namespace(i)} ELSE {Lease(i)}
TakesLock(p) == LET i == lane[p].issue IN
  /\ lane[p].path \in Locks(i)
  /\ {Lease(i), Namespace(i)} \subseteq lane[p].held
  /\ lane[p].path = Lock(i, 1) \/ Lock(i, 1) \in lane[p].held

\* What a lane holds where it is.
Placed(p) == LET i == lane[p].issue IN
  /\ IsFiniteSet(lane[p].held)
  /\ lane[p].at \in Outside => lane[p].held = {}
  /\ lane[p].at \notin Outside => i \in Issues
  /\ lane[p].at \in Taking => TakesLease(p) \/ TakesNamespace(p) \/ TakesLock(p)
  /\ At(p, "unlink") => lane[p].path \notin lane[p].held
  /\ At(p, "write") => lane[p].path \in lane[p].held
  /\ At(p, "recheck") => lane[p].held = {Lease(i)}
  /\ lane[p].at \in {"scan", "scanstat"} => lane[p].held = {Lease(i), Namespace(i)}
  /\ At(p, "leave") => {Lease(i), Namespace(i), Lock(i, 1)} \subseteq lane[p].held
  /\ lane[p].at \in Started => StandsFor(i) \subseteq lane[p].held

\* What a lane holds is its own: there, written for its issue, and not stale.
Owns(p) == \A k \in lane[p].held : /\ files[k].owner = {p} /\ files[k].issue = {lane[p].issue}
                                   /\ ~files[k].old

\* The files that stand for a running worker's issue are there and not stale,
\* whether or not its lane lives; a lane that holds one of them waits for it.
Guarded(n) ==
  Running(n) => /\ job[n].issue \in Issues
                /\ \A k \in StandsFor(job[n].issue) :
                     /\ files[k].issue = {job[n].issue} /\ ~files[k].old
                     /\ \A p \in Lanes : k \in lane[p].held => p \in job[n].lane

\* A worker's lane waits for it, and for it alone.
Awaited(n) == \A p \in job[n].lane : /\ At(p, "wait") /\ lane[p].issue = job[n].issue
                                     /\ job[n].lane = {p}
                                     /\ \A m \in Jobs : p \in job[m].lane => m = n

\* A lane that has scanned the locks of its branch until it gives its locks back.
Scanned(p) == \/ lane[p].at \in {"leave", "start", "wait"}
              \/ lane[p].at \in Taking /\ lane[p].path \in Locks(lane[p].issue)

Clash(i, j) == LockKey[i] = LockKey[j] /\ Conflicts(i, j)
ClearOfWorker(p, n) == Scanned(p) /\ Running(n) /\ p \notin job[n].lane
                         => ~Clash(job[n].issue, lane[p].issue)
ClearOfLane(p, q) == Scanned(p) /\ lane[q].at \in Started /\ p # q
                       => ~Clash(lane[q].issue, lane[p].issue)
Apart(m, n) == Running(m) /\ Running(n) /\ m # n
                 => job[m].issue # job[n].issue /\ ~Clash(job[m].issue, job[n].issue)

Orderly == /\ DispatchTypes
           /\ \A p \in Lanes : Placed(p) /\ Owns(p)
           /\ \A n \in Jobs : Guarded(n) /\ Awaited(n)
           /\ \A p \in Lanes, n \in Jobs : ClearOfWorker(p, n)
           /\ \A p, q \in Lanes : ClearOfLane(p, q)
           /\ \A m, n \in Jobs : Apart(m, n)
DispatchInv == ~stolen => Orderly

-----------------------------------------------------------------------------
(* Names of files, and scopes. *)

\* Every issue has at least one lock name: << >> when it is exclusive.
LEMMA LockNamesFit == \A i \in Issues : /\ LockNames(i) \in Seq(Seq(STRING))
                                        /\ Len(LockNames(i)) \in Nat \ {0}
                                        /\ Lock(i, 1) \in Locks(i)
<1> SUFFICES ASSUME NEW i \in Issues
             PROVE /\ LockNames(i) \in Seq(Seq(STRING))
                   /\ Len(LockNames(i)) \in Nat \ {0}
                   /\ Lock(i, 1) \in Locks(i)
    OBVIOUS
<1>1. WriteScope[i] \in Seq(Seq(STRING))
  BY ScopeAssumption
<1>2. LockNames(i) \in Seq(Seq(STRING)) /\ Len(LockNames(i)) \in Nat \ {0}
  <2>1. CASE Exclusive(i)
    <3>1. << >> \in Seq(STRING)
      OBVIOUS
    <3> QED BY <2>1, <3>1 DEF LockNames
  <2>2. CASE ~Exclusive(i)
    BY <1>1, <2>2 DEF LockNames, Exclusive
  <2> QED BY <2>1, <2>2
<1>3. 1 \in 1..Len(LockNames(i))
  BY <1>2
<1> QED BY <1>2, <1>3 DEF Locks

\* A lease, a namespace lock and a scope lock are different files, and a lease is
\* of one issue; issues of one branch share the namespace lock.
LEMMA FilesDiffer ==
  \A i, j : /\ Lease(i) = Lease(j) => i = j
            /\ Lease(i) # Namespace(j)
            /\ \A k \in Locks(j) : Lease(i) # k /\ Namespace(i) # k /\ k[1] = "lock"
            /\ \A k \in ScopeLocks(j) : Lease(i) # k /\ Namespace(i) # k /\ k[1] = "lock"
            /\ LockKey[i] = LockKey[j] => Namespace(i) = Namespace(j)
            /\ Lease(i)[1] = "lease" /\ Namespace(i)[1] = "namespace"
BY DEF Lease, Namespace, Locks, Lock, ScopeLocks

\* All of an issue's files are among the paths, and its locks are among those
\* that a lane scans for an issue of the same branch.
LEMMA FilesOfIssue ==
  \A i \in Issues : /\ Lease(i) \in Paths /\ Namespace(i) \in Paths
                    /\ ScopeLocks(i) \subseteq Paths
                    /\ \A j \in Issues : LockKey[j] = LockKey[i] => Locks(j) \subseteq ScopeLocks(i)
                    /\ Lock(i, 1) \in Locks(i)
                    /\ Locks(i) \subseteq Paths
                    /\ StandsFor(i) \subseteq Paths
<1>1. \A i \in Issues : Lease(i) \in Paths /\ Namespace(i) \in Paths /\ ScopeLocks(i) \subseteq Paths
  BY DEF Paths
<1>2. \A i, j \in Issues : LockKey[j] = LockKey[i] => Locks(j) \subseteq ScopeLocks(i)
  <2> SUFFICES ASSUME NEW i \in Issues, NEW j \in Issues, LockKey[j] = LockKey[i],
                      NEW c \in 1..Len(LockNames(j))
               PROVE Lock(j, c) \in ScopeLocks(i)
      BY DEF Locks
  <2>1. c \in DOMAIN LockNames(j)
    BY LockNamesFit
  <2>2. LockNames(j)[c] \in UNION {Range(LockNames(l)) : l \in Issues}
    BY <2>1 DEF Range
  <2> QED BY <2>2 DEF Lock, ScopeLocks
<1>3. \A i \in Issues : Lock(i, 1) \in Locks(i)
  BY LockNamesFit
<1> QED BY <1>1, <1>2, <1>3 DEF StandsFor

\* Whether two issues conflict does not depend on which of them asks.
LEMMA ConflictsBothWays == \A i, j : Conflicts(i, j) => Conflicts(j, i)
<1>1. \A a, b : ScopesOverlap(a, b) => ScopesOverlap(b, a)
  BY DEF ScopesOverlap
<1> QED BY <1>1 DEF Conflicts

\* What scopes say on their own is covered by the conflict rule of the code.
LEMMA MeetingIsConflict == \A i, j \in Issues : MayMeet(i, j) => Conflicts(i, j)
<1> SUFFICES ASSUME NEW i \in Issues, NEW j \in Issues, MayMeet(i, j)
             PROVE Conflicts(i, j)
    OBVIOUS
<1>1. WriteScope[i] \in Seq(Seq(STRING)) /\ WriteScope[j] \in Seq(Seq(STRING))
  BY ScopeAssumption
<1>2. \A l \in {i, j} : Vague(l) => Exclusive(l)
  BY DEF Vague, Exclusive, UnknownScope, Range
<1>3. \A l \in {i, j} : Range(WriteScope[l]) \subseteq Seq(STRING)
  BY <1>1 DEF Range
<1>4. ASSUME NEW a \in Seq(STRING), NEW b \in Seq(STRING), NEW f \in {a, b}, Inside(f, a), Inside(f, b)
      PROVE IsPrefix(a, b) \/ IsPrefix(b, a)
  <2>1. SubSeq(a, 1, Len(a)) = a /\ SubSeq(b, 1, Len(b)) = b
    OBVIOUS
  <2>2. Len(a) \in Nat /\ Len(b) \in Nat
    OBVIOUS
  <2>3. CASE f = a
    BY <1>4, <2>1, <2>2, <2>3 DEF Inside, IsPrefix
  <2>4. CASE f = b
    BY <1>4, <2>1, <2>2, <2>4 DEF Inside, IsPrefix
  <2> QED BY <2>3, <2>4
<1>5. ASSUME NEW a \in Seq(STRING), NEW b \in Seq(STRING), Dir(a) = Dir(b),
             NEW s \in Schema, NEW t \in Schema, s \in Range(a), t \in Range(b)
      PROVE ScopesOverlap(a, b)
  BY <1>5 DEF Dir, ScopesOverlap, Migration, Front
<1>6. ASSUME NEW a \in Range(WriteScope[i]), NEW b \in Range(WriteScope[j]),
             \/ \E f \in {a, b} : Inside(f, a) /\ Inside(f, b)
             \/ Dir(a) = Dir(b) /\ \E s, t \in Schema : s \in Range(a) /\ t \in Range(b)
      PROVE ScopesOverlap(a, b)
  BY <1>3, <1>4, <1>5, <1>6 DEF ScopesOverlap
<1> QED BY <1>2, <1>6 DEF MayMeet, Conflicts

-----------------------------------------------------------------------------
(* Steps of one lane. *)

\* The files of the other lanes and of the running workers stay as they are.
OthersKept(p) ==
  /\ \A q \in Lanes \ {p} : \A k \in lane[q].held : files'[k] = files[k]
  /\ \A n \in Jobs : Running(n) => \A k \in StandsFor(job[n].issue) : files'[k] = files[k]

\* No lane that does not wait is the lane of a worker.
LEMMA NotAwaited == ASSUME Orderly, NEW p \in Lanes, ~At(p, "wait")
                    PROVE  \A n \in Jobs : p \notin job[n].lane
BY DEF Orderly, Awaited

\* A step of a lane that waits for no worker keeps everything in order when the
\* files of the others stay, what it newly holds was not there, and the lane itself is
\* in order and clear of the workers and of the other lanes.
LEMMA LaneFrame ==
  ASSUME Orderly, NEW p \in Lanes, ~At(p, "wait"), DispatchTypes', job' = job,
         \A q \in Lanes \ {p} : lane'[q] = lane[q],
         OthersKept(p),
         \A k \in lane'[p].held : k \in lane[p].held \/ ~Exists(k),
         Placed(p)', Owns(p)',
         \A n \in Jobs : ClearOfWorker(p, n)',
         \A q \in Lanes : ClearOfLane(p, q)' /\ ClearOfLane(q, p)'
  PROVE  Orderly'
<1>1. ASSUME NEW q \in Lanes PROVE Placed(q)' /\ Owns(q)'
  <2>1. CASE q = p
    BY <2>1
  <2>2. CASE q # p
    <3>1. lane'[q] = lane[q] /\ Placed(q) /\ Owns(q)
      BY <2>2 DEF Orderly
    <3>2. Placed(q)'
      BY <3>1 DEF Placed, At, TakesLease, TakesNamespace, TakesLock
    <3>3. \A k \in lane[q].held : files'[k] = files[k]
      BY <2>2 DEF OthersKept
    <3> QED BY <3>1, <3>2, <3>3 DEF Owns
  <2> QED BY <2>1, <2>2
<1>2. ASSUME NEW n \in Jobs PROVE Guarded(n)' /\ Awaited(n)'
  <2>1. Guarded(n) /\ Awaited(n) /\ p \notin job[n].lane /\ job'[n] = job[n]
    BY NotAwaited DEF Orderly
  <2>2. Awaited(n)'
    <3> SUFFICES ASSUME NEW q \in job[n].lane
                 PROVE /\ At(q, "wait")' /\ lane'[q].issue = job[n].issue /\ job[n].lane = {q}
                       /\ \A m \in Jobs : q \in job[m].lane => m = n
        BY DEF Awaited
    <3>1. q \in Lanes \ {p}
      BY <2>1 DEF Orderly, DispatchTypes, JobType
    <3> QED BY <2>1, <3>1 DEF Awaited, At
  <2>3. Guarded(n)'
    <3> SUFFICES ASSUME Running(n)
                 PROVE  /\ job[n].issue \in Issues
                        /\ \A k \in StandsFor(job[n].issue) :
                             /\ files'[k].issue = {job[n].issue} /\ ~files'[k].old
                             /\ \A q \in Lanes : k \in lane'[q].held => q \in job[n].lane
        BY DEF Guarded, Running, StandsFor, Lease, Lock
    <3>1. job[n].issue \in Issues
      BY <2>1 DEF Guarded
    <3>2. ASSUME NEW k \in StandsFor(job[n].issue)
          PROVE  /\ files'[k].issue = {job[n].issue} /\ ~files'[k].old
                 /\ \A q \in Lanes : k \in lane'[q].held => q \in job[n].lane
      <4>1. /\ files[k].issue = {job[n].issue} /\ ~files[k].old
            /\ \A q \in Lanes : k \in lane[q].held => q \in job[n].lane
        BY <2>1 DEF Guarded
      <4>2. files'[k] = files[k]
        BY DEF OthersKept
      <4>3. k \notin lane'[p].held
        BY <4>1, <2>1 DEF Exists, NoFile
      <4> QED BY <4>1, <4>2, <4>3
    <3> QED BY <3>1, <3>2
  <2> QED BY <2>2, <2>3
<1>3. ASSUME NEW q \in Lanes, NEW n \in Jobs PROVE ClearOfWorker(q, n)'
  <2>1. CASE q = p
    BY <2>1
  <2>2. CASE q # p
    BY <2>2 DEF Orderly, ClearOfWorker, Scanned, Running
  <2> QED BY <2>1, <2>2
<1>4. ASSUME NEW q \in Lanes, NEW r \in Lanes PROVE ClearOfLane(q, r)'
  <2>1. CASE q = p \/ r = p
    BY <2>1
  <2>2. CASE q # p /\ r # p
    BY <2>2 DEF Orderly, ClearOfLane, Scanned
  <2> QED BY <2>1, <2>2
<1>5. \A m, n \in Jobs : Apart(m, n)'
  BY DEF Orderly, Apart, Running
<1> QED BY <1>1, <1>2, <1>3, <1>4, <1>5 DEF Orderly

\* Such a step needs no look at the others when it does not enter the part of
\* the lane that must be clear of them.
LEMMA QuietFrame ==
  ASSUME Orderly, NEW p \in Lanes, ~At(p, "wait"), DispatchTypes', job' = job,
         \A q \in Lanes \ {p} : lane'[q] = lane[q],
         OthersKept(p),
         \A k \in lane'[p].held : k \in lane[p].held \/ ~Exists(k),
         Placed(p)', Owns(p)',
         Scanned(p)' => Scanned(p) /\ lane'[p].issue = lane[p].issue,
         lane'[p].at \in Started => lane[p].at \in Started
  PROVE  Orderly'
<1>1. \A n \in Jobs : ClearOfWorker(p, n)'
  BY DEF Orderly, ClearOfWorker, Running
<1>2. ASSUME NEW q \in Lanes PROVE ClearOfLane(p, q)' /\ ClearOfLane(q, p)'
  <2>1. CASE q = p
    BY <2>1 DEF ClearOfLane
  <2>2. CASE q # p
    <3>1. lane'[q] = lane[q] /\ ClearOfLane(p, q) /\ ClearOfLane(q, p)
      BY <2>2 DEF Orderly
    <3>2. ClearOfLane(p, q)'
      BY <3>1, <2>2 DEF ClearOfLane
    <3>3. lane'[p].at \in Started => lane'[p].issue = lane[p].issue
      BY DEF Scanned, Started
    <3>4. ClearOfLane(q, p)'
      BY <3>1, <3>3, <2>2 DEF ClearOfLane, Scanned
    <3> QED BY <3>2, <3>4
  <2> QED BY <2>1, <2>2
<1> QED BY <1>1, <1>2, LaneFrame

\* A lane's step changes its own record alone.
LEMMA LaneMoves ==
  ASSUME DispatchTypes, NEW p \in Lanes, NEW x \in LaneType, lane' = [lane EXCEPT ![p] = x]
  PROVE  /\ lane' \in [Lanes -> LaneType]
         /\ lane'[p] = x
         /\ \A q \in Lanes \ {p} : lane'[q] = lane[q]
BY DEF DispatchTypes

\* Going to another step keeps what the lane lists and holds, its path as long as it
\* takes that file, and its issue until it picks another one.
LEMMA GotoMoves ==
  ASSUME DispatchTypes, NEW p \in Lanes, NEW l \in Stages, Goto(p, l)
  PROVE  /\ lane' \in [Lanes -> LaneType]
         /\ \A q \in Lanes \ {p} : lane'[q] = lane[q]
         /\ lane'[p].at = l /\ lane'[p].held = lane[p].held
         /\ l \in Taking => lane'[p].path = lane[p].path
         /\ l # "pick" => lane'[p].issue = lane[p].issue
<1>1. PICK x : x = [lane[p] EXCEPT
                      !.at = l,
                      !.path = IF l \in Taking THEN @ ELSE Lease(NoJob.issue),
                      !.issue = IF l = "pick" THEN NoJob.issue ELSE @]
  OBVIOUS
<1>2. lane[p] \in LaneType /\ DOMAIN lane = Lanes
  BY DEF DispatchTypes
<1>3. x \in LaneType
  BY <1>1, <1>2 DEF LaneType, SomeIssue
<1>4. /\ x.at = l /\ x.held = lane[p].held
      /\ l \in Taking => x.path = lane[p].path
      /\ l # "pick" => x.issue = lane[p].issue
  BY <1>1, <1>2 DEF LaneType
<1>5. lane' = [lane EXCEPT ![p] = x]
  BY <1>1, <1>2 DEF Goto, Taking, LaneType
<1> QED BY <1>3, <1>4, <1>5, LaneMoves

\* Trying a file sets the path, and keeps the rest.
LEMMA TryMoves ==
  ASSUME DispatchTypes, NEW p \in Lanes, NEW k \in Paths, Try(p, k)
  PROVE  /\ lane' \in [Lanes -> LaneType]
         /\ \A q \in Lanes \ {p} : lane'[q] = lane[q]
         /\ lane'[p].at = "look" /\ lane'[p].held = lane[p].held
         /\ lane'[p].path = k /\ lane'[p].issue = lane[p].issue
<1>1. PICK x : x = [lane[p] EXCEPT !.at = "look", !.path = k]
  OBVIOUS
<1>2. lane[p] \in LaneType /\ DOMAIN lane = Lanes
  BY DEF DispatchTypes
<1>3. x \in LaneType
  BY <1>1, <1>2 DEF LaneType, Stages
<1>4. x.at = "look" /\ x.held = lane[p].held /\ x.path = k /\ x.issue = lane[p].issue
  BY <1>1, <1>2 DEF LaneType
<1>5. lane' = [lane EXCEPT ![p] = x]
  BY <1>1, <1>2 DEF Try, LaneType
<1> QED BY <1>3, <1>4, <1>5, LaneMoves

\* A lane that starts anew holds nothing.
LEMMA IdleMoves ==
  ASSUME DispatchTypes, NEW p \in Lanes, lane' = [lane EXCEPT ![p] = Idle]
  PROVE  /\ lane' \in [Lanes -> LaneType]
         /\ \A q \in Lanes \ {p} : lane'[q] = lane[q]
         /\ lane'[p].at = "idle" /\ lane'[p].held = {}
<1>1. Idle \in LaneType
  BY DEF Idle, LaneType, Stages, SomeIssue
<1>2. Idle.at = "idle" /\ Idle.held = {}
  BY DEF Idle
<1> QED BY <1>1, <1>2, LaneMoves

\* Unlinking files that no lane or worker needs keeps the others', and of the
\* lane's own those it does not unlink.
LEMMA UnlinkKeeps ==
  ASSUME Orderly, NEW p \in Lanes, ~At(p, "wait"), NEW S, Unlink(S, p), ~stolen'
  PROVE  /\ files' \in [Paths -> FileType]
         /\ OthersKept(p)
         /\ \A k \in lane[p].held \ S : files'[k] = files[k]
<1>1. \A k \in S : Needed(k) => Holds(p, k)
  BY DEF Unlink
<1>2. NoFile \in FileType
  BY DEF NoFile, FileType
<1>3. files' = [k \in Paths |-> IF k \in S THEN NoFile ELSE files[k]] /\ files \in [Paths -> FileType]
  BY DEF Unlink, Orderly, DispatchTypes
<1>4. files' \in [Paths -> FileType]
  BY <1>2, <1>3
<1>5. ASSUME NEW q \in Lanes \ {p}, NEW k \in lane[q].held PROVE files'[k] = files[k]
  <2>1. files[k].owner = {q} /\ k \in Paths
    BY DEF Orderly, Owns, DispatchTypes, LaneType
  <2>2. Needed(k) /\ ~Holds(p, k)
    BY <2>1 DEF Needed, Holds
  <2> QED BY <1>1, <1>3, <2>1, <2>2
<1>6. ASSUME NEW n \in Jobs, Running(n), NEW k \in StandsFor(job[n].issue) PROVE files'[k] = files[k]
  <2>1. /\ job[n].issue \in Issues /\ files[k].issue = {job[n].issue}
        /\ k \in lane[p].held => p \in job[n].lane
    BY <1>6 DEF Orderly, Guarded
  <2>2. k \in Paths /\ k[1] # "namespace"
    BY <2>1, FilesOfIssue, FilesDiffer DEF StandsFor
  <2>3. Needed(k)
    BY <1>6, <2>1, <2>2 DEF Needed
  <2>4. k \notin lane[p].held
    BY <2>1, NotAwaited
  <2> QED BY <1>1, <1>3, <2>2, <2>3, <2>4 DEF Holds
<1>7. \A k \in lane[p].held \ S : files'[k] = files[k]
  BY <1>3 DEF Orderly, DispatchTypes, LaneType
<1> QED BY <1>4, <1>5, <1>6, <1>7 DEF OthersKept

\* Files that nobody touches keep the others'.
LEMMA UntouchedKeeps == \A p : files' = files => OthersKept(p)
BY DEF OthersKept

-----------------------------------------------------------------------------
(* The steps of a lane that touch no file. *)

\* What a lane holds is still its own when neither the files nor its issue change.
LEMMA OwnsStays ==
  ASSUME NEW p, Owns(p), files' = files, lane'[p].held = lane[p].held,
         lane'[p].issue = lane[p].issue \/ lane[p].held = {}
  PROVE  Owns(p)'
BY DEF Owns

\* A lane outside an issue holds nothing, and is placed wherever it lists or picks.
LEMMA OutsideSteps ==
  ASSUME Orderly, NEW p \in Lanes, lane[p].at \in Outside, NEW x \in LaneType,
         lane' = [lane EXCEPT ![p] = x], job' = job, files' = files, x.held = {},
         \/ x.at \in Outside
         \/ x.at = "look" /\ x.issue \in Issues /\ x.path = Lease(x.issue)
  PROVE  Orderly'
<1>1. /\ lane' \in [Lanes -> LaneType] /\ lane'[p] = x
      /\ \A q \in Lanes \ {p} : lane'[q] = lane[q]
  BY LaneMoves DEF Orderly
<1>2. lane[p].held = {} /\ ~At(p, "wait")
  BY DEF Orderly, Placed, Outside, At
<1>3. Placed(p)'
  <2>1. IsFiniteSet({})
    BY FS_EmptySet
  <2>2. CASE x.at \in Outside
    BY <1>1, <2>1, <2>2 DEF Placed, At, Outside, Taking, Started
  <2>3. CASE x.at = "look" /\ x.issue \in Issues /\ x.path = Lease(x.issue)
    BY <1>1, <2>1, <2>3 DEF Placed, At, Outside, Taking, Started, TakesLease, Lease
  <2> QED BY <2>2, <2>3
<1>4. Owns(p)'
  BY <1>1 DEF Owns
<1>5. ~Scanned(p)' /\ lane'[p].at \notin Started
  <2>1. CASE x.at \in Outside
    BY <1>1, <2>1 DEF Scanned, Outside, Taking, Started
  <2>2. CASE x.at = "look" /\ x.issue \in Issues /\ x.path = Lease(x.issue)
    <3>1. Lease(x.issue) \notin Locks(x.issue)
      BY FilesDiffer
    <3> QED BY <1>1, <2>2, <3>1 DEF Scanned, Outside, Taking, Started, Locks, Lock
  <2> QED BY <2>1, <2>2
<1>6. DispatchTypes'
  BY <1>1 DEF Orderly, DispatchTypes, Lease, Namespace, LaneType, FileType, Paths, ScopeLocks, JobType
<1> QED BY <1>1, <1>2, <1>3, <1>4, <1>5, <1>6, QuietFrame, UntouchedKeeps

\* Listing, queueing, picking an issue, and passing over a blocked one.
LEMMA ListingKeeps ==
  ASSUME Orderly, NEW p \in Lanes,
         \/ ListCandidates(p) \/ Queue(p) \/ ListReady(p) \/ Pick(p) \/ Skip(p)
         \/ Unready(p) \/ EndCycle(p)
  PROVE  Orderly'
<1>1. lane[p] \in LaneType /\ DOMAIN lane = Lanes
  BY DEF Orderly, DispatchTypes
<1>2. lane[p].at \in Outside => lane[p].held = {}
  BY DEF Orderly, Placed
<1>3. CASE ListCandidates(p)
  <2>1. PICK x : x = [lane[p] EXCEPT !.at = "queue", !.list = {i \in Issues : label[i] = {}}]
    OBVIOUS
  <2>2. x \in LaneType /\ x.at = "queue" /\ x.held = lane[p].held
    BY <1>1, <2>1 DEF LaneType, Stages
  <2>3. lane' = [lane EXCEPT ![p] = x] /\ job' = job /\ files' = files /\ lane[p].at \in Outside
    BY <1>1, <1>3, <2>1 DEF ListCandidates, At, Outside, LaneType
  <2> QED BY <1>2, <2>2, <2>3, OutsideSteps DEF Outside
<1>4. CASE Queue(p)
  <2>1. PICK i \in lane[p].list : lane' = [lane EXCEPT ![p].list = @ \ {i}]
    BY <1>4 DEF Queue
  <2>2. PICK x : x = [lane[p] EXCEPT !.list = lane[p].list \ {i}]
    OBVIOUS
  <2>3. x \in LaneType /\ x.at = lane[p].at /\ x.held = lane[p].held
    BY <1>1, <2>2 DEF LaneType
  <2>4. lane' = [lane EXCEPT ![p] = x] /\ job' = job /\ files' = files /\ lane[p].at \in Outside
    BY <1>1, <1>4, <2>1, <2>2 DEF Queue, At, Outside, LaneType
  <2> QED BY <1>2, <2>3, <2>4, OutsideSteps
<1>5. CASE ListReady(p)
  <2>1. PICK ready, S : /\ ready = {i \in Issues : "ready" \in label[i]} /\ S \in SUBSET ready
                        /\ lane' = [lane EXCEPT ![p].at = "pick", ![p].list = ready \ S, ![p].skip = S]
    BY <1>5 DEF ListReady
  <2>2. PICK x : x = [lane[p] EXCEPT !.at = "pick", !.list = ready \ S, !.skip = S]
    OBVIOUS
  <2>3. x \in LaneType /\ x.at = "pick" /\ x.held = lane[p].held
    BY <1>1, <2>1, <2>2 DEF LaneType, Stages
  <2>4. lane' = [lane EXCEPT ![p] = x] /\ job' = job /\ files' = files /\ lane[p].at \in Outside
    BY <1>1, <1>5, <2>1, <2>2 DEF ListReady, Outside, LaneType
  <2> QED BY <1>2, <2>3, <2>4, OutsideSteps DEF Outside
<1>6. CASE Pick(p)
  <2>1. PICK i \in lane[p].list : lane' = [lane EXCEPT ![p].at = "look", ![p].issue = i,
                                                       ![p].list = @ \ {i}, ![p].path = Lease(i)]
    BY <1>6 DEF Pick
  <2>2. PICK x : x = [lane[p] EXCEPT !.at = "look", !.issue = i, !.list = lane[p].list \ {i},
                                     !.path = Lease(i)]
    OBVIOUS
  <2>3. i \in Issues /\ Lease(i) \in Paths
    BY <1>1, FilesOfIssue DEF LaneType
  <2>4. /\ x \in LaneType /\ x.at = "look" /\ x.held = lane[p].held
        /\ x.issue = i /\ x.path = Lease(i)
    BY <1>1, <2>2, <2>3 DEF LaneType, Stages, SomeIssue
  <2>5. lane' = [lane EXCEPT ![p] = x] /\ job' = job /\ files' = files /\ lane[p].at \in Outside
    BY <1>1, <1>6, <2>1, <2>2 DEF Pick, At, Outside, LaneType
  <2> QED BY <1>2, <2>3, <2>4, <2>5, OutsideSteps
<1>7. CASE Skip(p)
  <2>1. PICK i \in lane[p].skip : lane' = [lane EXCEPT ![p].at = "unready", ![p].issue = i]
    BY <1>7 DEF Skip
  <2>2. PICK x : x = [lane[p] EXCEPT !.at = "unready", !.issue = i]
    OBVIOUS
  <2>3. x \in LaneType /\ x.at = "unready" /\ x.held = lane[p].held
    BY <1>1, <2>2 DEF LaneType, Stages, SomeIssue
  <2>4. lane' = [lane EXCEPT ![p] = x] /\ job' = job /\ files' = files /\ lane[p].at \in Outside
    BY <1>1, <1>7, <2>1, <2>2 DEF Skip, At, Outside, LaneType
  <2> QED BY <1>2, <2>3, <2>4, OutsideSteps DEF Outside
<1>8. CASE Unready(p)
  <2>1. PICK x : x = [lane[p] EXCEPT !.at = "pick", !.issue = NoJob.issue,
                                     !.skip = lane[p].skip \ {lane[p].issue}]
    OBVIOUS
  <2>2. x \in LaneType /\ x.at = "pick" /\ x.held = lane[p].held
    BY <1>1, <2>1 DEF LaneType, Stages, SomeIssue
  <2>3. lane' = [lane EXCEPT ![p] = x] /\ job' = job /\ files' = files /\ lane[p].at \in Outside
    BY <1>1, <1>8, <2>1 DEF Unready, At, Outside, LaneType
  <2> QED BY <1>2, <2>2, <2>3, OutsideSteps DEF Outside
<1>9. CASE EndCycle(p)
  <2>1. Idle \in LaneType /\ Idle.at = "idle" /\ Idle.held = {}
    BY DEF Idle, LaneType, Stages, SomeIssue
  <2>2. lane' = [lane EXCEPT ![p] = Idle] /\ job' = job /\ files' = files /\ lane[p].at \in Outside
    BY <1>9 DEF EndCycle, At, Outside
  <2> QED BY <2>1, <2>2, OutsideSteps DEF Outside
<1> QED BY <1>3, <1>4, <1>5, <1>6, <1>7, <1>8, <1>9

-----------------------------------------------------------------------------
(* Taking a file. *)

\* A lane that goes on taking the same file, without having it yet.
LEMMA StillTaking ==
  ASSUME Orderly, NEW p \in Lanes, lane[p].at \in Taking \ {"write"},
         NEW l \in Taking \ {"write"}, Goto(p, l), job' = job,
         files' \in [Paths -> FileType], OthersKept(p),
         \A k \in lane[p].held : files'[k] = files[k],
         l = "unlink" => lane[p].path \notin lane[p].held
  PROVE  Orderly'
<1>1. /\ lane' \in [Lanes -> LaneType]
      /\ \A q \in Lanes \ {p} : lane'[q] = lane[q]
      /\ lane'[p].at = l /\ lane'[p].held = lane[p].held
      /\ lane'[p].path = lane[p].path /\ lane'[p].issue = lane[p].issue
  <2>1. l \in Stages /\ l \in Taking /\ l # "pick"
    BY DEF Taking, Stages
  <2> QED BY <2>1, GotoMoves DEF Orderly
<1>2. ~At(p, "wait") /\ Placed(p) /\ Owns(p)
  BY DEF Orderly, Taking, At
<1>3. Placed(p)'
  BY <1>1, <1>2 DEF Placed, At, Outside, Taking, Started, TakesLease, TakesNamespace, TakesLock,
     Lease, Namespace, Locks, Lock
<1>4. Owns(p)'
  BY <1>1, <1>2 DEF Owns
<1>5. Scanned(p)' => Scanned(p)
  BY <1>1 DEF Scanned, Taking, Locks, Lock
<1>6. lane'[p].at \notin Started
  BY <1>1 DEF Taking, Started
<1>7. DispatchTypes'
  BY <1>1 DEF Orderly, DispatchTypes, JobType
<1> QED BY <1>1, <1>2, <1>3, <1>4, <1>5, <1>6, <1>7, QuietFrame

\* Looking whether the file is there, and how old it is.
LEMMA LookKeeps == ASSUME Orderly, NEW p \in Lanes, Look(p) \/ Stat(p) PROVE Orderly'
<1>1. PICK l \in Taking \ {"write"} : Goto(p, l) /\ (l = "unlink" => files[lane[p].path].old)
  <2>1. CASE Look(p)
    BY <2>1, "stat" \in Taking \ {"write"}, "create" \in Taking \ {"write"} DEF Look, Taking
  <2>2. CASE Stat(p)
    BY <2>2, "unlink" \in Taking \ {"write"}, "create" \in Taking \ {"write"} DEF Stat, Taking
  <2> QED BY <2>1, <2>2
<1>2. lane[p].at \in Taking \ {"write"} /\ job' = job /\ files' = files
  BY DEF Look, Stat, At, Taking
<1>3. l = "unlink" => lane[p].path \notin lane[p].held
  BY <1>1 DEF Orderly, Owns
<1>4. files' \in [Paths -> FileType]
  BY <1>2 DEF Orderly, DispatchTypes
<1> QED BY <1>1, <1>2, <1>3, <1>4, StillTaking, UntouchedKeeps

\* A stale file is unlinked before the create.
LEMMA UnlinkStaleKeeps == ASSUME Orderly, NEW p \in Lanes, UnlinkStale(p), ~stolen' PROVE Orderly'
<1>1. /\ At(p, "unlink") /\ Unlink({lane[p].path}, p) /\ Goto(p, "create") /\ job' = job
      /\ lane[p].path \notin lane[p].held
  BY DEF UnlinkStale, Orderly, Placed
<1>2. /\ files' \in [Paths -> FileType] /\ OthersKept(p)
      /\ \A k \in lane[p].held : files'[k] = files[k]
  BY <1>1, UnlinkKeeps DEF At
<1>3. lane[p].at \in Taking \ {"write"} /\ "create" \in Taking \ {"write"}
  BY <1>1 DEF At, Taking
<1> QED BY <1>1, <1>2, <1>3, StillTaking

\* A stat that raises gives the namespace lock back, and ends the cycle.
LEMMA RaiseKeeps ==
  ASSUME Orderly, NEW p \in Lanes, ~At(p, "wait"), Raise(p), job' = job, ~stolen'
  PROVE  Orderly'
<1>1. /\ lane' \in [Lanes -> LaneType]
      /\ \A q \in Lanes \ {p} : lane'[q] = lane[q]
      /\ lane'[p].at = "idle" /\ lane'[p].held = {}
  BY IdleMoves DEF Orderly, Raise
<1>2. files' \in [Paths -> FileType] /\ OthersKept(p)
  BY UnlinkKeeps DEF Raise
<1>3. Placed(p)' /\ Owns(p)' /\ ~Scanned(p)' /\ lane'[p].at \notin Started
  BY <1>1, FS_EmptySet DEF Placed, Owns, At, Outside, Taking, Started, Scanned
<1>4. DispatchTypes'
  BY <1>1, <1>2 DEF Orderly, DispatchTypes, JobType
<1> QED BY <1>1, <1>2, <1>3, <1>4, QuietFrame

\* A file that is not there is created, and is the lane's own from then on.
LEMMA CreateKeeps == ASSUME Orderly, NEW p \in Lanes, Create(p) PROVE Orderly'
<1> DEFINE k == lane[p].path  i == lane[p].issue
<1>1. /\ At(p, "create") /\ ~Exists(k) /\ job' = job
      /\ files' = [files EXCEPT ![k] = FileOf(p)]
      /\ lane' = [lane EXCEPT ![p].at = "write", ![p].held = @ \cup {k}]
  BY DEF Create
<1>2. /\ Placed(p) /\ Owns(p) /\ i \in Issues /\ lane[p].at \in Taking
      /\ TakesLease(p) \/ TakesNamespace(p) \/ TakesLock(p)
  BY <1>1 DEF Orderly, Placed, At, Outside, Taking
<1>3. k \in Paths
  BY <1>2, FilesOfIssue DEF TakesLease, TakesNamespace, TakesLock
<1>4. PICK x : x = [lane[p] EXCEPT !.at = "write", !.held = lane[p].held \cup {k}]
  OBVIOUS
<1>5. /\ x \in LaneType /\ x.at = "write" /\ x.held = lane[p].held \cup {k}
      /\ x.path = k /\ x.issue = i /\ lane' = [lane EXCEPT ![p] = x]
  BY <1>1, <1>3, <1>4 DEF Orderly, DispatchTypes, LaneType, Stages
<1>6. /\ lane' \in [Lanes -> LaneType] /\ lane'[p] = x
      /\ \A q \in Lanes \ {p} : lane'[q] = lane[q]
  BY <1>5, LaneMoves DEF Orderly
<1>7. FileOf(p) \in FileType /\ FileOf(p).owner = {p} /\ FileOf(p).issue = {i} /\ ~FileOf(p).old
  BY <1>2 DEF FileOf, FileType
<1>8. /\ files' \in [Paths -> FileType] /\ files'[k] = FileOf(p)
      /\ \A l \in Paths \ {k} : files'[l] = files[l]
  BY <1>1, <1>3, <1>7 DEF Orderly, DispatchTypes
<1>9. \A q \in Lanes : \A l \in lane[q].held : l \in Paths \ {k}
  <2>1. files[k].owner = {}
    BY <1>1 DEF Exists, NoFile
  <2>2. ASSUME NEW q \in Lanes, NEW l \in lane[q].held PROVE l \in Paths /\ files[l].owner = {q}
    BY DEF Orderly, Owns, DispatchTypes, LaneType
  <2> QED BY <2>1, <2>2
<1>10. OthersKept(p)
  <2>1. ASSUME NEW n \in Jobs, Running(n), NEW l \in StandsFor(job[n].issue) PROVE files'[l] = files[l]
    <3>1. job[n].issue \in Issues /\ files[l].issue = {job[n].issue}
      BY <2>1 DEF Orderly, Guarded
    <3>2. l \in Paths \ {k}
      BY <1>1, <3>1, FilesOfIssue, SMTT(20) DEF Exists, NoFile
    <3> QED BY <1>8, <3>2
  <2> QED BY <1>8, <1>9, <2>1 DEF OthersKept
<1>11. Owns(p)'
  BY <1>2, <1>5, <1>6, <1>7, <1>8, <1>9 DEF Owns
<1>12. Placed(p)'
  <2>1. IsFiniteSet(lane[p].held \cup {k})
    BY <1>2, FS_AddElement DEF Placed
  <2>2. TakesLease(p)' \/ TakesNamespace(p)' \/ TakesLock(p)'
    BY <1>1, <1>2, <1>5, <1>6 DEF TakesLease, TakesNamespace, TakesLock, At, Lease, Namespace, Locks, Lock
  <2> QED BY <1>2, <1>5, <1>6, <2>1, <2>2 DEF Placed, At, Outside, Taking, Started
<1>13. Scanned(p)' => Scanned(p)
  BY <1>2, <1>5, <1>6 DEF Scanned, Taking, Locks, Lock
<1>14. lane'[p].at \notin Started /\ ~At(p, "wait")
  BY <1>1, <1>5, <1>6 DEF Started, At
<1>15. DispatchTypes'
  BY <1>1, <1>6, <1>8 DEF Orderly, DispatchTypes, JobType
<1>16. lane'[p].issue = lane[p].issue /\ \A l \in lane'[p].held : l \in lane[p].held \/ ~Exists(l)
  BY <1>1, <1>5, <1>6
<1> QED BY <1>1, <1>6, <1>10, <1>11, <1>12, <1>13, <1>14, <1>15, <1>16, QuietFrame

\* Writing a file one holds changes nobody else's.
LEMMA WriteFiles ==
  ASSUME Orderly, NEW p \in Lanes, Write(p)
  PROVE  /\ files' \in [Paths -> FileType] /\ OthersKept(p)
         /\ \A k \in lane[p].held : /\ files'[k].owner = files[k].owner
                                    /\ files'[k].issue = files[k].issue
                                    /\ files'[k].old = files[k].old
<1> DEFINE k == lane[p].path
<1>1. At(p, "write") /\ k \in lane[p].held
  BY DEF Write, Orderly, Placed
<1>2. k \in Paths /\ files[k] \in FileType /\ files[k].owner = {p}
  BY <1>1 DEF Orderly, DispatchTypes, LaneType, Owns
<1>3. PICK x : x = [files[k] EXCEPT !.written = files[k].written \/ p \in files[k].owner]
  OBVIOUS
<1>4. /\ x \in FileType /\ x.owner = files[k].owner /\ x.issue = files[k].issue /\ x.old = files[k].old
  BY <1>2, <1>3 DEF FileType
<1>5. files' = [files EXCEPT ![k] = x]
  BY <1>2, <1>3 DEF Write, Orderly, DispatchTypes, FileType
<1>6. /\ files' \in [Paths -> FileType] /\ files'[k] = x
      /\ \A l \in Paths \ {k} : files'[l] = files[l]
  BY <1>2, <1>4, <1>5 DEF Orderly, DispatchTypes
<1>7. ASSUME NEW q \in Lanes \ {p}, NEW l \in lane[q].held PROVE files'[l] = files[l]
  <2>1. l \in Paths /\ files[l].owner = {q}
    BY DEF Orderly, Owns, DispatchTypes, LaneType
  <2> QED BY <1>2, <1>6, <2>1
<1>8. ASSUME NEW n \in Jobs, Running(n), NEW l \in StandsFor(job[n].issue) PROVE files'[l] = files[l]
  <2>1. job[n].issue \in Issues /\ (l \in lane[p].held => p \in job[n].lane)
    BY <1>8 DEF Orderly, Guarded
  <2>2. p \notin job[n].lane
    BY <1>1, NotAwaited DEF At
  <2>3. l \in Paths \ {k}
    BY <1>1, <2>1, <2>2, FilesOfIssue
  <2> QED BY <1>6, <2>3
<1>9. \A l \in lane[p].held : l \in Paths
  BY DEF Orderly, DispatchTypes, LaneType
<1> QED BY <1>4, <1>6, <1>7, <1>8, <1>9 DEF OthersKept

\* With the file written, the lane goes on: from the lease to the second look at
\* the pull requests, from the namespace lock to the scan, from lock to lock, and
\* with the last one out of the namespace.
LEMMA WriteKeeps == ASSUME Orderly, NEW p \in Lanes, Write(p) PROVE Orderly'
<1> DEFINE i == lane[p].issue  taken == {k \in lane[p].held : k[1] = "lock"}
<1>1. /\ files' \in [Paths -> FileType] /\ OthersKept(p)
      /\ \A k \in lane[p].held : /\ files'[k].owner = files[k].owner
                                 /\ files'[k].issue = files[k].issue
                                 /\ files'[k].old = files[k].old
  BY WriteFiles
<1>2. At(p, "write") /\ Have(p) /\ job' = job
  BY DEF Write
<1>3. /\ Placed(p) /\ Owns(p) /\ i \in Issues /\ lane[p].path \in lane[p].held
      /\ TakesLease(p) \/ TakesNamespace(p) \/ TakesLock(p)
      /\ IsFiniteSet(lane[p].held)
  BY <1>2 DEF Orderly, Placed, At, Outside, Taking
<1>4. ASSUME lane' \in [Lanes -> LaneType], \A q \in Lanes \ {p} : lane'[q] = lane[q],
             lane'[p].held = lane[p].held, lane'[p].issue = i, lane'[p].at \notin Started,
             Placed(p)', Scanned(p)' => Scanned(p)
      PROVE  Orderly'
  <2>1. Owns(p)'
    BY <1>1, <1>3, <1>4 DEF Owns
  <2>2. DispatchTypes'
    BY <1>1, <1>2, <1>4 DEF Orderly, DispatchTypes, JobType
  <2>3. ~At(p, "wait")
    BY <1>2 DEF At
  <2> QED BY <1>1, <1>2, <1>4, <2>1, <2>2, <2>3, QuietFrame
<1>5. Lease(i) # Namespace(i) /\ Lease(i) \notin Locks(i) /\ Namespace(i) \notin Locks(i)
  BY FilesDiffer
<1>6. CASE lane[p].path = Lease(i) /\ Goto(p, "recheck")
  <2>1. lane[p].held = {Lease(i)}
    BY <1>2, <1>3, <1>5, <1>6 DEF TakesLease, TakesNamespace, TakesLock
  <2>2. /\ lane' \in [Lanes -> LaneType] /\ \A q \in Lanes \ {p} : lane'[q] = lane[q]
        /\ lane'[p].at = "recheck" /\ lane'[p].held = lane[p].held /\ lane'[p].issue = i
    BY <1>6, GotoMoves, "recheck" \in Stages DEF Orderly, Stages
  <2>3. Placed(p)' /\ ~Scanned(p)' /\ lane'[p].at \notin Started
    BY <1>3, <2>1, <2>2 DEF Placed, Scanned, At, Outside, Taking, Started, Lease
  <2> QED BY <1>4, <2>2, <2>3
<1>7. CASE lane[p].path = Namespace(i) /\ Goto(p, "scan")
  <2>1. lane[p].held = {Lease(i), Namespace(i)}
    BY <1>2, <1>3, <1>5, <1>7 DEF TakesLease, TakesNamespace, TakesLock
  <2>2. /\ lane' \in [Lanes -> LaneType] /\ \A q \in Lanes \ {p} : lane'[q] = lane[q]
        /\ lane'[p].at = "scan" /\ lane'[p].held = lane[p].held /\ lane'[p].issue = i
    BY <1>7, GotoMoves, "scan" \in Stages DEF Orderly, Stages
  <2>3. Placed(p)' /\ ~Scanned(p)' /\ lane'[p].at \notin Started
    BY <1>3, <2>1, <2>2 DEF Placed, Scanned, At, Outside, Taking, Started, Lease, Namespace
  <2> QED BY <1>4, <2>2, <2>3
<1>8. CASE lane[p].path \notin {Lease(i), Namespace(i)}
  <2>1. /\ lane[p].path \in Locks(i) /\ {Lease(i), Namespace(i), Lock(i, 1)} \subseteq lane[p].held
        /\ Scanned(p)
    BY <1>2, <1>3, <1>8 DEF TakesLease, TakesNamespace, TakesLock, Scanned, Taking, At
  <2>2. CASE Cardinality(taken) < Len(LockNames(i))
    <3>1. IsFiniteSet(taken)
      BY <1>3, FS_Subset
    <3>2. Cardinality(taken) \in Nat
      BY <3>1, FS_CardinalityType
    <3>3. PICK c : c = Cardinality(taken) + 1
      OBVIOUS
    <3>4. c \in 1..Len(LockNames(i))
      BY <1>3, <2>2, <3>2, <3>3, LockNamesFit
    <3>5. Lock(i, c) \in Locks(i) /\ Lock(i, c) \in Paths
      BY <1>3, <3>4, FilesOfIssue DEF Locks
    <3>6. Try(p, Lock(i, c))
      BY <1>2, <1>8, <2>2, <3>3 DEF Have, Lock
    <3>7. /\ lane' \in [Lanes -> LaneType] /\ \A q \in Lanes \ {p} : lane'[q] = lane[q]
          /\ lane'[p].at = "look" /\ lane'[p].held = lane[p].held /\ lane'[p].issue = i
          /\ lane'[p].path = Lock(i, c)
      BY <3>5, <3>6, TryMoves DEF Orderly
    <3>8. TakesLock(p)'
      BY <2>1, <3>5, <3>7 DEF TakesLock, Lease, Namespace, Locks, Lock
    <3>9. Placed(p)' /\ lane'[p].at \notin Started
      BY <1>3, <3>7, <3>8 DEF Placed, At, Outside, Taking, Started
    <3> QED BY <1>4, <2>1, <3>7, <3>9
  <2>3. CASE ~(Cardinality(taken) < Len(LockNames(i)))
    <3>1. Goto(p, "leave")
      BY <1>2, <1>8, <2>3 DEF Have
    <3>2. /\ lane' \in [Lanes -> LaneType] /\ \A q \in Lanes \ {p} : lane'[q] = lane[q]
          /\ lane'[p].at = "leave" /\ lane'[p].held = lane[p].held /\ lane'[p].issue = i
      BY <3>1, GotoMoves, "leave" \in Stages DEF Orderly, Stages
    <3>3. Placed(p)' /\ lane'[p].at \notin Started
      BY <1>3, <2>1, <3>2 DEF Placed, At, Outside, Taking, Started, Lease, Namespace, Lock
    <3> QED BY <1>4, <2>1, <3>2, <3>3
  <2> QED BY <2>2, <2>3
<1>9. \/ lane[p].path = Lease(i) /\ Goto(p, "recheck")
      \/ lane[p].path = Namespace(i) /\ Goto(p, "scan")
      \/ lane[p].path \notin {Lease(i), Namespace(i)}
  BY <1>2 DEF Have
<1> QED BY <1>6, <1>7, <1>8, <1>9

\* A lane that gives up what it tried keeps what it holds until it drops it.
LEMMA GivingUp ==
  ASSUME Orderly, NEW p \in Lanes, lane[p].at \notin Outside, ~At(p, "wait"),
         lane' \in [Lanes -> LaneType], \A q \in Lanes \ {p} : lane'[q] = lane[q],
         lane'[p].at = "drop", lane'[p].held \subseteq lane[p].held, lane'[p].issue = lane[p].issue,
         job' = job, files' \in [Paths -> FileType], OthersKept(p),
         \A k \in lane'[p].held : files'[k] = files[k]
  PROVE  Orderly'
<1>1. IsFiniteSet(lane'[p].held)
  BY FS_Subset DEF Orderly, Placed
<1>2. Placed(p)' /\ ~Scanned(p)' /\ lane'[p].at \notin Started
  BY <1>1 DEF Orderly, Placed, At, Outside, Taking, Started, Scanned
<1>3. Owns(p)'
  BY DEF Orderly, Owns
<1>4. DispatchTypes'
  BY DEF Orderly, DispatchTypes, JobType
<1> QED BY <1>2, <1>3, <1>4, QuietFrame

\* The file is there already: the lease of another, the busy namespace, a lock.
LEMMA CreateFailsKeeps == ASSUME Orderly, NEW p \in Lanes, CreateFails(p) PROVE Orderly'
<1> DEFINE i == lane[p].issue
<1>1. At(p, "create") /\ job' = job /\ files' = files /\ Placed(p) /\ Owns(p)
  BY DEF CreateFails, Orderly
<1>2. /\ i \in Issues /\ lane[p].at \in Taking \ {"write"} /\ lane[p].at \notin Outside /\ ~At(p, "wait")
      /\ TakesLease(p) \/ TakesNamespace(p) \/ TakesLock(p)
  BY <1>1 DEF Placed, At, Outside, Taking
<1>3. files' \in [Paths -> FileType] /\ OthersKept(p)
  BY <1>1, UntouchedKeeps DEF Orderly, DispatchTypes
<1>4. CASE Goto(p, "drop")
  <2>1. /\ lane' \in [Lanes -> LaneType] /\ \A q \in Lanes \ {p} : lane'[q] = lane[q]
        /\ lane'[p].at = "drop" /\ lane'[p].held = lane[p].held /\ lane'[p].issue = i
    BY <1>4, GotoMoves, "drop" \in Stages DEF Orderly, Stages
  <2> QED BY <1>1, <1>2, <1>3, <2>1, GivingUp
<1>5. CASE Goto(p, "look")
  <2>1. "look" \in Taking \ {"write"} /\ "look" # "unlink"
    BY DEF Taking
  <2> QED BY <1>1, <1>2, <1>3, <1>5, <2>1, StillTaking
<1>6. CASE lane[p].path[1] = "lease" /\ Goto(p, "pick")
  <2>1. lane[p].held = {}
    BY <1>1, <1>2, <1>6, FilesDiffer DEF TakesLease, TakesNamespace, TakesLock, At
  <2>2. /\ lane' \in [Lanes -> LaneType] /\ \A q \in Lanes \ {p} : lane'[q] = lane[q]
        /\ lane'[p].at = "pick" /\ lane'[p].held = {}
    BY <1>6, <2>1, GotoMoves, "pick" \in Stages DEF Orderly, Stages
  <2>3. Placed(p)' /\ Owns(p)' /\ ~Scanned(p)' /\ lane'[p].at \notin Started
    BY <2>2, FS_EmptySet DEF Placed, Owns, At, Outside, Taking, Started, Scanned
  <2>4. DispatchTypes'
    BY <1>1, <2>2 DEF Orderly, DispatchTypes, JobType
  <2> QED BY <1>1, <1>2, <1>3, <2>2, <2>3, <2>4, QuietFrame
<1> QED BY <1>4, <1>5, <1>6 DEF CreateFails

-----------------------------------------------------------------------------
(* The namespace, and the scan of the locks. *)

\* With the lease held, the namespace lock is tried, or the issue is left.
LEMMA RecheckKeeps == ASSUME Orderly, NEW p \in Lanes, Recheck(p) PROVE Orderly'
<1> DEFINE i == lane[p].issue
<1>1. At(p, "recheck") /\ job' = job /\ files' = files /\ Placed(p) /\ Owns(p)
  BY DEF Recheck, Orderly
<1>2. /\ i \in Issues /\ lane[p].held = {Lease(i)} /\ lane[p].at \notin Outside /\ ~At(p, "wait")
      /\ IsFiniteSet(lane[p].held)
  BY <1>1 DEF Placed, At, Outside
<1>3. files' \in [Paths -> FileType] /\ OthersKept(p)
  BY <1>1, UntouchedKeeps DEF Orderly, DispatchTypes
<1>4. CASE Try(p, Namespace(i))
  <2>1. /\ lane' \in [Lanes -> LaneType] /\ \A q \in Lanes \ {p} : lane'[q] = lane[q]
        /\ lane'[p].at = "look" /\ lane'[p].held = lane[p].held
        /\ lane'[p].path = Namespace(i) /\ lane'[p].issue = i
    BY <1>2, <1>4, FilesOfIssue, TryMoves DEF Orderly
  <2>2. TakesNamespace(p)'
    BY <1>2, <2>1 DEF TakesNamespace, At, Lease, Namespace
  <2>3. Placed(p)' /\ lane'[p].at \notin Started
    BY <1>2, <2>1, <2>2 DEF Placed, At, Outside, Taking, Started
  <2>4. Namespace(i) \notin Locks(i)
    BY FilesDiffer
  <2>5. ~Scanned(p)'
    BY <2>1, <2>4 DEF Scanned, Taking, Locks, Lock
  <2>6. Owns(p)'
    BY <1>1, <2>1 DEF Owns
  <2>7. DispatchTypes'
    BY <1>1, <1>3, <2>1 DEF Orderly, DispatchTypes, JobType
  <2> QED BY <1>1, <1>2, <1>3, <2>1, <2>3, <2>5, <2>6, <2>7, QuietFrame
<1>5. CASE i \in Linked /\ lane' = [lane EXCEPT ![p].at = "drop", ![p].skip = @ \cup {i}]
  <2>1. PICK x : x = [lane[p] EXCEPT !.at = "drop", !.skip = lane[p].skip \cup {i}]
    OBVIOUS
  <2>2. /\ x \in LaneType /\ x.at = "drop" /\ x.held = lane[p].held /\ x.issue = i
        /\ lane' = [lane EXCEPT ![p] = x]
    BY <1>2, <1>5, <2>1 DEF Orderly, DispatchTypes, LaneType, Stages
  <2>3. /\ lane' \in [Lanes -> LaneType] /\ lane'[p] = x
        /\ \A q \in Lanes \ {p} : lane'[q] = lane[q]
    BY <2>2, LaneMoves DEF Orderly
  <2> QED BY <1>1, <1>2, <1>3, <2>2, <2>3, GivingUp
<1> QED BY <1>4, <1>5 DEF Recheck

\* A lock that was listed is read on, or has gone.
LEMMA ScanSeesKeeps == ASSUME Orderly, NEW p \in Lanes, ScanSees(p) PROVE Orderly'
<1> DEFINE i == lane[p].issue
<1>1. At(p, "scan") /\ job' = job /\ files' = files /\ Placed(p) /\ Owns(p)
  BY DEF ScanSees, Orderly
<1>2. /\ i \in Issues /\ lane[p].held = {Lease(i), Namespace(i)} /\ ~At(p, "wait")
      /\ IsFiniteSet(lane[p].held)
  BY <1>1 DEF Placed, At, Outside
<1>3. PICK k \in ScopeLocks(i) : lane' = [lane EXCEPT ![p].at = "scanstat", ![p].path = k]
  BY DEF ScanSees
<1>4. PICK x : x = [lane[p] EXCEPT !.at = "scanstat", !.path = k]
  OBVIOUS
<1>5. k \in Paths
  BY <1>2, <1>3, FilesOfIssue
<1>6. /\ x \in LaneType /\ x.at = "scanstat" /\ x.held = lane[p].held /\ x.issue = i
      /\ lane' = [lane EXCEPT ![p] = x]
  BY <1>3, <1>4, <1>5 DEF Orderly, DispatchTypes, LaneType, Stages
<1>7. /\ lane' \in [Lanes -> LaneType] /\ lane'[p] = x
      /\ \A q \in Lanes \ {p} : lane'[q] = lane[q]
  BY <1>6, LaneMoves DEF Orderly
<1>8. Placed(p)' /\ Owns(p)' /\ ~Scanned(p)' /\ lane'[p].at \notin Started
  BY <1>1, <1>2, <1>6, <1>7
     DEF Placed, Owns, Scanned, At, Outside, Taking, Started, Lease, Namespace
<1>9. DispatchTypes'
  BY <1>1, <1>7 DEF Orderly, DispatchTypes, JobType, FileType, Paths, Lease, Namespace, ScopeLocks
<1> QED BY <1>1, <1>2, <1>6, <1>7, <1>8, <1>9, QuietFrame, UntouchedKeeps

\* Under the namespace lock, no lock of a running worker or of a lane that is about
\* to run one is passed over: none conflicts with the issue that goes on.
LEMMA ScanClears ==
  ASSUME Orderly, NEW p \in Lanes, Scan(p), ~stolen',
         NEW i \in Issues, i = lane[p].issue,
         Try(p, Lock(i, 1)),
         \A k \in ScopeLocks(i) : Exists(k) /\ ~files[k].old /\ files[k].written
                                    => \A j \in files[k].issue : ~Conflicts(i, j)
  PROVE  /\ \A n \in Jobs : Running(n) => ~Clash(job[n].issue, i)
         /\ \A q \in Lanes : lane[q].at \in Started => ~Clash(lane[q].issue, i)
<1> DEFINE there == {k \in ScopeLocks(i) : Exists(k)}
           dead == {k \in there : files[k].old \/ ~files[k].written}
<1>1. Unlink(dead, p)
  BY DEF Scan
<1>2. /\ At(p, "scan") \/ At(p, "scanstat")
      /\ lane[p].held = {Lease(i), Namespace(i)}
  BY DEF Scan, Orderly, Placed, At
<1>3. \A k \in ScopeLocks(i) : k \notin lane[p].held
  BY <1>2, FilesDiffer
<1>4. ASSUME NEW k \in ScopeLocks(i), NEW j, files[k].issue = {j}, ~files[k].old, Needed(k)
      PROVE  ~Conflicts(j, i)
  <2>1. Exists(k)
    BY <1>4 DEF Exists, NoFile
  <2>2. k \notin dead
    BY <1>1, <1>3, <1>4 DEF Unlink, Holds
  <2>3. ~Conflicts(i, j)
    BY <1>4, <2>1, <2>2
  <2> QED BY <2>3, ConflictsBothWays
<1>5. ASSUME NEW j \in Issues, LockKey[j] = LockKey[i] PROVE Lock(j, 1) \in ScopeLocks(i)
  BY <1>5, FilesOfIssue
<1>6. ASSUME NEW n \in Jobs, Running(n), LockKey[job[n].issue] = LockKey[i]
      PROVE  ~Conflicts(job[n].issue, i)
  <2> DEFINE j == job[n].issue
  <2>1. j \in Issues /\ files[Lock(j, 1)].issue = {j} /\ ~files[Lock(j, 1)].old
    BY <1>6 DEF Orderly, Guarded, StandsFor
  <2>2. Lock(j, 1) \in ScopeLocks(i)
    BY <1>5, <1>6, <2>1
  <2>3. Needed(Lock(j, 1))
    BY <1>6, <2>1 DEF Needed, Lock
  <2> QED BY <1>4, <2>1, <2>2, <2>3
<1>7. ASSUME NEW q \in Lanes, lane[q].at \in Started, LockKey[lane[q].issue] = LockKey[i]
      PROVE  ~Conflicts(lane[q].issue, i)
  <2> DEFINE j == lane[q].issue
  <2>1. j \in Issues /\ Lock(j, 1) \in lane[q].held
    BY <1>7 DEF Orderly, Placed, Started, Outside, StandsFor
  <2>2. /\ files[Lock(j, 1)].issue = {j} /\ ~files[Lock(j, 1)].old
        /\ files[Lock(j, 1)].owner = {q}
    BY <2>1 DEF Orderly, Owns
  <2>3. Lock(j, 1) \in ScopeLocks(i)
    BY <1>5, <1>7, <2>1
  <2>4. Needed(Lock(j, 1))
    BY <2>1, <2>2 DEF Needed
  <2> QED BY <1>4, <2>2, <2>3, <2>4
<1> QED BY <1>6, <1>7 DEF Clash

\* The scan goes on to the first lock, or drops what is held.
LEMMA ScanKeeps == ASSUME Orderly, NEW p \in Lanes, Scan(p), ~stolen' PROVE Orderly'
<1> DEFINE i == lane[p].issue
           there == {k \in ScopeLocks(i) : Exists(k)}
           dead == {k \in there : files[k].old \/ ~files[k].written}
<1>1. /\ At(p, "scan") \/ At(p, "scanstat")
      /\ Unlink(dead, p) /\ job' = job
  BY DEF Scan
<1>2. /\ i \in Issues /\ lane[p].held = {Lease(i), Namespace(i)} /\ ~At(p, "wait")
      /\ lane[p].at \notin Outside /\ IsFiniteSet(lane[p].held)
  BY <1>1 DEF Orderly, Placed, At, Outside
<1>3. \A k \in lane[p].held : k \notin dead
  BY <1>2, FilesDiffer
<1>4. /\ files' \in [Paths -> FileType] /\ OthersKept(p)
      /\ \A k \in lane[p].held : files'[k] = files[k]
  <2>1. /\ files' \in [Paths -> FileType] /\ OthersKept(p)
        /\ \A k \in lane[p].held \ dead : files'[k] = files[k]
    BY <1>1, <1>2, UnlinkKeeps
  <2> QED BY <1>3, <2>1
<1>5. CASE Goto(p, "drop")
  <2>1. /\ lane' \in [Lanes -> LaneType] /\ \A q \in Lanes \ {p} : lane'[q] = lane[q]
        /\ lane'[p].at = "drop" /\ lane'[p].held = lane[p].held /\ lane'[p].issue = i
    BY <1>5, GotoMoves, "drop" \in Stages DEF Orderly, Stages
  <2> QED BY <1>1, <1>2, <1>4, <2>1, GivingUp
<1>6. CASE Try(p, Lock(i, 1)) /\ ~(\E k \in there \ dead : \E j \in files[k].issue : Conflicts(i, j))
  <2>1. /\ lane' \in [Lanes -> LaneType] /\ \A q \in Lanes \ {p} : lane'[q] = lane[q]
        /\ lane'[p].at = "look" /\ lane'[p].held = lane[p].held
        /\ lane'[p].path = Lock(i, 1) /\ lane'[p].issue = i
    <3>1. Lock(i, 1) \in Paths
      BY <1>2, FilesOfIssue
    <3> QED BY <1>6, <3>1, TryMoves DEF Orderly
  <2>2. TakesLock(p)'
    BY <1>2, <2>1, FilesOfIssue, ZenonT(40) DEF TakesLock, Lease, Namespace, Locks, Lock
  <2>3. Placed(p)' /\ lane'[p].at \notin Started
    BY <1>2, <2>1, <2>2 DEF Placed, At, Outside, Taking, Started
  <2>4. Owns(p)'
    BY <1>4, <2>1 DEF Orderly, Owns
  <2>5. DispatchTypes'
    BY <1>1, <1>4, <2>1 DEF Orderly, DispatchTypes, JobType
  <2>6. /\ \A n \in Jobs : Running(n) => ~Clash(job[n].issue, i)
        /\ \A q \in Lanes : lane[q].at \in Started => ~Clash(lane[q].issue, i)
    <3>1. \A k \in ScopeLocks(i) : Exists(k) /\ ~files[k].old /\ files[k].written
                                     => \A j \in files[k].issue : ~Conflicts(i, j)
      BY <1>6
    <3> QED BY <1>2, <1>6, <3>1, ScanClears
  <2>7. \A n \in Jobs : ClearOfWorker(p, n)'
    BY <1>1, <2>1, <2>6 DEF ClearOfWorker, Running, Clash, Conflicts
  <2>8. ASSUME NEW q \in Lanes PROVE ClearOfLane(p, q)' /\ ClearOfLane(q, p)'
    <3>1. ClearOfLane(q, p)'
      BY <2>3 DEF ClearOfLane
    <3>2. p # q => lane'[q] = lane[q]
      BY <2>1
    <3>3. ClearOfLane(p, q)'
      BY <2>1, <2>6, <3>2 DEF ClearOfLane
    <3> QED BY <3>1, <3>3
  <2> QED BY <1>1, <1>2, <1>4, <2>1, <2>3, <2>4, <2>5, <2>7, <2>8, LaneFrame
<1>7. \/ Goto(p, "drop")
      \/ Try(p, Lock(i, 1)) /\ ~(\E k \in there \ dead : \E j \in files[k].issue : Conflicts(i, j))
  BY DEF Scan, Lock
<1> QED BY <1>5, <1>6, <1>7

-----------------------------------------------------------------------------
(* Leaving the namespace, the worker, and giving back. *)

\* One lane at a time is in the namespace of a branch with its scan done: the one that
\* leaves it is clear of every other lane that has scanned.
LEMMA LeaverIsAlone ==
  ASSUME Orderly, NEW p \in Lanes, At(p, "leave"), NEW q \in Lanes \ {p}, Scanned(q)
  PROVE  ~Clash(lane[p].issue, lane[q].issue)
<1>1. Namespace(lane[p].issue) \in lane[p].held
  BY DEF Orderly, Placed
<1>2. CASE lane[q].at \in Started
  <2>1. ~Clash(lane[q].issue, lane[p].issue)
    <3>1. Scanned(p)
      BY DEF Scanned, At
    <3> QED BY <1>2, <3>1 DEF Orderly, ClearOfLane
  <2> QED BY <2>1, ConflictsBothWays DEF Clash
<1>3. CASE lane[q].at \notin Started
  <2>1. Namespace(lane[q].issue) \in lane[q].held
    <3>1. CASE At(q, "leave")
      BY <3>1 DEF Orderly, Placed
    <3>2. CASE lane[q].at \in Taking /\ lane[q].path \in Locks(lane[q].issue)
      <4>1. TakesLease(q) \/ TakesNamespace(q) \/ TakesLock(q)
        BY <3>2 DEF Orderly, Placed
      <4> QED BY <3>2, <4>1, FilesDiffer DEF TakesLease, TakesNamespace, TakesLock
    <3> QED BY <1>3, <3>1, <3>2 DEF Scanned, Started, At
  <2>2. Namespace(lane[q].issue) # Namespace(lane[p].issue)
    <3>1. /\ files[Namespace(lane[p].issue)].owner = {p}
          /\ files[Namespace(lane[q].issue)].owner = {q}
      BY <1>1, <2>1 DEF Orderly, Owns
    <3> QED BY <3>1
  <2> QED BY <2>2, FilesDiffer DEF Clash
<1> QED BY <1>2, <1>3

\* The namespace lock is given back, and the worker may be started.
LEMMA LeaveKeeps == ASSUME Orderly, NEW p \in Lanes, Leave(p), ~stolen' PROVE Orderly'
<1> DEFINE i == lane[p].issue
<1>1. /\ At(p, "leave") /\ Unlink({Namespace(i)}, p) /\ job' = job
      /\ lane' = [lane EXCEPT ![p].at = "start", ![p].held = @ \ {Namespace(i)}]
  BY DEF Leave
<1>2. /\ i \in Issues /\ StandsFor(i) \subseteq lane[p].held /\ ~At(p, "wait") /\ Scanned(p)
      /\ IsFiniteSet(lane[p].held) /\ Owns(p)
  BY <1>1 DEF Orderly, Placed, At, Outside, StandsFor, Scanned
<1>3. PICK x : x = [lane[p] EXCEPT !.at = "start", !.held = lane[p].held \ {Namespace(i)}]
  OBVIOUS
<1>4. /\ x \in LaneType /\ x.at = "start" /\ x.held = lane[p].held \ {Namespace(i)} /\ x.issue = i
      /\ lane' = [lane EXCEPT ![p] = x]
  BY <1>1, <1>3 DEF Orderly, DispatchTypes, LaneType, Stages
<1>5. /\ lane' \in [Lanes -> LaneType] /\ lane'[p] = x
      /\ \A q \in Lanes \ {p} : lane'[q] = lane[q]
  BY <1>4, LaneMoves DEF Orderly
<1>6. /\ files' \in [Paths -> FileType] /\ OthersKept(p)
      /\ \A k \in lane[p].held \ {Namespace(i)} : files'[k] = files[k]
  BY <1>1, <1>2, UnlinkKeeps
<1>7. Owns(p)'
  BY <1>2, <1>4, <1>5, <1>6 DEF Owns
<1>8. Placed(p)'
  <2>1. IsFiniteSet(x.held)
    BY <1>2, <1>4, FS_Subset
  <2>2. Namespace(i) \notin StandsFor(i)
    BY <1>2, FilesOfIssue, FilesDiffer DEF StandsFor
  <2> QED BY <1>2, <1>4, <1>5, <2>1, <2>2, ZenonT(40) DEF Placed, At, Outside, Taking, Started, StandsFor, Lease, Lock
<1>9. \A n \in Jobs : ClearOfWorker(p, n)'
  BY <1>1, <1>2, <1>4, <1>5 DEF Orderly, ClearOfWorker, Running
<1>10. ASSUME NEW q \in Lanes PROVE ClearOfLane(p, q)' /\ ClearOfLane(q, p)'
  <2>1. CASE q = p
    BY <2>1 DEF ClearOfLane
  <2>2. CASE q # p
    <3>1. lane'[q] = lane[q]
      BY <1>5, <2>2
    <3>2. ClearOfLane(p, q)'
      BY <1>2, <1>4, <1>5, <2>2, <3>1 DEF Orderly, ClearOfLane
    <3>3. Scanned(q) => ~Clash(i, lane[q].issue)
      BY <1>1, <2>2, LeaverIsAlone
    <3>4. ClearOfLane(q, p)'
      BY <1>4, <1>5, <3>1, <3>3 DEF ClearOfLane, Scanned, Locks, Lock, Clash, Conflicts
    <3> QED BY <3>2, <3>4
  <2> QED BY <2>1, <2>2
<1>11. DispatchTypes'
  BY <1>1, <1>5, <1>6 DEF Orderly, DispatchTypes, JobType
<1>12. \A k \in lane'[p].held : k \in lane[p].held
  BY <1>4, <1>5
<1> QED BY <1>1, <1>2, <1>5, <1>6, <1>7, <1>8, <1>9, <1>10, <1>11, <1>12, LaneFrame

\* A file one holds is given back.
LEMMA DropStepKeeps == ASSUME Orderly, NEW p \in Lanes, Drop(p), ~stolen' PROVE Orderly'
<1> DEFINE i == lane[p].issue
<1>1. PICK k, next : LET rest == lane[p].held \ {k} IN
        /\ next = IF rest # {} THEN "drop" ELSE IF i \in lane[p].skip THEN "unready" ELSE "pick"
        /\ Unlink({k}, p)
        /\ lane' = [lane EXCEPT ![p].held = rest, ![p].at = next,
                                ![p].issue = IF next = "pick" THEN NoJob.issue ELSE @]
  BY DEF Drop
<1>2. /\ At(p, "drop") /\ ~At(p, "wait") /\ job' = job /\ i \in Issues /\ Owns(p)
      /\ lane[p].at \notin Outside /\ IsFiniteSet(lane[p].held)
  BY DEF Drop, Orderly, Placed, At, Outside
<1>3. PICK x : x = [lane[p] EXCEPT !.held = lane[p].held \ {k}, !.at = next,
                                   !.issue = IF next = "pick" THEN NoJob.issue ELSE @]
  OBVIOUS
<1>4. /\ x \in LaneType /\ x.at = next /\ x.held = lane[p].held \ {k}
      /\ next # "pick" => x.issue = i
      /\ lane' = [lane EXCEPT ![p] = x]
  BY <1>1, <1>3, ZenonT(40) DEF Orderly, DispatchTypes, LaneType, Stages, SomeIssue
<1>5. /\ lane' \in [Lanes -> LaneType] /\ lane'[p] = x
      /\ \A q \in Lanes \ {p} : lane'[q] = lane[q]
  BY <1>4, LaneMoves DEF Orderly
<1>6. /\ files' \in [Paths -> FileType] /\ OthersKept(p)
      /\ \A l \in lane[p].held \ {k} : files'[l] = files[l]
  BY <1>1, <1>2, UnlinkKeeps
<1>7. CASE next = "drop"
  BY <1>2, <1>4, <1>5, <1>6, <1>7, GivingUp
<1>8. CASE next # "drop"
  <2>1. x.held = {} /\ x.at \in Outside
    BY <1>1, <1>4, <1>8 DEF Outside
  <2>2. Placed(p)' /\ Owns(p)' /\ ~Scanned(p)' /\ lane'[p].at \notin Started
    BY <1>5, <2>1, FS_EmptySet DEF Placed, Owns, At, Outside, Taking, Started, Scanned
  <2>3. DispatchTypes'
    BY <1>2, <1>5, <1>6 DEF Orderly, DispatchTypes, JobType
  <2> QED BY <1>2, <1>5, <1>6, <2>1, <2>2, <2>3, QuietFrame
<1> QED BY <1>7, <1>8

-----------------------------------------------------------------------------
(* Workers. *)

\* Workers that go on, end, or lose the lane that waited for them, while the lanes P
\* leave what they were at: nobody new runs, and nobody new is waited for.
LEMMA JobsFade ==
  ASSUME Orderly, DispatchTypes', files' = files, NEW P \in SUBSET Lanes,
         \A q \in Lanes \ P : lane'[q] = lane[q],
         \A p \in P : /\ Placed(p)' /\ Owns(p)' /\ ~Scanned(p)'
                      /\ lane'[p].held \subseteq lane[p].held
                      /\ \A n \in Jobs : p \notin job'[n].lane,
         \A n \in Jobs :
           /\ job'[n].lane \subseteq job[n].lane
           /\ job'[n].lane # {} => job'[n].issue = job[n].issue
           /\ Running(n)' => /\ Running(n) /\ job'[n].issue = job[n].issue
                             /\ \A q \in job[n].lane \ job'[n].lane : q \in P /\ lane'[q].held = {}
  PROVE  Orderly'
<1>1. ASSUME NEW q \in Lanes PROVE Placed(q)' /\ Owns(q)'
  <2>1. CASE q \in P
    BY <2>1
  <2>2. CASE q \notin P
    <3>1. lane'[q] = lane[q] /\ Placed(q) /\ Owns(q)
      BY <2>2 DEF Orderly
    <3>2. Placed(q)'
      BY <3>1 DEF Placed, At, TakesLease, TakesNamespace, TakesLock
    <3> QED BY <3>1, <3>2 DEF Owns
  <2> QED BY <2>1, <2>2
<1>2. ASSUME NEW n \in Jobs PROVE Awaited(n)'
  <2> SUFFICES ASSUME NEW q \in job'[n].lane
               PROVE /\ At(q, "wait")' /\ lane'[q].issue = job'[n].issue /\ job'[n].lane = {q}
                     /\ \A m \in Jobs : q \in job'[m].lane => m = n
      BY DEF Awaited
  <2>1. q \in job[n].lane /\ q \in Lanes \ P
    BY DEF Orderly, DispatchTypes, JobType
  <2>2. /\ At(q, "wait") /\ lane[q].issue = job[n].issue /\ job[n].lane = {q}
        /\ \A m \in Jobs : q \in job[m].lane => m = n
    BY <2>1 DEF Orderly, Awaited
  <2>3. At(q, "wait")' /\ lane'[q].issue = job[n].issue
    BY <2>1, <2>2 DEF At
  <2>4. job'[n].issue = job[n].issue /\ job'[n].lane = {q}
    BY <2>2
  <2> QED BY <2>2, <2>3, <2>4
<1>3. ASSUME NEW n \in Jobs PROVE Guarded(n)'
  <2> SUFFICES ASSUME Running(n)'
               PROVE  /\ job'[n].issue \in Issues
                      /\ \A k \in StandsFor(job[n].issue) :
                           /\ files'[k].issue = {job'[n].issue} /\ ~files'[k].old
                           /\ \A p \in Lanes : k \in lane'[p].held => p \in job'[n].lane
      BY DEF Guarded, StandsFor, Lease, Lock
  <2>1. Running(n) /\ Guarded(n) /\ job'[n].issue = job[n].issue
    BY DEF Orderly
  <2>2. job[n].issue \in Issues
    BY <2>1 DEF Guarded
  <2>3. ASSUME NEW k \in StandsFor(job[n].issue)
        PROVE  /\ files'[k].issue = {job'[n].issue} /\ ~files'[k].old
               /\ \A p \in Lanes : k \in lane'[p].held => p \in job'[n].lane
    <3>1. /\ files[k].issue = {job[n].issue} /\ ~files[k].old
          /\ \A p \in Lanes : k \in lane[p].held => p \in job[n].lane
      BY <2>1 DEF Guarded
    <3>2. ASSUME NEW p \in Lanes, k \in lane'[p].held PROVE p \in job'[n].lane
      <4>1. k \in lane[p].held
        BY <3>2
      <4> QED BY <3>1, <3>2, <4>1
    <3> QED BY <2>1, <3>1, <3>2
  <2> QED BY <2>1, <2>2, <2>3
<1>4. ASSUME NEW q \in Lanes, NEW n \in Jobs PROVE ClearOfWorker(q, n)'
  <2> SUFFICES ASSUME Scanned(q)', Running(n)', q \notin job'[n].lane
               PROVE  ~Clash(job'[n].issue, lane'[q].issue)
      BY DEF ClearOfWorker, Clash, Conflicts
  <2>1. q \notin P /\ lane'[q] = lane[q] /\ Scanned(q)
    BY DEF Scanned
  <2>2. Running(n) /\ job'[n].issue = job[n].issue /\ q \notin job[n].lane
    BY <2>1
  <2> QED BY <2>1, <2>2 DEF Orderly, ClearOfWorker
<1>5. ASSUME NEW q \in Lanes, NEW r \in Lanes PROVE ClearOfLane(q, r)'
  <2> SUFFICES ASSUME Scanned(q)', lane'[r].at \in Started, q # r
               PROVE  ~Clash(lane'[r].issue, lane'[q].issue)
      BY DEF ClearOfLane, Clash, Conflicts
  <2>1. Scanned(r)'
    BY DEF Scanned, Started
  <2>2. q \notin P /\ r \notin P
    BY <2>1
  <2>3. lane'[q] = lane[q] /\ lane'[r] = lane[r] /\ Scanned(q)
    BY <2>2 DEF Scanned
  <2> QED BY <2>3 DEF Orderly, ClearOfLane
<1>6. ASSUME NEW m \in Jobs, NEW n \in Jobs PROVE Apart(m, n)'
  <2> SUFFICES ASSUME Running(m)', Running(n)', m # n
               PROVE  job'[m].issue # job'[n].issue /\ ~Clash(job'[m].issue, job'[n].issue)
      BY DEF Apart, Clash, Conflicts
  <2>1. Running(m) /\ Running(n) /\ job'[m].issue = job[m].issue /\ job'[n].issue = job[n].issue
    OBVIOUS
  <2> QED BY <2>1 DEF Orderly, Apart
<1> QED BY <1>1, <1>2, <1>3, <1>4, <1>5, <1>6 DEF Orderly

\* A worker that goes on, ends, or dies.
LEMMA JobStepKeeps ==
  ASSUME Orderly, NEW n \in Jobs, JobStep(n) \/ JobDies(n)
  PROVE  Orderly'
<1>2. lane' = lane /\ files' = files
  BY DEF JobStep, JobDies, CheckReady, AddRunning, ClearReady, ClearRunning, MarkEnded, Relabel
<1>3. job[n] \in JobType /\ DOMAIN job = Jobs
  BY DEF Orderly, DispatchTypes
<1>4. Running(n)
  BY DEF JobStep, JobDies, CheckReady, AddRunning, ClearReady, ClearRunning, MarkEnded, Relabel,
     Running
<1>5. PICK k : /\ Becomes(n, k)
               /\ \/ k = NoJob /\ job[n].lane = {}
                  \/ \E l \in {"label", "working", "clear", "mark", "over"} :
                       k = [job[n] EXCEPT !.at = l]
  <2>1. CASE CheckReady(n)
    BY <2>1 DEF CheckReady, Reaches, Over
  <2>2. CASE AddRunning(n)
    BY <2>2 DEF AddRunning, Relabel, Reaches
  <2>3. CASE ClearReady(n)
    BY <2>3 DEF ClearReady, Relabel, Reaches
  <2>4. CASE ClearRunning(n)
    BY <2>4 DEF ClearRunning, Relabel, Reaches
  <2>5. CASE MarkEnded(n) \/ JobDies(n)
    BY <2>5 DEF MarkEnded, JobDies, Over
  <2> QED BY <2>1, <2>2, <2>3, <2>4, <2>5 DEF JobStep
<1>6. /\ k \in JobType
      /\ \/ k.lane = {} /\ k.at = "none" /\ job[n].lane = {}
         \/ k.lane = job[n].lane /\ k.issue = job[n].issue
  <2>1. CASE k = NoJob /\ job[n].lane = {}
    BY <2>1 DEF NoJob, JobType, SomeIssue
  <2>2. ASSUME NEW l \in {"label", "working", "clear", "mark", "over"}, k = [job[n] EXCEPT !.at = l]
        PROVE  k \in JobType /\ k.lane = job[n].lane /\ k.issue = job[n].issue
    BY <1>3, <2>2 DEF JobType
  <2> QED BY <1>5, <2>1, <2>2
<1>7. /\ job' \in [Jobs -> JobType] /\ job'[n] = k
      /\ \A m \in Jobs \ {n} : job'[m] = job[m]
  BY <1>5, <1>6 DEF Orderly, DispatchTypes, Becomes
<1>8. DispatchTypes'
  BY <1>2, <1>7 DEF Orderly, DispatchTypes
<1>9. ASSUME NEW m \in Jobs
      PROVE  /\ job'[m].lane \subseteq job[m].lane
             /\ job'[m].lane # {} => job'[m].issue = job[m].issue
             /\ Running(m)' => /\ Running(m) /\ job'[m].issue = job[m].issue
                               /\ job'[m].lane = job[m].lane
  <2>1. CASE m = n
    BY <1>4, <1>6, <1>7, <2>1 DEF Running
  <2>2. CASE m # n
    BY <1>7, <2>2 DEF Running
  <2> QED BY <2>1, <2>2
<1>10. PICK P \in SUBSET Lanes : P = {}
  OBVIOUS
<1> QED BY <1>2, <1>8, <1>9, <1>10, JobsFade

\* A lane that dies leaves its files behind; its worker dies with it, or lives on.
LEMMA CrashKeeps == ASSUME Orderly, NEW p \in Lanes, Crash(p) PROVE Orderly'
<1>1. PICK spared \in BOOLEAN :
        job' = [n \in Jobs |-> IF p \notin job[n].lane THEN job[n]
                               ELSE IF spared /\ Running(n) THEN [job[n] EXCEPT !.lane = {}]
                               ELSE NoJob]
  BY DEF Crash
<1>2. /\ lane' \in [Lanes -> LaneType]
      /\ \A q \in Lanes \ {p} : lane'[q] = lane[q]
      /\ lane'[p].at = "idle" /\ lane'[p].held = {}
  BY IdleMoves DEF Orderly, Crash
<1>3. files' = files
  BY DEF Crash
<1>4. ASSUME NEW n \in Jobs
      PROVE  /\ job'[n] \in JobType /\ p \notin job'[n].lane
             /\ job'[n].lane \subseteq job[n].lane
             /\ job'[n].lane # {} => job'[n].issue = job[n].issue
             /\ Running(n)' => /\ Running(n) /\ job'[n].issue = job[n].issue
                               /\ \A q \in job[n].lane \ job'[n].lane : q = p
  <2>1. job[n] \in JobType
    BY DEF Orderly, DispatchTypes
  <2>2. CASE p \notin job[n].lane
    BY <1>1, <2>1, <2>2 DEF Running
  <2>3. CASE p \in job[n].lane /\ spared /\ Running(n)
    <3>1. job[n].lane = {p}
      BY <2>3 DEF Orderly, Awaited
    <3>2. job'[n] = [job[n] EXCEPT !.lane = {}]
      BY <1>1, <2>3
    <3>3. job'[n] \in JobType /\ job'[n].lane = {} /\ job'[n].issue = job[n].issue
      BY <2>1, <3>2 DEF JobType
    <3> QED BY <2>3, <3>1, <3>3
  <2>4. CASE p \in job[n].lane /\ ~(spared /\ Running(n))
    <3>1. job'[n] = NoJob
      BY <1>1, <2>4
    <3> QED BY <3>1 DEF NoJob, JobType, SomeIssue, Running
  <2> QED BY <2>2, <2>3, <2>4
<1>5. DispatchTypes'
  <2>1. job' \in [Jobs -> JobType]
    BY <1>1, <1>4
  <2> QED BY <1>2, <1>3, <2>1 DEF Orderly, DispatchTypes
<1>6. Placed(p)' /\ Owns(p)' /\ ~Scanned(p)'
  BY <1>2, FS_EmptySet DEF Placed, Owns, At, Outside, Taking, Started, Scanned
<1>7. PICK P \in SUBSET Lanes : P = {p}
  OBVIOUS
<1> QED BY <1>2, <1>3, <1>4, <1>5, <1>6, <1>7, JobsFade

\* A worker is started for an issue that no other worker has, and whose scopes no
\* other worker of the branch may touch.
LEMMA StartKeeps == ASSUME Orderly, NEW p \in Lanes, Start(p) PROVE Orderly'
<1> DEFINE i == lane[p].issue
<1>1. PICK n \in Jobs : job' = [job EXCEPT ![n] = [at |-> "check", issue |-> i, lane |-> {p}]]
  BY DEF Start, Launch, Free
<1>2. /\ At(p, "start") /\ files' = files /\ i \in Issues /\ StandsFor(i) \subseteq lane[p].held
      /\ Placed(p) /\ Owns(p) /\ Scanned(p) /\ lane[p].at \in Started /\ ~At(p, "wait")
      /\ \A m \in Jobs : p \notin job[m].lane
  <2>1. At(p, "start") /\ files' = files /\ ~At(p, "wait") /\ Placed(p) /\ Owns(p)
    BY DEF Start, At, Orderly
  <2> QED BY <2>1, NotAwaited DEF Placed, At, Outside, Started, Scanned
<1>3. /\ lane' \in [Lanes -> LaneType] /\ \A q \in Lanes \ {p} : lane'[q] = lane[q]
      /\ lane'[p].at = "wait" /\ lane'[p].held = lane[p].held /\ lane'[p].issue = i
  BY GotoMoves, "wait" \in Stages DEF Orderly, Stages, Start
<1>4. PICK j : j = [at |-> "check", issue |-> i, lane |-> {p}]
  OBVIOUS
<1>5. j \in JobType /\ j.issue = i /\ j.lane = {p}
  BY <1>2, <1>4 DEF JobType, SomeIssue
<1>6. /\ job' \in [Jobs -> JobType] /\ job'[n] = j
      /\ \A m \in Jobs \ {n} : job'[m] = job[m]
  BY <1>1, <1>4, <1>5 DEF Orderly, DispatchTypes
<1>7. DispatchTypes'
  BY <1>2, <1>3, <1>6 DEF Orderly, DispatchTypes
<1>8. ASSUME NEW q \in Lanes PROVE Placed(q)' /\ Owns(q)'
  <2>1. CASE q = p
    BY <1>2, <1>3, <2>1 DEF Placed, Owns, At, Outside, Taking, Started, StandsFor, Lease, Lock
  <2>2. CASE q # p
    <3>1. lane'[q] = lane[q] /\ Placed(q) /\ Owns(q)
      BY <1>3, <2>2 DEF Orderly
    <3>2. Placed(q)'
      BY <3>1 DEF Placed, At, TakesLease, TakesNamespace, TakesLock
    <3> QED BY <1>2, <3>1, <3>2 DEF Owns
  <2> QED BY <2>1, <2>2
<1>9. \A q \in Lanes : /\ lane'[q].held = lane[q].held /\ lane'[q].issue = lane[q].issue
                       /\ Scanned(q)' => Scanned(q)
                       /\ lane'[q].at \in Started => lane[q].at \in Started
  <2>1. \A q \in Lanes \ {p} : Scanned(q)' => Scanned(q)
    BY <1>3 DEF Scanned
  <2> QED BY <1>2, <1>3, <2>1
<1>10. ASSUME NEW m \in Jobs PROVE Guarded(m)' /\ Awaited(m)'
  <2>1. CASE m = n
    <3>1. ASSUME NEW k \in StandsFor(i)
          PROVE  /\ files[k].issue = {i} /\ ~files[k].old
                 /\ \A q \in Lanes : k \in lane[q].held => q = p
      BY <1>2 DEF Orderly, Owns
    <3>2. Guarded(m)'
      BY <1>2, <1>5, <1>6, <1>9, <2>1, <3>1 DEF Guarded, StandsFor, Lease, Lock
    <3>3. Awaited(m)'
      BY <1>2, <1>3, <1>5, <1>6, <2>1 DEF Awaited, At
    <3> QED BY <3>2, <3>3
  <2>2. CASE m # n
    <3>1. job'[m] = job[m] /\ Guarded(m) /\ Awaited(m)
      BY <1>6, <2>2 DEF Orderly
    <3>2. Guarded(m)'
      BY <1>2, <1>9, <3>1 DEF Guarded, Running, StandsFor, Lease, Lock
    <3>3. ASSUME NEW q \in job[m].lane
          PROVE /\ At(q, "wait")' /\ lane'[q].issue = job[m].issue /\ job[m].lane = {q}
                /\ \A l \in Jobs : q \in job'[l].lane => l = m
      <4>1. q \in Lanes \ {p}
        BY <1>2 DEF Orderly, DispatchTypes, JobType
      <4>2. lane'[q] = lane[q]
        BY <1>3, <4>1
      <4>3. q \notin job'[n].lane
        BY <1>5, <1>6, <4>1
      <4>4. At(q, "wait")' /\ lane'[q].issue = job[m].issue /\ job[m].lane = {q}
        BY <3>1, <4>2 DEF Awaited, At
      <4>5. \A l \in Jobs : q \in job'[l].lane => l = m
        BY <1>6, <3>1, <4>3 DEF Awaited
      <4> QED BY <4>4, <4>5
    <3>4. Awaited(m)'
      BY <3>1, <3>3 DEF Awaited
    <3> QED BY <3>2, <3>4
  <2> QED BY <2>1, <2>2
<1>11. ASSUME NEW q \in Lanes, NEW m \in Jobs PROVE ClearOfWorker(q, m)'
  <2> SUFFICES ASSUME Scanned(q)', Running(m)', q \notin job'[m].lane
               PROVE  ~Clash(job'[m].issue, lane[q].issue)
      BY <1>9 DEF ClearOfWorker, Clash, Conflicts
  <2>1. CASE m = n
    BY <1>2, <1>5, <1>6, <1>9, <2>1 DEF Orderly, ClearOfLane
  <2>2. CASE m # n
    BY <1>6, <1>9, <2>2 DEF Orderly, ClearOfWorker, Running
  <2> QED BY <2>1, <2>2
<1>12. ASSUME NEW q \in Lanes, NEW r \in Lanes PROVE ClearOfLane(q, r)'
  BY <1>9 DEF Orderly, ClearOfLane, Clash, Conflicts
<1>13. ASSUME NEW m \in Jobs \ {n}, Running(m) PROVE job[m].issue # i /\ ~Clash(job[m].issue, i)
  <2>1. ~Clash(job[m].issue, i)
    BY <1>2, <1>13 DEF Orderly, ClearOfWorker
  <2>2. Lease(i) \in lane[p].held
    BY <1>2 DEF StandsFor
  <2>3. job[m].issue # i
    BY <1>2, <1>13, <2>2 DEF Orderly, Guarded, StandsFor
  <2> QED BY <2>1, <2>3
<1>14. ASSUME NEW l \in Jobs, NEW m \in Jobs PROVE Apart(l, m)'
  <2> SUFFICES ASSUME Running(l)', Running(m)', l # m
               PROVE  job'[l].issue # job'[m].issue /\ ~Clash(job'[l].issue, job'[m].issue)
      BY DEF Apart, Clash, Conflicts
  <2>1. \A x \in Jobs \ {n} : job'[x] = job[x] /\ (Running(x)' => Running(x))
    BY <1>6 DEF Running
  <2>2. CASE l # n /\ m # n
    BY <2>1, <2>2 DEF Orderly, Apart
  <2>3. CASE l = n
    BY <1>5, <1>6, <1>13, <2>1, <2>3, ConflictsBothWays DEF Clash
  <2>4. CASE m = n
    BY <1>5, <1>6, <1>13, <2>1, <2>4
  <2> QED BY <2>2, <2>3, <2>4
<1> QED BY <1>7, <1>8, <1>10, <1>11, <1>12, <1>14 DEF Orderly

\* The lane that waited for a worker gives its files back when the worker is over.
LEMMA WaitedKeeps == ASSUME Orderly, NEW p \in Lanes, Waited(p) PROVE Orderly'
<1>1. PICK n \in Jobs : job[n].at = "over" /\ p \in job[n].lane /\ job' = [job EXCEPT ![n] = NoJob]
  BY DEF Waited
<1>2. At(p, "wait") /\ files' = files /\ Placed(p) /\ Owns(p)
  BY DEF Waited, Orderly
<1>3. PICK x : x = [lane[p] EXCEPT !.at = "drop", !.list = {}]
  OBVIOUS
<1>4. /\ x \in LaneType /\ x.at = "drop" /\ x.held = lane[p].held /\ x.issue = lane[p].issue
      /\ lane' = [lane EXCEPT ![p] = x]
  <2>1. lane' = [lane EXCEPT ![p].at = "drop", ![p].list = {}]
    BY DEF Waited
  <2>2. lane[p] \in LaneType /\ DOMAIN lane = Lanes
    BY DEF Orderly, DispatchTypes
  <2> QED BY <1>3, <2>1, <2>2 DEF LaneType, Stages
<1>5. /\ lane' \in [Lanes -> LaneType] /\ lane'[p] = x
      /\ \A q \in Lanes \ {p} : lane'[q] = lane[q]
  BY <1>4, LaneMoves DEF Orderly
<1>6. NoJob \in JobType /\ NoJob.lane = {} /\ NoJob.at = "none"
  BY DEF NoJob, JobType, SomeIssue
<1>7. /\ job' \in [Jobs -> JobType] /\ job'[n] = NoJob
      /\ \A m \in Jobs \ {n} : job'[m] = job[m]
  BY <1>1, <1>6 DEF Orderly, DispatchTypes
<1>8. Placed(p)' /\ Owns(p)' /\ ~Scanned(p)'
  BY <1>2, <1>4, <1>5 DEF Placed, Owns, At, Outside, Taking, Started, Scanned
<1>9. \A m \in Jobs : p \in job[m].lane => m = n
  BY <1>1 DEF Orderly, Awaited
<1>10. ASSUME NEW m \in Jobs
       PROVE  /\ p \notin job'[m].lane /\ job'[m].lane \subseteq job[m].lane
              /\ job'[m].lane # {} => job'[m].issue = job[m].issue
              /\ Running(m)' => /\ Running(m) /\ job'[m].issue = job[m].issue
                                /\ job'[m].lane = job[m].lane
  <2>1. CASE m = n
    BY <1>6, <1>7, <2>1 DEF Running
  <2>2. CASE m # n
    BY <1>7, <1>9, <2>2 DEF Running
  <2> QED BY <2>1, <2>2
<1>11. DispatchTypes'
  BY <1>2, <1>5, <1>7 DEF Orderly, DispatchTypes
<1>12. PICK P \in SUBSET Lanes : P = {p}
  OBVIOUS
<1> QED BY <1>2, <1>4, <1>5, <1>8, <1>10, <1>11, <1>12, JobsFade

\* Only a file that no lane and no worker needs becomes stale.
LEMMA AgeKeeps == ASSUME Orderly, NEW k \in Paths, Age(k) PROVE Orderly'
<1>1. PICK x : x = [files[k] EXCEPT !.old = TRUE]
  OBVIOUS
<1>2. x \in FileType /\ files' = [files EXCEPT ![k] = x] /\ lane' = lane /\ job' = job
  BY <1>1 DEF Age, Orderly, DispatchTypes, FileType
<1>3. DispatchTypes'
  BY <1>2 DEF Orderly, DispatchTypes
<1>4. \A l \in Paths \ {k} : files'[l] = files[l]
  BY <1>2 DEF Orderly, DispatchTypes
<1>5. ASSUME NEW p \in Lanes, NEW l \in lane[p].held PROVE files'[l] = files[l]
  <2>1. l \in Paths /\ files[l].owner = {p}
    BY DEF Orderly, Owns, DispatchTypes, LaneType
  <2>2. Needed(l)
    BY <2>1 DEF Needed
  <2>3. l # k
    BY <2>2 DEF Age
  <2> QED BY <1>4, <2>1, <2>3
<1>6. ASSUME NEW n \in Jobs, Running(n), NEW l \in StandsFor(job[n].issue) PROVE files'[l] = files[l]
  <2>1. job[n].issue \in Issues /\ files[l].issue = {job[n].issue}
    BY <1>6 DEF Orderly, Guarded
  <2>2. l \in Paths /\ l[1] # "namespace"
    BY <2>1, FilesOfIssue, FilesDiffer DEF StandsFor
  <2>3. Needed(l)
    BY <1>6, <2>1, <2>2 DEF Needed
  <2>4. l # k
    BY <2>3 DEF Age
  <2> QED BY <1>4, <2>2, <2>4
<1>7. \A p \in Lanes : Placed(p)' /\ Owns(p)'
  <2> SUFFICES ASSUME NEW p \in Lanes PROVE Placed(p)' /\ Owns(p)'
      OBVIOUS
  <2>1. Placed(p) /\ Owns(p)
    BY DEF Orderly
  <2>2. Placed(p)'
    BY <1>2, <2>1 DEF Placed, At, TakesLease, TakesNamespace, TakesLock
  <2>3. Owns(p)'
    BY <1>2, <1>5, <2>1 DEF Owns
  <2> QED BY <2>2, <2>3
<1>8. ASSUME NEW n \in Jobs PROVE Guarded(n)' /\ Awaited(n)'
  <2>1. Guarded(n) /\ Awaited(n)
    BY DEF Orderly
  <2>2. Guarded(n)'
    BY <1>2, <1>6, <2>1 DEF Guarded, Running, StandsFor, Lease, Lock
  <2>3. Awaited(n)'
    BY <1>2, <2>1 DEF Awaited, At
  <2> QED BY <2>2, <2>3
<1>9. \A p \in Lanes, n \in Jobs : ClearOfWorker(p, n)'
  BY <1>2 DEF Orderly, ClearOfWorker, Scanned, Running
<1>10. \A p, q \in Lanes : ClearOfLane(p, q)'
  BY <1>2 DEF Orderly, ClearOfLane, Scanned
<1>11. \A m, n \in Jobs : Apart(m, n)'
  BY <1>2 DEF Orderly, Apart, Running
<1> QED BY <1>3, <1>7, <1>8, <1>9, <1>10, <1>11 DEF Orderly

-----------------------------------------------------------------------------
(* Every step. *)

\* Every step of a lane keeps the order, unless a needed file is unlinked.
LEMMA LaneStepKeeps ==
  ASSUME Orderly, NEW p \in Lanes, LaneStep(p), ~stolen'
  PROVE  Orderly'
<1>1. CASE ListReady(p) \/ Pick(p) \/ Skip(p) \/ Unready(p) \/ EndCycle(p)
  BY <1>1, ListingKeeps
<1>2. CASE Look(p) \/ Stat(p)
  BY <1>2, LookKeeps
<1>3. CASE StatRaises(p)
  BY <1>3, RaiseKeeps DEF StatRaises, At
<1>4. CASE UnlinkStale(p)
  BY <1>4, UnlinkStaleKeeps
<1>5. CASE Create(p)
  BY <1>5, CreateKeeps
<1>6. CASE Write(p)
  BY <1>6, WriteKeeps
<1>7. CASE CreateFails(p)
  BY <1>7, CreateFailsKeeps
<1>8. CASE Recheck(p)
  BY <1>8, RecheckKeeps
<1>9. CASE Scan(p)
  BY <1>9, ScanKeeps
<1>10. CASE ScanSees(p)
  BY <1>10, ScanSeesKeeps
<1>11. CASE ScanRaises(p)
  BY <1>11, RaiseKeeps DEF ScanRaises, At
<1>12. CASE Leave(p)
  BY <1>12, LeaveKeeps
<1>13. CASE Start(p)
  BY <1>13, StartKeeps
<1>14. CASE Waited(p)
  BY <1>14, WaitedKeeps
<1>15. CASE Drop(p)
  BY <1>15, DropStepKeeps
<1> QED BY <1>1, <1>2, <1>3, <1>4, <1>5, <1>6, <1>7, <1>8, <1>9, <1>10, <1>11, <1>12, <1>13,
           <1>14, <1>15 DEF LaneStep

\* Once a needed file was unlinked, it stays so.
LEMMA StolenForEver == ASSUME RefilledNext, stolen PROVE stolen'
<1>1. ASSUME NEW p \in Lanes, LaneStep(p) \/ Crash(p) \/ ListCandidates(p) \/ Queue(p) PROVE stolen'
  BY <1>1 DEF LaneStep, Crash, ListCandidates, Queue, ListReady, Pick, Skip, Unready, EndCycle,
     Look, Stat, StatRaises, UnlinkStale, Create, Write, CreateFails, Recheck, Scan, ScanSees,
     ScanRaises, Leave, Start, Waited, Drop, Raise, Unlink
<1>2. ASSUME NEW n \in Jobs, JobStep(n) \/ JobDies(n) PROVE stolen'
  BY <1>2 DEF JobStep, JobDies, CheckReady, AddRunning, ClearReady, ClearRunning, MarkEnded, Relabel
<1>3. ASSUME NEW k, Age(k) PROVE stolen'
  BY <1>3 DEF Age
<1>4. ASSUME NEW i, Requeue(i) PROVE stolen'
  BY <1>4 DEF Requeue
<1> QED BY <1>1, <1>2, <1>3, <1>4 DEF RefilledNext, Next, Refill

\* A step that touches no lane, file or worker.
LEMMA LabelsOnly ==
  ASSUME Orderly, lane' = lane, files' = files, job' = job
  PROVE  Orderly'
<1>1. DispatchTypes'
  BY DEF Orderly, DispatchTypes
<1>2. \A n \in Jobs : Running(n)' => Running(n)
  BY DEF Running
<1>3. PICK P \in SUBSET Lanes : P = {}
  OBVIOUS
<1> QED BY <1>1, <1>2, <1>3, JobsFade

\* At first nothing is held, and nobody runs.
LEMMA DispatchInit == Init => DispatchInv
<1> SUFFICES ASSUME Init PROVE Orderly
    BY DEF DispatchInv
<1>1. /\ files = [k \in Paths |-> NoFile] /\ lane = [p \in Lanes |-> Idle]
      /\ job = [n \in Jobs |-> NoJob]
  BY DEF Init
<1>2. NoFile \in FileType /\ Idle \in LaneType /\ NoJob \in JobType
  BY DEF NoFile, FileType, Idle, LaneType, Stages, SomeIssue, NoJob, JobType
<1>3. DispatchTypes
  BY <1>1, <1>2 DEF DispatchTypes
<1>4. \A p \in Lanes : lane[p].at = "idle" /\ lane[p].held = {}
  BY <1>1 DEF Idle
<1>5. \A n \in Jobs : ~Running(n) /\ job[n].lane = {}
  BY <1>1 DEF Running, NoJob
<1>6. \A p \in Lanes : Placed(p) /\ Owns(p)
  BY <1>4, FS_EmptySet DEF Placed, Owns, At, Outside, Taking, Started
<1>7. \A p \in Lanes : ~Scanned(p)
  BY <1>4 DEF Scanned, Taking
<1>8. \A n \in Jobs : Guarded(n) /\ Awaited(n)
  BY <1>5 DEF Guarded, Awaited
<1> QED BY <1>3, <1>5, <1>6, <1>7, <1>8 DEF Orderly, ClearOfWorker, ClearOfLane, Apart

\* The invariant is inductive, queue refilling and requeueing included.
LEMMA DispatchStep == DispatchInv /\ [RefilledNext]_vars => DispatchInv'
<1> SUFFICES ASSUME DispatchInv, [RefilledNext]_vars, ~stolen' PROVE Orderly'
    BY DEF DispatchInv
<1>1. CASE UNCHANGED vars
  <2>1. Orderly
    BY <1>1 DEF DispatchInv, vars
  <2> QED BY <1>1, <2>1, LabelsOnly DEF vars
<1>2. CASE RefilledNext
  <2>1. Orderly
    BY <1>2, StolenForEver DEF DispatchInv
  <2>2. ASSUME NEW p \in Lanes, LaneStep(p) PROVE Orderly'
    BY <2>1, <2>2, LaneStepKeeps
  <2>3. ASSUME NEW p \in Lanes, Crash(p) PROVE Orderly'
    BY <2>1, <2>3, CrashKeeps
  <2>4. ASSUME NEW n \in Jobs, JobStep(n) \/ JobDies(n) PROVE Orderly'
    BY <2>1, <2>4, JobStepKeeps
  <2>5. ASSUME NEW k \in Paths, Age(k) PROVE Orderly'
    BY <2>1, <2>5, AgeKeeps
  <2>6. ASSUME NEW p \in Lanes, ListCandidates(p) \/ Queue(p) PROVE Orderly'
    BY <2>1, <2>6, ListingKeeps
  <2>7. ASSUME NEW i \in Issues, Requeue(i) PROVE Orderly'
    BY <2>1, <2>7, LabelsOnly DEF Requeue
  <2> QED BY <1>2, <2>2, <2>3, <2>4, <2>5, <2>6, <2>7 DEF RefilledNext, Next, Refill
<1> QED BY <1>1, <1>2

-----------------------------------------------------------------------------
(* The theorems. *)

\* The same lanes and workers, with issues labelled and requeued at any time.
RefilledSpec == Init /\ [][RefilledNext]_vars

\* The inductive invariant holds, whether or not the queue is refilled.
THEOREM DispatchInvariant == (Spec => []DispatchInv) /\ (RefilledSpec => []DispatchInv)
<1>1. RefilledSpec => []DispatchInv
  BY DispatchInit, DispatchStep, PTL DEF RefilledSpec
<1>2. DispatchInv /\ [Next]_vars => DispatchInv'
  BY DispatchStep DEF RefilledNext
<1>3. Spec => []DispatchInv
  BY <1>2, DispatchInit, PTL DEF Spec
<1> QED BY <1>1, <1>3

\* acquire_issue_lease: two workers never run for one issue, whichever old listings the
\* lanes work from, however often it is labelled ready again, and wherever lanes and
\* workers die, unless a lease or lock that was needed was unlinked.
THEOREM OneWorker == (Spec => []OneWorkerPerIssue) /\ (RefilledSpec => []OneWorkerPerIssue)
<1>1. DispatchInv => OneWorkerPerIssue
  BY DEF DispatchInv, OneWorkerPerIssue, Orderly, Apart
<1> QED BY <1>1, DispatchInvariant, PTL

\* Issues of one branch file their locks under one name.  The code sees to it only where
\* a base branch is configured, or every issue declares its own.
OneKeyPerBranch == \A i, j \in Issues : BaseBranch[i] = BaseBranch[j] => LockKey[i] = LockKey[j]

\* acquire_write_scope_lease: where a branch has one name, workers whose issues have the
\* same branch and overlapping or unknown write scopes never run side by side,
\* unless a lease or lock that was needed was unlinked.
THEOREM ScopesAreExcluded ==
  OneKeyPerBranch => /\ Spec => []ScopesExcludedUnlessStolen
                     /\ RefilledSpec => []ScopesExcludedUnlessStolen
<1> SUFFICES ASSUME OneKeyPerBranch
             PROVE /\ Spec => []ScopesExcludedUnlessStolen
                   /\ RefilledSpec => []ScopesExcludedUnlessStolen
    OBVIOUS
<1>1. ASSUME DispatchInv, ~stolen PROVE ScopesExcluded
  <2> SUFFICES ASSUME NEW m \in Jobs, NEW n \in Jobs, Running(m), Running(n),
                      job[m].issue # job[n].issue,
                      BaseBranch[job[m].issue] = BaseBranch[job[n].issue]
               PROVE  ~MayMeet(job[m].issue, job[n].issue)
      BY DEF ScopesExcluded
  <2>1. job[m].issue \in Issues /\ job[n].issue \in Issues
    BY <1>1 DEF DispatchInv, Orderly, Guarded
  <2>2. LockKey[job[m].issue] = LockKey[job[n].issue]
    BY <2>1 DEF OneKeyPerBranch
  <2>3. ~Clash(job[m].issue, job[n].issue)
    BY <1>1 DEF DispatchInv, Orderly, Apart
  <2> QED BY <2>1, <2>2, <2>3, MeetingIsConflict DEF Clash
<1>2. DispatchInv => ScopesExcludedUnlessStolen
  BY <1>1 DEF ScopesExcludedUnlessStolen
<1> QED BY <1>2, DispatchInvariant, PTL

\* Both hold however often the issues are labelled ready again from old listings.
THEOREM RefilledStaysApart == OneKeyPerBranch => (RefilledSpec => []StillApart)
<1>1. OneWorkerPerIssue /\ ScopesExcludedUnlessStolen => StillApart
  BY DEF StillApart
<1> QED BY <1>1, OneWorker, ScopesAreExcluded, PTL

-----------------------------------------------------------------------------
(* PullRequests: the inductive invariant. *)

Checks == {"none", "pending", "passed", "failed", "infra"}
Verdicts == {"none", "approved", "superseded", "overlap-queued", "needs-repair", "human-action",
             "checks-pending", "local-required", "semantic-required", "blocked", "merge", "ready",
             "ready_then_merge"}
Routes == {"none", "approved", "human", "local-validate", "semantic-review", "wait", "terminal", "repair"}

\* What the variables hold.
OpenType == [state : {"open"}, draft : BOOLEAN, head : 1..MaxHead, clean : BOOLEAN, blocked : BOOLEAN,
             asked : BOOLEAN, wanted : BOOLEAN, labels : SUBSET Read, checks : Checks,
             semantic : {"missing", "passed", "failed"}, tested : BOOLEAN]
PullType == OpenType \cup {Unopened, Merged}
ChainType == [stage : DOMAIN ChainStages, route : [Pulls -> Routes], phase : {"look", "apply", "act", "over"},
              seen : [Pulls -> PullType \cup {Unseen}], had : [Pulls -> SUBSET ReviewLabels],
              verdict : [Pulls -> Verdicts], next : [Pulls -> Routes], todo : SUBSET Pulls]
TaskType == [pc : {"none", "viewed", "fetched", "ready", "checked"}, head : 0..MaxHead, read : 0..MaxHead]
PastType == [failures : Nat, moves : Nat, tried : SUBSET Pulls, merged : SUBSET Pulls,
             approved : SUBSET Pulls, judged : SUBSET Pulls]
IssueType == [IssueNumbers -> {"ready", "pr-open", "closed"}]
PullTypes == /\ pull \in [Pulls -> PullType] /\ issue \in IssueType /\ given \in Settings
             /\ driver \in Cycles /\ chain \in [Cycles -> ChainType]
             /\ task \in [Cycles -> [Pulls -> TaskType]] /\ past \in PastType
             /\ chain[driver].phase # "over"

\* What is approved is judged good and has passed its checks, where there are any.
Recorded(p) ==
  /\ p \in past.approved => p \in past.judged
  /\ p \in past.judged => Open(p)
  /\ Open(p) => /\ pull[p].checks = "none" <=> p \notin given.checked
                /\ pull[p].semantic = "passed" => p \in past.judged
  /\ p \in past.approved /\ p \in given.checked => pull[p].checks = "passed"

\* What a command read of p is no newer than p is; what it found good is so at that head.
SeenWell(c, p) ==
  LET v == chain[c].seen[p]
  IN  v.state = "open" =>
        /\ pull[p].state # "unopened" /\ (v.checks = "none" <=> p \notin given.checked)
        /\ Open(p) => /\ v.head <= pull[p].head
                      /\ v.head = pull[p].head =>
                           /\ v.semantic = "passed" => p \in past.judged
                           /\ v.checks = "passed" => pull[p].checks = "passed"

\* A reviewer fetches no older head than it noted; what a finalizer checked had passed
\* its checks, so it has some.
WorksWell(c, p) ==
  LET t == task[c][p]
  IN  /\ t.pc # "fetched" => t.read = 0
      /\ t.pc = "fetched" => t.head <= t.read
      /\ t.pc \in {"viewed", "fetched"} =>
           /\ pull[p].state # "unopened"
           /\ Open(p) => t.head <= pull[p].head /\ t.read <= pull[p].head
      /\ t.pc = "checked" => p \in given.checked

\* Whatever fails, and whichever commands run beside each other.
RecordInv == /\ PullTypes
             /\ \A p \in Pulls : Recorded(p) /\ \A c \in Cycles : SeenWell(c, p) /\ WorksWell(c, p)

\* As long as no command fails there is one cycle, and it finds what it left.
DriverAlone == \A c \in Cycles \ {driver} : chain[c].phase = "over" /\ task[c] = NoTasks
Driven == chain[driver]
Listing == Kind(driver) \in {"review", "finalize"} /\ Driven.phase = "look"

\* The targets of a stage: what is open, what was viewed, what is approved or routed.
StageHolds ==
  /\ Driven.phase = "apply" =>
       /\ Kind(driver) = "review" /\ Driven.todo \subseteq OpenPulls
       /\ \A p \in Driven.todo : Driven.had[p] = pull[p].labels \cap ReviewLabels
  /\ Driven.phase = "act" =>
       Kind(driver) = "finalize" /\ Driven.todo \subseteq {p \in OpenPulls : "approved" \in pull[p].labels}
  /\ Listing => OpenPulls = Driven.todo \cup Viewed(driver)
  /\ Kind(driver) = "semantic-review" => \A p \in Driven.todo : Driven.route[p] = "semantic-review"

\* What was read of a pull request: its labels, and its evidence, unless it was pushed
\* to since.
SeenHolds ==
  Listing =>
    \A p \in Viewed(driver) :
      LET v == Driven.seen[p]
      IN  /\ v.state = "open" /\ v.labels = pull[p].labels
          /\ v.head = pull[p].head => v.semantic = pull[p].semantic
          /\ p \in past.approved => v.head = pull[p].head

\* A command of a parallel stage works on a target.
TaskHolds == \A p \in Pulls : task[driver][p].pc \in {"viewed", "fetched"} =>
                                Kind(driver) \in Parallel /\ p \in Driven.todo

\* No route leads an approved pull request to another semantic review.
Spared(p) == (IF Driven.phase = "apply" THEN Driven.next[p] ELSE Driven.route[p]) # "semantic-review"
EvidenceHolds == \A p \in past.approved : pull[p].semantic = "passed" /\ Spared(p)

\* The label that p has once the review that runs has applied its verdicts.
Chosen(p) == IF Driven.phase = "apply" /\ p \in Driven.todo THEN Driven.verdict[p] = "approved"
                                                            ELSE "approved" \in pull[p].labels
\* Of two that overlap at most one is or will be approved, and none beside a merged one.
QueueHolds ==
  /\ past.merged # {} => Driven.phase = "act"
  /\ \A p, q \in OpenPulls : Overlap(p, q) /\ Chosen(p) => ~Chosen(q)
  /\ \A p \in past.merged : \A q \in OpenPulls : Overlap(p, q) => "approved" \notin pull[q].labels
  /\ \A p, q \in past.merged : ~Overlap(p, q)

Quiet == DriverAlone /\ StageHolds /\ SeenHolds /\ TaskHolds /\ EvidenceHolds /\ QueueHolds
QuietInv == past.failures = 0 => Quiet
PullInv == RecordInv /\ QuietInv

-----------------------------------------------------------------------------
(* What the operators return. *)

\* A set of natural numbers that is not empty has a least element.
LEMMA LeastNumber == ASSUME NEW T \in SUBSET Nat, T # {} PROVE \E x \in T : \A y \in T : x <= y
<1> DEFINE R == OpToRel(<, Nat)
<1>1. IsWellFoundedOn(R, Nat)
  BY NatLessThanWellFounded
<1>2. \A y, x \in T : <<y, x>> \in R <=> y < x
  <2>1. \A y, x \in Nat : <<y, x>> \in Nat \X Nat /\ <<y, x>>[1] = y /\ <<y, x>>[2] = x
    OBVIOUS
  <2> QED BY <2>1 DEF OpToRel
<1> HIDE DEF R
<1>3. PICK x \in T : \A y \in T : ~(<<y, x>> \in R)
  BY <1>1, WFMin
<1>4. \A y \in T : ~(y < x) /\ y \in Nat /\ x \in Nat
  BY <1>2, <1>3
<1> QED BY <1>3, <1>4

\* The first of a set of pull requests is in it and before all others.
LEMMA FirstIsFirst == ASSUME NEW S \in SUBSET Pulls, S # {}
                      PROVE FirstOf(S) \in S /\ \A q \in S : FirstOf(S) <= q
<1>1. S \in SUBSET Nat
  BY PullsAssumption
<1>2. \E p \in S : \A q \in S : p <= q
  BY <1>1, LeastNumber
<1> QED BY <1>2 DEF FirstOf

\* What is open has everything an open pull request has.
LEMMA OpenIs == ASSUME PullTypes
                PROVE \A p \in Pulls : /\ Open(p) => pull[p] \in OpenType /\ p \in OpenPulls
                                       /\ ~Open(p) => pull[p] \in {Unopened, Merged} /\ p \notin OpenPulls
BY DEF PullTypes, PullType, Open, OpenPulls, OpenType, Unopened, Merged

\* So has what was read of an open one.
LEMMA ViewedIs ==
  ASSUME PullTypes, NEW c \in Cycles, NEW p \in Pulls
  PROVE /\ chain[c].seen[p].state = "open" <=> chain[c].seen[p] \in OpenType
        /\ p \in Viewed(c) => chain[c].seen[p] \in PullType
<1>1. chain[c].seen[p] \in PullType \cup {Unseen}
  BY DEF PullTypes, ChainType
<1> QED BY <1>1 DEF PullType, Viewed, OpenType, Unopened, Merged, Unseen

\* The constants of the types.
LEMMA Blanks ==
  /\ NoRoute \in [Pulls -> Routes] /\ NoRoute \in [Pulls -> Verdicts]
  /\ NoTask \in TaskType /\ NoTasks \in [Pulls -> TaskType] /\ \A p \in Pulls : NoTasks[p] = NoTask
  /\ [p \in Pulls |-> Unseen] \in [Pulls -> PullType \cup {Unseen}]
  /\ [p \in Pulls |-> {}] \in [Pulls -> SUBSET ReviewLabels]
<1>1. NoTask \in TaskType
  BY PullsAssumption DEF NoTask, TaskType
<1> QED BY <1>1 DEF NoRoute, Routes, Verdicts, NoTasks

\* The stages are a sequence that is not empty, in every step the same.
LEMMA StagesAre ==
  ASSUME PullTypes
  PROVE /\ DOMAIN ChainStages = 1..Len(ChainStages) /\ Len(ChainStages) \in Nat /\ Len(ChainStages) > 0
        /\ given' = given => ChainStages' = ChainStages /\ ChainType' = ChainType
<1>1. given \in Settings
  BY DEF PullTypes
<1>2. ChainStages # << >> /\ \E S : ChainStages \in Seq(S)
  BY <1>1, PullsAssumption DEF ChainStages
<1>3. given' = given => ChainStages' = ChainStages /\ ChainType' = ChainType
  BY DEF ChainStages, ChainType
<1> QED BY <1>2, <1>3

\* A stage begins with what is open, or with what the routes say.
LEMMA EnteredIs ==
  ASSUME PullTypes, NEW n \in DOMAIN ChainStages, NEW r \in [Pulls -> Routes], NEW e, e = Entered(n, r)
  PROVE /\ e \in ChainType /\ e.stage = n /\ e.phase = "look" /\ e.route = r
        /\ e.seen = [p \in Pulls |-> Unseen]
        /\ ChainStages[n] \in {"review", "finalize"} => e.todo = OpenPulls
        /\ ChainStages[n] = "semantic-review" => \A p \in e.todo : r[p] = "semantic-review"
        /\ [e EXCEPT !.phase = "over", !.todo = {}] \in ChainType
<1>1. /\ e.stage = n /\ e.route = r /\ e.phase = "look" /\ e.seen = [p \in Pulls |-> Unseen]
      /\ e.had = [p \in Pulls |-> {}] /\ e.verdict = NoRoute /\ e.next = NoRoute
      /\ e = [stage |-> e.stage, route |-> e.route, phase |-> e.phase, seen |-> e.seen, had |-> e.had,
              verdict |-> e.verdict, next |-> e.next, todo |-> e.todo]
  BY DEF Entered
<1>2. e.todo \in SUBSET Pulls
  BY DEF Entered, OpenPulls, Wanted
<1>3. ChainStages[n] \in {"review", "finalize"} => e.todo = OpenPulls
  BY DEF Entered
<1>4. ChainStages[n] = "semantic-review" => \A p \in e.todo : r[p] = "semantic-review"
  BY DEF Entered
<1>5. e \in ChainType
  BY <1>1, <1>2, Blanks DEF ChainType
<1>6. [e EXCEPT !.phase = "over", !.todo = {}] \in ChainType
  BY <1>5 DEF ChainType
<1> QED BY <1>1, <1>3, <1>4, <1>5, <1>6

\* The stage that follows another one.
LEMMA FollowingIs ==
  ASSUME PullTypes, NEW c \in Cycles, NEW r \in [Pulls -> Routes]
  PROVE /\ FirstStage \in ChainType /\ FirstStage.phase = "look" /\ FirstStage.seen = [p \in Pulls |-> Unseen]
        /\ NoStage \in ChainType /\ NoStage.phase = "over" /\ NoStage.seen = [p \in Pulls |-> Unseen]
        /\ c # driver => Following(c, r) = NoStage
        /\ c = driver => \E n \in DOMAIN ChainStages, t \in {r, NoRoute} : Following(c, r) = Entered(n, t)
<1>1. 1 \in DOMAIN ChainStages
  BY StagesAre
<1>2. FirstStage \in ChainType /\ FirstStage.phase = "look" /\ FirstStage.seen = [p \in Pulls |-> Unseen]
  <2>1. FirstStage \in ChainType
    BY <1>1, EnteredIs, Blanks DEF FirstStage
  <2>2. FirstStage.phase = "look" /\ FirstStage.seen = [p \in Pulls |-> Unseen]
    BY DEF FirstStage, Entered
  <2> QED BY <2>1, <2>2
<1>3. NoStage \in ChainType /\ NoStage.phase = "over" /\ NoStage.seen = [p \in Pulls |-> Unseen]
  <2>1. NoStage \in ChainType
    BY <1>1, EnteredIs, Blanks DEF NoStage
  <2> QED BY <2>1, <1>1, EnteredIs, Blanks DEF NoStage, Entered
<1>4. chain[c].stage \in DOMAIN ChainStages
  BY DEF PullTypes, ChainType
<1>5. chain[c].stage # Len(ChainStages) => chain[c].stage + 1 \in DOMAIN ChainStages
  BY <1>4, StagesAre
<1> QED BY <1>1, <1>2, <1>3, <1>5 DEF Following, FirstStage

\* What failures, moves and pushes leave on record.
LEMMA PastIs ==
  ASSUME PullTypes
  PROVE /\ past \in PastType
        /\ Failed \in PastType /\ Failed.failures # 0 /\ Failed.approved = past.approved /\ Failed.judged = past.judged
        /\ Failed.merged = past.merged
        /\ Moved \in PastType /\ Moved.failures = past.failures /\ Moved.merged = past.merged
        /\ Moved.approved = past.approved /\ Moved.judged = past.judged
        /\ \A h \in PastType :
             /\ [h EXCEPT !.merged = {}] \in PastType /\ [h EXCEPT !.merged = {}].failures = h.failures
             /\ [h EXCEPT !.merged = {}].approved = h.approved /\ [h EXCEPT !.merged = {}].judged = h.judged
             /\ [h EXCEPT !.merged = {}].merged = {}
<1>1. past \in PastType /\ past.failures + 1 \in Nat /\ past.failures + 1 # 0 /\ past.moves + 1 \in Nat
  BY DEF PullTypes, PastType
<1>2. Failed \in PastType /\ Moved \in PastType
  BY <1>1 DEF PastType, Failed, Moved
<1>3. /\ Failed.failures # 0 /\ Failed.approved = past.approved /\ Failed.judged = past.judged
      /\ Failed.merged = past.merged
      /\ Moved.failures = past.failures /\ Moved.merged = past.merged
      /\ Moved.approved = past.approved /\ Moved.judged = past.judged
  BY <1>1 DEF PastType, Failed, Moved
<1>4. ASSUME NEW h \in PastType
      PROVE  /\ [h EXCEPT !.merged = {}] \in PastType /\ [h EXCEPT !.merged = {}].failures = h.failures
             /\ [h EXCEPT !.merged = {}].approved = h.approved /\ [h EXCEPT !.merged = {}].judged = h.judged
             /\ [h EXCEPT !.merged = {}].merged = {}
  BY <1>4 DEF PastType
<1> QED BY <1>1, <1>2, <1>3, <1>4

\* A new head takes with it what was known of the old one.
LEMMA ClearedIs ==
  ASSUME NEW h \in PastType, NEW p \in Pulls
  PROVE /\ Cleared(h, p) \in PastType /\ Cleared(h, p).failures = h.failures
        /\ Cleared(h, p).merged = h.merged /\ Cleared(h, p).approved = h.approved \ {p}
        /\ Cleared(h, p).judged = h.judged \ {p}
BY DEF PastType, Cleared

-----------------------------------------------------------------------------
(* What a step does to one pull request and to the record of it. *)

\* It keeps its head, is pushed to, is published, or is merged.
Keeps(p) ==
  /\ Open(p)' <=> Open(p)
  /\ ~Open(p) => pull'[p] = pull[p]
  /\ p \in past.judged => p \in past'.judged
  /\ p \in past'.judged => Open(p)
  /\ Open(p) => /\ pull'[p].head = pull[p].head
                /\ pull'[p].semantic = "passed" => pull[p].semantic = "passed" \/ p \in past'.judged
                /\ \/ pull'[p].checks = pull[p].checks
                   \/ pull[p].checks = "pending" /\ pull'[p].checks \in {"passed", "failed", "infra"}
Unrecorded(p) == p \notin past'.judged /\ p \notin past'.approved
Renews(p) == /\ Open(p) /\ Open(p)' /\ pull[p].head < pull'[p].head
             /\ pull'[p].semantic # "passed" /\ pull'[p].checks = Fresh(p) /\ Unrecorded(p)
Begins(p) == pull[p] = Unopened /\ pull'[p] = Draft(p) /\ Unrecorded(p)
Closes(p) == Open(p) /\ pull'[p] = Merged /\ Unrecorded(p)
Goes(p) == Keeps(p) \/ Renews(p) \/ Begins(p) \/ Closes(p)

\* The record of a pull request stays right, and what commands know of it.
LEMMA GoesOn ==
  ASSUME PullTypes, PullTypes', given' = given, NEW p \in Pulls, Recorded(p), Goes(p)
  PROVE /\ (p \in past'.approved => p \in past.approved) => Recorded(p)'
        /\ \A c \in Cycles :
             /\ SeenWell(c, p) /\ chain'[c].seen[p] \in {chain[c].seen[p], Unseen} => SeenWell(c, p)'
             /\ WorksWell(c, p) /\ task'[c][p] \in {task[c][p], NoTask} => WorksWell(c, p)'
<1>1. CASE Keeps(p)
  <2>1. (p \in past'.approved => p \in past.approved) => Recorded(p)'
    BY <1>1 DEF Keeps, Recorded, Open
  <2>2. ASSUME NEW c \in Cycles, SeenWell(c, p), chain'[c].seen[p] \in {chain[c].seen[p], Unseen}
        PROVE SeenWell(c, p)'
    <3>1. CASE chain'[c].seen[p].state # "open"
      BY <3>1 DEF SeenWell
    <3>2. CASE chain'[c].seen[p].state = "open" /\ ~Open(p)
      BY <1>1, <2>2, <3>2 DEF Keeps, SeenWell, Unseen
    <3>3. CASE chain'[c].seen[p].state = "open" /\ Open(p)
      <4>1. chain'[c].seen[p] = chain[c].seen[p] /\ pull'[p].state = "open"
        BY <1>1, <2>2, <3>3 DEF Keeps, Open, Unseen
      <4> QED BY <1>1, <2>2, <3>3, <4>1 DEF Keeps, SeenWell
    <3> QED BY <3>1, <3>2, <3>3
  <2>3. ASSUME NEW c \in Cycles, WorksWell(c, p), task'[c][p] \in {task[c][p], NoTask} PROVE WorksWell(c, p)'
    <3>1. CASE task'[c][p] = NoTask
      BY <3>1 DEF WorksWell, NoTask
    <3>2. CASE task'[c][p] = task[c][p] /\ ~Open(p)
      BY <1>1, <2>3, <3>2 DEF Keeps, WorksWell
    <3>3. CASE task'[c][p] = task[c][p] /\ Open(p)
      <4>1. pull'[p].state = "open"
        BY <1>1, <3>3 DEF Keeps, Open
      <4> QED BY <1>1, <2>3, <3>3, <4>1 DEF Keeps, WorksWell
    <3> QED BY <2>3, <3>1, <3>2, <3>3
  <2> QED BY <2>1, <2>2, <2>3
<1>2. CASE Renews(p)
  <2>1. Recorded(p)'
    BY <1>2 DEF Renews, Unrecorded, Recorded, Open, Fresh
  <2>2. pull[p] \in OpenType /\ pull'[p] \in OpenType
    <3>1. pull[p] \in PullType /\ pull'[p] \in PullType
      BY DEF PullTypes
    <3> QED BY <1>2, <3>1 DEF Renews, Open, PullType, Unopened, Merged
  <2>3. pull[p].head \in Nat /\ pull'[p].head \in Nat /\ pull[p].head < pull'[p].head
    BY <1>2, <2>2, PullsAssumption DEF Renews, OpenType
  <2>4. ASSUME NEW c \in Cycles, SeenWell(c, p), chain'[c].seen[p] \in {chain[c].seen[p], Unseen}
        PROVE SeenWell(c, p)'
    <3>1. CASE chain'[c].seen[p].state # "open"
      BY <3>1 DEF SeenWell
    <3>2. CASE chain'[c].seen[p].state = "open"
      <4>1. chain'[c].seen[p] = chain[c].seen[p] /\ chain[c].seen[p] \in OpenType
        BY <2>4, <3>2, ViewedIs DEF Unseen
      <4>2. chain[c].seen[p].head \in Nat /\ chain[c].seen[p].head <= pull[p].head
        BY <1>2, <2>4, <4>1, PullsAssumption DEF Renews, SeenWell, OpenType
      <4>3. chain[c].seen[p].head < pull'[p].head /\ chain[c].seen[p].head # pull'[p].head
        BY <2>3, <4>2
      <4>4. chain[c].seen[p].head <= pull'[p].head
        BY <2>3, <4>2
      <4> QED BY <1>2, <2>4, <3>2, <4>1, <4>3, <4>4 DEF Renews, SeenWell, Open
    <3> QED BY <3>1, <3>2
  <2>5. ASSUME NEW c \in Cycles, WorksWell(c, p), task'[c][p] \in {task[c][p], NoTask} PROVE WorksWell(c, p)'
    <3>1. CASE task'[c][p] = NoTask
      BY <3>1 DEF WorksWell, NoTask
    <3>2. CASE task'[c][p] = task[c][p]
      <4>1. task[c][p] \in TaskType
        BY DEF PullTypes
      <4>2. task[c][p].head \in Nat /\ task[c][p].read \in Nat
        BY <4>1, PullsAssumption DEF TaskType
      <4>3. /\ task[c][p].head <= pull[p].head => task[c][p].head <= pull'[p].head
            /\ task[c][p].read <= pull[p].head => task[c][p].read <= pull'[p].head
        BY <2>3, <4>2
      <4> QED BY <1>2, <2>5, <3>2, <4>3 DEF Renews, WorksWell, Open
    <3> QED BY <2>5, <3>1, <3>2
  <2> QED BY <2>1, <2>4, <2>5
<1>3. CASE Begins(p)
  <2>1. Open(p)' /\ pull'[p].checks = Fresh(p) /\ pull'[p].semantic = "missing" /\ pull[p].state = "unopened"
    BY <1>3 DEF Begins, Open, Draft, Unopened
  <2>2. Recorded(p)'
    BY <1>3, <2>1 DEF Begins, Unrecorded, Recorded, Fresh, Open
  <2>3. ASSUME NEW c \in Cycles, SeenWell(c, p), chain'[c].seen[p] \in {chain[c].seen[p], Unseen}
        PROVE SeenWell(c, p)'
    BY <2>1, <2>3 DEF SeenWell, Unseen
  <2>4. ASSUME NEW c \in Cycles, WorksWell(c, p), task'[c][p] \in {task[c][p], NoTask} PROVE WorksWell(c, p)'
    BY <2>1, <2>4 DEF WorksWell, NoTask
  <2> QED BY <2>2, <2>3, <2>4
<1>4. CASE Closes(p)
  <2>1. ~Open(p)' /\ pull'[p].state # "unopened"
    BY <1>4 DEF Closes, Open, Merged
  <2>2. Recorded(p)'
    BY <1>4, <2>1 DEF Closes, Unrecorded, Recorded
  <2>3. ASSUME NEW c \in Cycles, SeenWell(c, p), chain'[c].seen[p] \in {chain[c].seen[p], Unseen}
        PROVE SeenWell(c, p)'
    BY <2>1, <2>3 DEF SeenWell, Unseen
  <2>4. ASSUME NEW c \in Cycles, WorksWell(c, p), task'[c][p] \in {task[c][p], NoTask} PROVE WorksWell(c, p)'
    BY <2>1, <2>4 DEF WorksWell, NoTask
  <2> QED BY <2>2, <2>3, <2>4
<1> QED BY <1>1, <1>2, <1>3, <1>4 DEF Goes

\* So everything on record stays right in a step that reads and approves nothing.
LEMMA RecordKeeps ==
  ASSUME RecordInv, PullTypes', given' = given, \A p \in Pulls : Goes(p),
         \A p \in Pulls : p \in past'.approved => p \in past.approved,
         \A c \in Cycles, p \in Pulls : chain'[c].seen[p] \in {chain[c].seen[p], Unseen},
         \A c \in Cycles, p \in Pulls : task'[c][p] \in {task[c][p], NoTask} \/ WorksWell(c, p)'
  PROVE RecordInv'
<1>1. ASSUME NEW p \in Pulls PROVE Recorded(p)' /\ \A c \in Cycles : SeenWell(c, p)' /\ WorksWell(c, p)'
  <2>1. Recorded(p) /\ \A c \in Cycles : SeenWell(c, p) /\ WorksWell(c, p)
    BY DEF RecordInv
  <2> QED BY <2>1, GoesOn DEF RecordInv
<1> QED BY <1>1 DEF RecordInv

\* A step that leaves the pull requests and their record alone.
Untouched == /\ pull' = pull /\ given' = given /\ past'.approved = past.approved /\ past'.judged = past.judged
             /\ past' \in PastType /\ issue' \in IssueType

\* Such a step keeps what is recorded.
LEMMA UntouchedGoes == ASSUME RecordInv, Untouched PROVE \A p \in Pulls : Goes(p)
<1> SUFFICES ASSUME NEW p \in Pulls PROVE Keeps(p)
  BY DEF Goes
<1>1. Recorded(p)
  BY DEF RecordInv
<1> QED BY <1>1 DEF Untouched, Keeps, Recorded, Open

\* A command ends.
LEMMA FinishedIs ==
  ASSUME PullTypes, NEW c \in Cycles, NEW p \in Pulls, Finished(c, p), given' = given, driver' = driver
  PROVE /\ chain' \in [Cycles -> ChainType'] /\ task' \in [Cycles -> [Pulls -> TaskType]]
        /\ chain'[driver].phase # "over"
        /\ \A b \in Cycles : /\ chain'[b].stage = chain[b].stage /\ chain'[b].phase = chain[b].phase
                             /\ chain'[b].seen = chain[b].seen /\ chain'[b].route = chain[b].route
                             /\ chain'[b].next = chain[b].next /\ chain'[b].verdict = chain[b].verdict
                             /\ chain'[b].had = chain[b].had
        /\ \A b \in Cycles, q \in Pulls : task'[b][q] = IF b = c /\ q = p THEN NoTask ELSE task[b][q]
        /\ chain'[c].todo = chain[c].todo \ {p} /\ \A b \in Cycles \ {c} : chain'[b] = chain[b] /\ task'[b] = task[b]
<1>1. /\ chain' = [chain EXCEPT ![c].todo = @ \ {p}] /\ task' = [task EXCEPT ![c][p] = NoTask]
  BY DEF Finished
<1>2. chain \in [Cycles -> ChainType] /\ task \in [Cycles -> [Pulls -> TaskType]] /\ ChainType' = ChainType
  BY StagesAre DEF PullTypes
<1>3. [chain[c] EXCEPT !.todo = @ \ {p}] \in ChainType
  <2>1. chain[c] \in ChainType
    BY <1>2
  <2> QED BY <2>1 DEF ChainType
<1>4. chain' \in [Cycles -> ChainType']
  BY <1>1, <1>2, <1>3
<1>5. task' \in [Cycles -> [Pulls -> TaskType]]
  BY <1>1, <1>2, Blanks
<1>6. chain'[c] = [chain[c] EXCEPT !.todo = @ \ {p}] /\ \A b \in Cycles \ {c} : chain'[b] = chain[b] /\ task'[b] = task[b]
  BY <1>1, <1>2
<1>7. /\ chain'[c].stage = chain[c].stage /\ chain'[c].phase = chain[c].phase
      /\ chain'[c].seen = chain[c].seen /\ chain'[c].route = chain[c].route
      /\ chain'[c].next = chain[c].next /\ chain'[c].verdict = chain[c].verdict
      /\ chain'[c].had = chain[c].had /\ chain'[c].todo = chain[c].todo \ {p}
  BY <1>2, <1>6 DEF ChainType
<1>8. \A b \in Cycles, q \in Pulls : task'[b][q] = IF b = c /\ q = p THEN NoTask ELSE task[b][q]
  BY <1>1, <1>2
<1>9. chain'[driver].phase # "over"
  BY <1>6, <1>7 DEF PullTypes
<1> QED BY <1>4, <1>5, <1>6, <1>7, <1>8, <1>9

\* A pull request is changed in place: it keeps its evidence, or is judged, or pushed to.
InPlace(p, v) ==
  /\ pull' = [pull EXCEPT ![p] = v] /\ UNCHANGED <<issue, given, driver>>
  /\ past' \in PastType /\ past'.merged = past.merged /\ (past'.failures = 0 => past.failures = 0)
  /\ \/ /\ v.head = pull[p].head /\ v.semantic = pull[p].semantic
        /\ \/ v.checks = pull[p].checks
           \/ pull[p].checks = "pending" /\ v.checks \in {"passed", "failed", "infra"}
        /\ past'.approved = past.approved /\ past'.judged = past.judged
     \/ /\ v.head = pull[p].head /\ v.checks = pull[p].checks /\ past'.approved = past.approved
        /\ past'.judged = IF v.semantic = "passed" THEN past.judged \cup {p} ELSE past.judged
     \/ /\ pull[p].head < v.head /\ v.checks = Fresh(p) /\ v.semantic = "missing"
        /\ past'.approved = past.approved \ {p} /\ past'.judged = past.judged \ {p}

\* Nothing else is changed then.
LEMMA InPlaceIs ==
  ASSUME RecordInv, NEW p \in OpenPulls, NEW v \in OpenType, InPlace(p, v)
  PROVE /\ p \in Pulls /\ pull' \in [Pulls -> PullType] /\ issue' \in IssueType /\ OpenPulls' = OpenPulls
        /\ pull'[p] = v /\ \A q \in Pulls \ {p} : pull'[q] = pull[q]
        /\ \A q \in Pulls : Goes(q) /\ (q \in past'.approved => q \in past.approved)
<1>1. PullTypes /\ p \in Pulls /\ Open(p) /\ v.state = "open"
  BY DEF RecordInv, OpenPulls, OpenType
<1>2. pull' \in [Pulls -> PullType] /\ issue' \in IssueType /\ pull'[p] = v /\ \A q \in Pulls \ {p} : pull'[q] = pull[q]
  BY <1>1 DEF PullTypes, InPlace, PullType
<1>3. OpenPulls' = OpenPulls /\ \A q \in Pulls : Open(q)' <=> Open(q)
  BY <1>1, <1>2 DEF OpenPulls, Open
<1>4. ASSUME NEW q \in Pulls PROVE Goes(q) /\ (q \in past'.approved => q \in past.approved)
  <2>0. Recorded(q)
    BY DEF RecordInv
  <2>1. q \in past'.approved => q \in past.approved
    BY DEF InPlace
  <2>2. CASE q # p
    <3>1. (q \in past'.judged <=> q \in past.judged) /\ pull'[q] = pull[q]
      BY <1>2, <2>2 DEF InPlace
    <3> QED BY <1>3, <2>0, <2>1, <3>1 DEF Goes, Keeps, Recorded
  <2>3. CASE q = p /\ v.head = pull[p].head
    <3>1. CASE past'.judged = past.judged \/ (v.semantic = "passed" /\ past'.judged = past.judged \cup {p})
      <4>1. v.semantic = "passed" => pull[p].semantic = "passed" \/ p \in past'.judged
        BY <1>1, <2>3, <3>1, OpenIs DEF InPlace, OpenType
      <4>2. \/ v.checks = pull[p].checks
            \/ pull[p].checks = "pending" /\ v.checks \in {"passed", "failed", "infra"}
        <5>1. ~(pull[p].head < v.head)
          <6>1. v.head \in Nat
            BY PullsAssumption DEF OpenType
          <6> QED BY <2>3, <6>1
        <5> QED BY <5>1 DEF InPlace
      <4> QED BY <1>1, <1>2, <1>3, <2>0, <2>1, <2>3, <3>1, <4>1, <4>2 DEF Goes, Keeps, Recorded
    <3> QED
      <4>1. ~(pull[p].head < v.head)
        <5>1. v.head \in Nat
          BY PullsAssumption DEF OpenType
        <5> QED BY <2>3, <5>1
      <4> QED BY <3>1, <4>1 DEF InPlace
  <2>4. CASE q = p /\ v.head # pull[p].head
    BY <1>1, <1>2, <1>3, <2>1, <2>4 DEF InPlace, Goes, Renews, Unrecorded
  <2> QED BY <2>1, <2>2, <2>3, <2>4
<1> QED BY <1>1, <1>2, <1>3, <1>4

\* A push makes a new head, without evidence.
LEMMA PushedIs ==
  ASSUME PullTypes, NEW p \in OpenPulls, pull[p].head < MaxHead, NEW clean \in BOOLEAN,
         NEW v, v \in {Pushed(p, pull[p]), [Pushed(p, pull[p]) EXCEPT !.clean = clean]}
  PROVE /\ v \in OpenType /\ pull[p].head < v.head /\ v.checks = Fresh(p) /\ v.semantic = "missing"
        /\ v.labels = pull[p].labels
<1>1. pull[p] \in OpenType /\ Fresh(p) \in Checks
  BY OpenIs DEF OpenPulls, Fresh, Checks
<1>2. pull[p].head + 1 \in 1..MaxHead /\ pull[p].head < pull[p].head + 1
  BY <1>1, PullsAssumption DEF OpenType
<1>3. Pushed(p, pull[p]) \in OpenType
  BY <1>1, <1>2 DEF Pushed, OpenType
<1>4. /\ Pushed(p, pull[p]).head = pull[p].head + 1 /\ Pushed(p, pull[p]).semantic = "missing"
      /\ Pushed(p, pull[p]).labels = pull[p].labels /\ Pushed(p, pull[p]).checks = Fresh(p)
  BY <1>1 DEF Pushed, OpenType
<1> HIDE DEF Pushed
<1> QED BY <1>2, <1>3, <1>4 DEF OpenType

\* People push, object and hold back, the base moves, checks conclude.
LEMMA OthersAre ==
  ASSUME RecordInv, NEW p \in Pulls, Commit(p) \/ Object(p) \/ Block(p) \/ BaseMoves(p) \/ Conclude(p)
  PROVE /\ p \in OpenPulls /\ UNCHANGED <<chain, task>>
        /\ \E v \in OpenType : InPlace(p, v) /\ v.labels = pull[p].labels
<1>1. /\ PullTypes /\ p \in OpenPulls /\ Open(p) /\ UNCHANGED <<issue, given, driver, chain, task>>
  BY DEF RecordInv, Commit, Object, Block, BaseMoves, Conclude, OpenPulls
<1>2. pull[p] \in OpenType /\ past \in PastType
  BY <1>1, OpenIs, PastIs DEF OpenPulls
<1>3. CASE Commit(p)
  <2>1. past' = Cleared(Moved, p) /\ pull' = [pull EXCEPT ![p] = Pushed(p, pull[p])] /\ pull[p].head < MaxHead
    BY <1>3 DEF Commit
  <2>2. /\ past' \in PastType /\ past'.merged = past.merged /\ past'.failures = past.failures
        /\ past'.approved = past.approved \ {p} /\ past'.judged = past.judged \ {p}
    BY <1>1, <2>1, PastIs, ClearedIs
  <2> DEFINE v == Pushed(p, pull[p])
  <2>3. v \in OpenType /\ pull[p].head < v.head /\ v.checks = Fresh(p) /\ v.semantic = "missing" /\ v.labels = pull[p].labels
    BY <1>1, <2>1, PushedIs
  <2> HIDE DEF v
  <2>4. InPlace(p, v)
    BY <1>1, <2>1, <2>2, <2>3 DEF InPlace, v
  <2> QED BY <1>1, <2>3, <2>4
<1>4. CASE Object(p) \/ Block(p) \/ BaseMoves(p) \/ Conclude(p)
  <2>1. PICK v \in OpenType :
          /\ pull' = [pull EXCEPT ![p] = v] /\ v.labels = pull[p].labels
          /\ v.head = pull[p].head /\ v.semantic = pull[p].semantic
          /\ \/ v.checks = pull[p].checks
             \/ pull[p].checks = "pending" /\ v.checks \in {"passed", "failed", "infra"}
    <3>1. CASE Object(p)
      <4>1. [pull[p] EXCEPT !.asked = ~@] \in OpenType
        BY <1>2 DEF OpenType
      <4> QED BY <1>2, <3>1, <4>1 DEF Object, OpenType
    <3>2. CASE Block(p)
      <4>1. [pull[p] EXCEPT !.blocked = ~@] \in OpenType
        BY <1>2 DEF OpenType
      <4> QED BY <1>2, <3>2, <4>1 DEF Block, OpenType
    <3>3. CASE BaseMoves(p)
      <4>1. [pull[p] EXCEPT !.clean = FALSE] \in OpenType
        BY <1>2 DEF OpenType
      <4> QED BY <1>2, <3>3, <4>1 DEF BaseMoves, OpenType
    <3>4. CASE Conclude(p)
      <4>1. PICK result \in {"passed", "failed", "infra"} : pull' = [pull EXCEPT ![p].checks = result]
        BY <3>4 DEF Conclude
      <4>2. [pull[p] EXCEPT !.checks = result] \in OpenType
        BY <1>2 DEF OpenType, Checks
      <4> QED BY <1>2, <3>4, <4>1, <4>2 DEF Conclude, OpenType
    <3> QED BY <1>4, <3>1, <3>2, <3>3, <3>4
  <2>2. /\ past' \in PastType /\ past'.merged = past.merged /\ past'.failures = past.failures
        /\ past'.approved = past.approved /\ past'.judged = past.judged
    <3>1. past' \in {past, Moved}
      BY <1>4 DEF Object, Block, BaseMoves, Conclude
    <3> QED BY <1>1, <3>1, PastIs
  <2>3. InPlace(p, v)
    BY <1>1, <2>1, <2>2 DEF InPlace
  <2> QED BY <1>1, <2>1, <2>3
<1> QED BY <1>3, <1>4

\* A reviewer, a validator or a repairer ends with a result for an open pull request.
LEMMA ResultsAre ==
  ASSUME RecordInv, NEW c \in Cycles, NEW p \in Pulls,
         SemanticResult(c, p) \/ LocalResult(c, p) \/ (RepairResult(c, p) /\ ~UNCHANGED <<pull, past>>)
  PROVE /\ p \in OpenPulls /\ Finished(c, p) /\ Kind(c) \in Parallel /\ task[c][p].pc \in {"viewed", "fetched"}
        /\ \E v \in OpenType :
             /\ InPlace(p, v) /\ ("approved" \in v.labels <=> "approved" \in pull[p].labels)
             /\ v.semantic = pull[p].semantic \/ pull[p].head < v.head \/ Kind(c) = "semantic-review"
<1>1. /\ PullTypes /\ p \in OpenPulls /\ Open(p) /\ UNCHANGED <<issue, given, driver>> /\ Finished(c, p)
      /\ Kind(c) \in Parallel /\ task[c][p].pc \in {"viewed", "fetched"}
  BY DEF RecordInv, SemanticResult, LocalResult, RepairResult, OpenPulls, Parallel
<1>2. pull[p] \in OpenType /\ past \in PastType
  BY <1>1, OpenIs, PastIs DEF OpenPulls
<1>3. CASE SemanticResult(c, p)
  <2>1. PICK result \in {"passed", "failed", "missing"} :
          LET current == task[c][p].head = pull[p].head
              good == current /\ result = "passed" /\ task[c][p].read = pull[p].head
          IN  /\ pull' = [pull EXCEPT ![p].semantic = IF current THEN result ELSE @,
                            ![p].labels = IF result = "failed" THEN @ \cup {"needs-repair"} ELSE @]
              /\ past' = IF good THEN [past EXCEPT !.judged = @ \cup {p}] ELSE past
    BY <1>3 DEF SemanticResult
  <2>2. task[c][p].head = pull[p].head => task[c][p].read = pull[p].head
    <3>1. task[c][p] \in TaskType /\ WorksWell(c, p) /\ task[c][p].pc = "fetched"
      BY <1>1, <1>3 DEF RecordInv, PullTypes, SemanticResult
    <3>2. task[c][p].head <= task[c][p].read /\ task[c][p].read <= pull[p].head
      BY <1>1, <3>1 DEF WorksWell
    <3> QED BY <1>2, <3>1, <3>2, PullsAssumption DEF TaskType, OpenType
  <2> DEFINE v == [pull[p] EXCEPT !.semantic = IF task[c][p].head = pull[p].head THEN result ELSE @,
                                  !.labels = IF result = "failed" THEN @ \cup {"needs-repair"} ELSE @]
  <2>3. /\ v \in OpenType /\ v.head = pull[p].head /\ v.checks = pull[p].checks
        /\ "approved" \in v.labels <=> "approved" \in pull[p].labels
    BY <1>2 DEF OpenType, Read, ReviewLabels
  <2>4. /\ v.semantic = IF task[c][p].head = pull[p].head THEN result ELSE pull[p].semantic
        /\ pull' = [pull EXCEPT ![p] = v]
    BY <1>2, <2>1 DEF OpenType
  <2> HIDE DEF v
  <2>5. InPlace(p, v)
    <3>1. CASE task[c][p].head = pull[p].head /\ result = "passed"
      <4>1. past' = [past EXCEPT !.judged = @ \cup {p}]
        BY <2>1, <2>2, <3>1
      <4>2. past' \in PastType /\ past'.merged = past.merged /\ past'.failures = past.failures
            /\ past'.approved = past.approved /\ past'.judged = past.judged \cup {p}
        BY <1>2, <4>1 DEF PastType
      <4> QED BY <1>1, <2>3, <2>4, <3>1, <4>2 DEF InPlace
    <3>2. CASE ~(task[c][p].head = pull[p].head /\ result = "passed")
      <4>1. past' = past
        BY <2>1, <3>2
      <4> QED BY <1>1, <1>2, <2>3, <2>4, <3>2, <4>1 DEF InPlace
    <3> QED BY <3>1, <3>2
  <2>6. Kind(c) = "semantic-review"
    BY <1>3 DEF SemanticResult
  <2> QED BY <1>1, <2>3, <2>5, <2>6
<1>4. CASE LocalResult(c, p)
  <2>1. PICK v \in OpenType :
          /\ pull' = [pull EXCEPT ![p] = v] /\ v.head = pull[p].head /\ v.checks = pull[p].checks
          /\ v.semantic = pull[p].semantic /\ ("approved" \in v.labels <=> "approved" \in pull[p].labels)
    <3>1. CASE pull' = [pull EXCEPT ![p].tested = @ \/ task[c][p].head = pull[p].head,
                                    ![p].labels = @ \cup {"validated"}]
      <4> DEFINE v == [pull[p] EXCEPT !.tested = @ \/ task[c][p].head = pull[p].head,
                                      !.labels = @ \cup {"validated"}]
      <4>1. /\ v \in OpenType /\ v.head = pull[p].head /\ v.checks = pull[p].checks
            /\ v.semantic = pull[p].semantic /\ ("approved" \in v.labels <=> "approved" \in pull[p].labels)
        BY <1>2 DEF OpenType, Read, ReviewLabels
      <4>2. pull' = [pull EXCEPT ![p] = v]
        BY <3>1
      <4> HIDE DEF v
      <4> QED BY <4>1, <4>2
    <3>2. CASE pull' = [pull EXCEPT ![p].labels = (@ \ {"validated"}) \cup {"needs-repair"}]
      <4> DEFINE v == [pull[p] EXCEPT !.labels = (@ \ {"validated"}) \cup {"needs-repair"}]
      <4>1. /\ v \in OpenType /\ v.head = pull[p].head /\ v.checks = pull[p].checks
            /\ v.semantic = pull[p].semantic /\ ("approved" \in v.labels <=> "approved" \in pull[p].labels)
        BY <1>2 DEF OpenType, Read, ReviewLabels
      <4>2. pull' = [pull EXCEPT ![p] = v]
        BY <3>2
      <4> HIDE DEF v
      <4> QED BY <4>1, <4>2
    <3> QED BY <1>4, <3>1, <3>2 DEF LocalResult
  <2>2. past' = past
    BY <1>4 DEF LocalResult
  <2> QED BY <1>1, <1>2, <2>1, <2>2 DEF InPlace
<1>5. CASE RepairResult(c, p) /\ ~UNCHANGED <<pull, past>>
  <2>1. /\ pull[p].head < MaxHead /\ past' = Cleared(past, p)
        /\ \E clean \in {pull[p].clean, TRUE} : pull' = [pull EXCEPT ![p] = [Pushed(p, @) EXCEPT !.clean = clean]]
    BY <1>5 DEF RepairResult
  <2>2. PICK clean \in {pull[p].clean, TRUE} : pull' = [pull EXCEPT ![p] = [Pushed(p, @) EXCEPT !.clean = clean]]
    BY <2>1
  <2>3. clean \in BOOLEAN
    BY <1>2 DEF OpenType
  <2> DEFINE v == [Pushed(p, pull[p]) EXCEPT !.clean = clean]
  <2>4. v \in OpenType /\ pull[p].head < v.head /\ v.checks = Fresh(p) /\ v.semantic = "missing" /\ v.labels = pull[p].labels
    BY <1>1, <2>1, <2>3, PushedIs
  <2>5. /\ past' \in PastType /\ past'.merged = past.merged /\ past'.failures = past.failures
        /\ past'.approved = past.approved \ {p} /\ past'.judged = past.judged \ {p}
    BY <1>2, <2>1, ClearedIs
  <2>6. pull' = [pull EXCEPT ![p] = v]
    BY <2>2
  <2> HIDE DEF v
  <2>7. InPlace(p, v)
    BY <1>1, <2>4, <2>5, <2>6 DEF InPlace
  <2> QED BY <1>1, <2>4, <2>7
<1> QED BY <1>3, <1>4, <1>5

\* A verdict becomes the label of an open pull request, unless a removal is lost.
LEMMA AppliedIs ==
  ASSUME RecordInv, NEW c \in Cycles, NEW p \in Pulls, Apply(c, p), Open(p)
  PROVE \E v \in OpenType :
          /\ InPlace(p, v) /\ v.semantic = pull[p].semantic /\ v.head = pull[p].head
          /\ past'.approved = past.approved
          /\ past'.failures = 0 /\ chain[c].had[p] = pull[p].labels \cap ReviewLabels =>
               ("approved" \in v.labels <=> chain[c].verdict[p] = "approved")
<1> DEFINE had == chain[c].had[p]
           mark == chain[c].verdict[p]
<1>1. PullTypes /\ pull[p] \in OpenType /\ past \in PastType /\ UNCHANGED <<issue, given, driver>>
  BY OpenIs, PastIs DEF RecordInv, Apply
<1>2. PICK lost \in SUBSET (pull[p].labels \cap (had \ {mark})) :
        /\ past' = IF lost = {} THEN past ELSE Failed
        /\ pull' = [pull EXCEPT
             ![p].labels = (@ \ (had \ {mark})) \cup lost \cup (({mark} \cap Read) \ had),
             ![p].wanted = mark = "needs-repair"]
  BY DEF Apply
<1> DEFINE labels == (pull[p].labels \ (had \ {mark})) \cup lost \cup (({mark} \cap Read) \ had)
           v == [pull[p] EXCEPT !.labels = labels, !.wanted = mark = "needs-repair"]
<1>3. labels \in SUBSET Read
  BY <1>1 DEF OpenType
<1>4. lost = {} /\ had = pull[p].labels \cap ReviewLabels => ("approved" \in labels <=> mark = "approved")
  BY DEF Read, ReviewLabels
<1>5. pull' = [pull EXCEPT ![p] = v]
  BY <1>2
<1> HIDE DEF labels
<1>6. /\ v \in OpenType /\ v.labels = labels /\ v.head = pull[p].head /\ v.checks = pull[p].checks
      /\ v.semantic = pull[p].semantic
  BY <1>1, <1>3 DEF OpenType
<1> HIDE DEF v
<1>7. /\ past' \in PastType /\ past'.merged = past.merged /\ (past'.failures = 0 => past.failures = 0 /\ lost = {})
      /\ past'.approved = past.approved /\ past'.judged = past.judged
  BY <1>1, <1>2, PastIs
<1>8. InPlace(p, v)
  BY <1>1, <1>5, <1>6, <1>7 DEF InPlace
<1> QED BY <1>4, <1>6, <1>7, <1>8

\* A draft becomes ready.
LEMMA ReadyIs ==
  ASSUME RecordInv, NEW c \in Cycles, NEW p \in Pulls, MarkReady(c, p)
  PROVE /\ p \in OpenPulls /\ past' = past
        /\ \E v \in OpenType : /\ InPlace(p, v) /\ v.labels = pull[p].labels
                               /\ v.semantic = pull[p].semantic /\ v.head = pull[p].head
<1>1. /\ PullTypes /\ p \in OpenPulls /\ pull[p] \in OpenType /\ past \in PastType
      /\ UNCHANGED <<issue, given, driver, past>>
  BY OpenIs, PastIs DEF RecordInv, MarkReady
<1> DEFINE v == [pull[p] EXCEPT !.draft = FALSE]
<1>2. /\ v \in OpenType /\ v.labels = pull[p].labels /\ v.semantic = pull[p].semantic
      /\ v.head = pull[p].head /\ v.checks = pull[p].checks
  BY <1>1 DEF OpenType
<1>3. pull' = [pull EXCEPT ![p] = v]
  BY DEF MarkReady
<1> HIDE DEF v
<1> QED BY <1>1, <1>2, <1>3 DEF InPlace

-----------------------------------------------------------------------------
(* Whatever fails: every step keeps types and record. *)

\* A stage ends, and the next one begins.
LEMMA EndsRecords ==
  ASSUME RecordInv, Untouched, driver' = driver, NEW c \in Cycles, NEW r \in [Pulls -> Routes], Ends(c, r)
  PROVE RecordInv'
<1>1. PullTypes /\ chain \in [Cycles -> ChainType] /\ task \in [Cycles -> [Pulls -> TaskType]]
  BY DEF RecordInv, PullTypes
<1>2. /\ Following(c, r) \in ChainType /\ Following(c, r).seen = [p \in Pulls |-> Unseen]
      /\ c = driver => Following(c, r).phase # "over"
  <2>1. CASE c # driver
    BY <1>1, <2>1, FollowingIs
  <2>2. CASE c = driver
    <3>1. PICK n \in DOMAIN ChainStages, t \in {r, NoRoute} : Following(c, r) = Entered(n, t)
      BY <1>1, <2>2, FollowingIs
    <3>2. t \in [Pulls -> Routes]
      BY Blanks
    <3>3. Entered(n, t).phase = "look" /\ Entered(n, t).seen = [p \in Pulls |-> Unseen]
      BY DEF Entered
    <3>4. Entered(n, t) \in ChainType
      BY <1>1, <3>2, EnteredIs
    <3> QED BY <3>1, <3>3, <3>4
  <2> QED BY <2>1, <2>2
<1>3. ChainType' = ChainType
  BY <1>1, StagesAre DEF Untouched
<1>4. /\ chain' = [chain EXCEPT ![c] = Following(c, r)] /\ task' = [task EXCEPT ![c] = NoTasks]
  BY DEF Ends
<1>5. /\ chain' \in [Cycles -> ChainType] /\ task' \in [Cycles -> [Pulls -> TaskType]] /\ chain'[driver].phase # "over"
      /\ \A b \in Cycles, p \in Pulls : chain'[b].seen[p] \in {chain[b].seen[p], Unseen}
      /\ \A b \in Cycles, p \in Pulls : task'[b][p] \in {task[b][p], NoTask}
  <2>1. chain' \in [Cycles -> ChainType] /\ task' \in [Cycles -> [Pulls -> TaskType]]
    BY <1>1, <1>2, <1>4, Blanks
  <2>2. chain'[driver].phase # "over"
    BY <1>1, <1>2, <1>4 DEF PullTypes
  <2>3. \A b \in Cycles, p \in Pulls : chain'[b].seen[p] \in {chain[b].seen[p], Unseen}
    BY <1>1, <1>2, <1>4
  <2>4. \A b \in Cycles, p \in Pulls : task'[b][p] \in {task[b][p], NoTask}
    BY <1>1, <1>4, Blanks
  <2> QED BY <2>1, <2>2, <2>3, <2>4
<1>6. PullTypes'
  BY <1>1, <1>3, <1>5 DEF PullTypes, Untouched
<1> QED BY <1>5, <1>6, UntouchedGoes, RecordKeeps DEF Untouched

\* A stage that ends keeps what is recorded, with whatever routes it goes on.
LEMMA EndingRecords ==
  ASSUME RecordInv, NEW c \in Cycles,
         CommandFails(c) \/ StageEnds(c) \/ Reconcile(c) \/ ReviewEnds(c) \/ FinalizeEnds(c)
           \/ \E p \in Pulls : GitHubRefuses(c, p)
  PROVE RecordInv'
<1>1. PullTypes /\ driver' = driver /\ pull' = pull /\ given' = given
  BY DEF RecordInv, CommandFails, StageEnds, Reconcile, ReviewEnds, FinalizeEnds, GitHubRefuses
<1>2. past' \in PastType /\ past'.approved = past.approved /\ past'.judged = past.judged
  <2>1. past' \in {past, Failed, [Failed EXCEPT !.merged = {}], [past EXCEPT !.merged = {}]}
    BY DEF CommandFails, StageEnds, Reconcile, ReviewEnds, FinalizeEnds, GitHubRefuses
  <2> QED BY <1>1, <2>1, PastIs
<1>3. issue' \in IssueType
  BY <1>1 DEF CommandFails, StageEnds, Reconcile, ReviewEnds, FinalizeEnds, GitHubRefuses, PullTypes, IssueType
<1>4. chain[c].route \in [Pulls -> Routes] /\ chain[c].next \in [Pulls -> Routes]
  BY <1>1 DEF PullTypes, ChainType
<1>5. Ends(c, chain[c].route) \/ Ends(c, chain[c].next)
  BY DEF CommandFails, StageEnds, Reconcile, ReviewEnds, FinalizeEnds, GitHubRefuses
<1> QED BY <1>1, <1>2, <1>3, <1>4, <1>5, EndsRecords DEF Untouched

\* A driver dies, or the host stops.
LEMMA DyingRecords == ASSUME RecordInv, ChainDies \/ HostStops PROVE RecordInv'
<1>1. PullTypes /\ chain \in [Cycles -> ChainType] /\ task \in [Cycles -> [Pulls -> TaskType]] /\ driver \in Cycles
  BY DEF RecordInv, PullTypes
<1>2. Untouched
  <2>1. past' = [Failed EXCEPT !.merged = {}]
    BY DEF ChainDies, HostStops
  <2> QED BY <1>1, <2>1, PastIs DEF Untouched, ChainDies, HostStops, PullTypes
<1>3. ChainType' = ChainType
  BY <1>1, <1>2, StagesAre DEF Untouched
<1>4. NoRoute \in [Pulls -> Routes]
  BY Blanks
<1>5. /\ chain' \in [Cycles -> ChainType] /\ task' \in [Cycles -> [Pulls -> TaskType]]
      /\ driver' \in Cycles /\ chain'[driver'].phase # "over"
      /\ \A b \in Cycles, p \in Pulls : chain'[b].seen[p] \in {chain[b].seen[p], Unseen}
      /\ \A b \in Cycles, p \in Pulls : task'[b][p] \in {task[b][p], NoTask}
  <2>1. CASE HostStops
    <3>1. /\ chain' = [c \in Cycles |-> IF c = driver THEN FirstStage ELSE NoStage] /\ driver' = driver
          /\ task' = [c \in Cycles |-> NoTasks]
      BY <2>1 DEF HostStops
    <3> QED BY <1>1, <1>4, <3>1, FollowingIs, Blanks
  <2>2. CASE ChainDies
    <3>1. PICK next \in Cycles \ {driver}, unstarted \in SUBSET chain[driver].todo :
             /\ driver' = next /\ task' = task
             /\ chain' = [chain EXCEPT ![driver].todo = @ \ unstarted, ![driver].route = NoRoute,
                                       ![driver].next = NoRoute, ![next] = FirstStage]
      BY <2>2 DEF ChainDies
    <3> DEFINE left == [chain[driver] EXCEPT !.todo = @ \ unstarted, !.route = NoRoute, !.next = NoRoute]
    <3>2. chain[driver] \in ChainType
      BY <1>1
    <3>3. left \in ChainType /\ left.seen = chain[driver].seen
      BY <1>4, <3>2 DEF ChainType
    <3>4. /\ chain'[next] = FirstStage /\ chain'[driver] = left
          /\ \A b \in Cycles \ {next, driver} : chain'[b] = chain[b]
      BY <1>1, <3>1
    <3>5. chain' \in [Cycles -> ChainType]
      <4>1. DOMAIN chain' = Cycles /\ chain' = [b \in Cycles |-> chain'[b]]
        BY <1>1, <3>1
      <4> HIDE DEF left
      <4> QED BY <1>1, <1>4, <3>3, <3>4, <4>1, FollowingIs
    <3> HIDE DEF left
    <3> QED BY <1>1, <1>4, <3>1, <3>3, <3>4, <3>5, FollowingIs
  <2> QED BY <2>1, <2>2
<1>6. PullTypes'
  BY <1>1, <1>2, <1>3, <1>5 DEF PullTypes, Untouched
<1> QED BY <1>2, <1>5, <1>6, UntouchedGoes, RecordKeeps DEF Untouched

\* A command ends without a trace.
LEMMA FinishedRecords ==
  ASSUME RecordInv, Untouched, driver' = driver, NEW c \in Cycles, NEW p \in Pulls, Finished(c, p)
  PROVE RecordInv'
<1>1. PullTypes /\ given' = given
  BY DEF RecordInv, Untouched
<1>2. PullTypes'
  BY <1>1, FinishedIs DEF PullTypes, Untouched
<1>3. \A b \in Cycles, q \in Pulls : chain'[b].seen[q] = chain[b].seen[q] /\ task'[b][q] \in {task[b][q], NoTask}
  BY <1>1, FinishedIs
<1> QED BY <1>2, <1>3, UntouchedGoes, RecordKeeps DEF Untouched

\* A pull request changes in place, and a command of it may end with that.
LEMMA InPlaceRecords ==
  ASSUME RecordInv, NEW c \in Cycles, NEW p \in OpenPulls, NEW v \in OpenType, InPlace(p, v),
         UNCHANGED <<chain, task>> \/ Finished(c, p)
  PROVE RecordInv'
<1>1. PullTypes /\ given' = given /\ driver' = driver /\ p \in Pulls
  BY InPlaceIs DEF RecordInv, InPlace
<1>2. ChainType' = ChainType
  BY <1>1, StagesAre
<1>3. /\ chain' \in [Cycles -> ChainType] /\ task' \in [Cycles -> [Pulls -> TaskType]] /\ chain'[driver].phase # "over"
      /\ \A b \in Cycles, q \in Pulls : chain'[b].seen[q] = chain[b].seen[q] /\ task'[b][q] \in {task[b][q], NoTask}
  <2>1. CASE UNCHANGED <<chain, task>>
    BY <1>1, <2>1 DEF PullTypes
  <2>2. CASE Finished(c, p)
    BY <1>1, <1>2, <2>2, FinishedIs
  <2> QED BY <2>1, <2>2
<1>4. PullTypes'
  BY <1>1, <1>2, <1>3, InPlaceIs DEF PullTypes, InPlace
<1> QED BY <1>1, <1>3, <1>4, InPlaceIs, RecordKeeps

\* The verdict becomes the label.
LEMMA ApplyRecords == ASSUME RecordInv, NEW c \in Cycles, NEW p \in Pulls, Apply(c, p) PROVE RecordInv'
<1>1. /\ PullTypes /\ given' = given /\ driver' = driver /\ UNCHANGED <<issue, task>>
      /\ chain' = [chain EXCEPT ![c].todo = @ \ {p}, ![c].verdict[p] = "none", ![c].had[p] = {}]
  BY DEF RecordInv, Apply
<1>2. chain \in [Cycles -> ChainType] /\ ChainType' = ChainType
  BY <1>1, StagesAre DEF PullTypes
<1>3. /\ chain' \in [Cycles -> ChainType]
      /\ \A b \in Cycles : chain'[b].seen = chain[b].seen /\ chain'[b].phase = chain[b].phase
  <2> DEFINE e == [chain[c] EXCEPT !.todo = @ \ {p}, !.verdict[p] = "none", !.had[p] = {}]
  <2>1. chain[c] \in ChainType
    BY <1>2
  <2>2. e \in ChainType /\ e.seen = chain[c].seen /\ e.phase = chain[c].phase
    BY <2>1 DEF ChainType, Verdicts
  <2>3. chain' = [chain EXCEPT ![c] = e]
    BY <1>1
  <2> HIDE DEF e
  <2> QED BY <1>2, <2>2, <2>3
<1>4. pull' \in [Pulls -> PullType] /\ past' \in PastType /\ \A q \in Pulls : Goes(q) /\ (q \in past'.approved => q \in past.approved)
  <2>1. CASE Open(p)
    <3>1. PICK v \in OpenType : InPlace(p, v)
      BY <2>1, AppliedIs
    <3>2. p \in OpenPulls
      BY <2>1 DEF OpenPulls
    <3> QED BY <3>1, <3>2, InPlaceIs DEF InPlace
  <2>2. CASE ~Open(p)
    <3>1. pull' = pull /\ past' = past
      BY <2>2 DEF Apply
    <3>2. Untouched
      BY <1>1, <3>1 DEF Untouched, PullTypes
    <3> QED BY <1>1, <3>1, <3>2, UntouchedGoes DEF PullTypes
  <2> QED BY <2>1, <2>2
<1>5. PullTypes'
  BY <1>1, <1>2, <1>3, <1>4 DEF PullTypes
<1> QED BY <1>1, <1>3, <1>4, <1>5, RecordKeeps

\* A draft has nothing yet.
LEMMA PublishRecords == ASSUME RecordInv, NEW c \in Cycles, NEW p \in Pulls, Publish(c, p) PROVE RecordInv'
<1>1. /\ PullTypes /\ UNCHANGED <<given, driver, chain, task, past>>
      /\ pull' = [pull EXCEPT ![p] = Draft(p)] /\ pull[p].state = "unopened"
      /\ issue' = [issue EXCEPT ![given.link[p]] = "pr-open"]
  BY DEF RecordInv, Publish
<1>2. Draft(p) \in OpenType
  <2>1. Fresh(p) \in Checks /\ 1 \in 1..MaxHead
    BY PullsAssumption DEF Fresh, Checks
  <2> QED BY <2>1 DEF Draft, OpenType
<1>3. pull[p] = Unopened /\ ~Open(p)
  BY <1>1 DEF PullTypes, PullType, OpenType, Merged, Open
<1>4. \A q \in Pulls : Goes(q)
  <2> SUFFICES ASSUME NEW q \in Pulls PROVE Goes(q)
    OBVIOUS
  <2>1. Recorded(q)
    BY DEF RecordInv
  <2>2. pull'[q] = IF q = p THEN Draft(p) ELSE pull[q]
    BY <1>1 DEF PullTypes
  <2>3. CASE q = p
    BY <1>1, <1>3, <2>1, <2>2, <2>3 DEF Goes, Begins, Unrecorded, Recorded
  <2>4. CASE q # p
    BY <1>1, <2>1, <2>2, <2>4 DEF Goes, Keeps, Recorded, Open
  <2> QED BY <2>3, <2>4
<1>5. PullTypes'
  <2>1. ChainType' = ChainType
    BY <1>1, StagesAre
  <2>2. pull' \in [Pulls -> PullType] /\ issue' \in IssueType
    BY <1>1, <1>2 DEF PullTypes, PullType, IssueType
  <2> QED BY <1>1, <2>1, <2>2 DEF PullTypes
<1> QED BY <1>1, <1>4, <1>5, RecordKeeps

\* A command reads a pull request as it is.
LEMMA InspectRecords == ASSUME RecordInv, NEW c \in Cycles, NEW p \in Pulls, Inspect(c, p) PROVE RecordInv'
<1>1. /\ PullTypes /\ UNCHANGED <<pull, issue, given, driver, task, past>>
      /\ chain' = [chain EXCEPT ![c].seen[p] = pull[p], ![c].todo = @ \ {p}]
  BY DEF RecordInv, Inspect
<1>2. chain \in [Cycles -> ChainType] /\ ChainType' = ChainType /\ pull[p] \in PullType
  BY <1>1, StagesAre DEF PullTypes
<1>3. /\ chain' \in [Cycles -> ChainType] /\ \A b \in Cycles : chain'[b].phase = chain[b].phase
      /\ \A b \in Cycles, q \in Pulls : chain'[b].seen[q] = IF b = c /\ q = p THEN pull[p] ELSE chain[b].seen[q]
  <2> DEFINE e == [chain[c] EXCEPT !.seen[p] = pull[p], !.todo = @ \ {p}]
  <2>1. chain[c] \in ChainType
    BY <1>2
  <2>2. /\ e \in ChainType /\ e.phase = chain[c].phase
        /\ \A q \in Pulls : e.seen[q] = IF q = p THEN pull[p] ELSE chain[c].seen[q]
    BY <1>2, <2>1 DEF ChainType
  <2>3. chain' = [chain EXCEPT ![c] = e]
    BY <1>1
  <2> HIDE DEF e
  <2> QED BY <1>2, <2>2, <2>3
<1>4. PullTypes'
  BY <1>1, <1>2, <1>3 DEF PullTypes
<1>5. ASSUME NEW q \in Pulls PROVE Recorded(q)' /\ \A b \in Cycles : SeenWell(b, q)' /\ WorksWell(b, q)'
  <2>1. Recorded(q) /\ Recorded(q)'
    BY <1>1 DEF RecordInv, Recorded, Open
  <2>2. ASSUME NEW b \in Cycles PROVE WorksWell(b, q)'
    <3>1. WorksWell(b, q)
      BY DEF RecordInv
    <3> QED BY <1>1, <3>1 DEF WorksWell, Open
  <2>3. ASSUME NEW b \in Cycles PROVE SeenWell(b, q)'
    <3>1. CASE chain'[b].seen[q] = chain[b].seen[q]
      <4>1. SeenWell(b, q)
        BY DEF RecordInv
      <4> QED BY <1>1, <3>1, <4>1 DEF SeenWell, Open
    <3>2. CASE b = c /\ q = p
      <4>1. chain'[b].seen[q] = pull[q]
        BY <1>3, <3>2
      <4>2. pull[q].state = "open" => pull[q].head <= pull[q].head
        <5>1. pull[q].state = "open" => pull[q].head \in Nat
          BY <1>1, OpenIs, PullsAssumption DEF Open, OpenType
        <5> QED BY <5>1
      <4> QED BY <1>1, <2>1, <4>1, <4>2 DEF SeenWell, Recorded, Open
    <3> QED BY <1>3, <3>1, <3>2
  <2> QED BY <2>1, <2>2, <2>3
<1> QED BY <1>4, <1>5 DEF RecordInv

\* A command notes the head it works on, and fetches the files there are; the
\* finalizer reads a pull request once more.
LEMMA ViewRecords ==
  ASSUME RecordInv, NEW c \in Cycles, NEW p \in Pulls, View(c, p) \/ Fetch(c, p) \/ (ReadAgain(c, p) /\ ~Finished(c, p))
  PROVE RecordInv'
<1>1. PullTypes /\ UNCHANGED <<pull, issue, given, driver, chain>> /\ task[c][p] \in TaskType /\ WorksWell(c, p) /\ Recorded(p)
  BY DEF RecordInv, PullTypes, View, Fetch, ReadAgain
<1>2. /\ past' \in PastType /\ past'.approved = past.approved /\ past'.judged = past.judged
      /\ past'.merged = past.merged /\ past'.failures = past.failures
  <2>1. past \in PastType
    BY <1>1, PastIs
  <2>2. past' \in {past, [past EXCEPT !.tried = @ \cup {p}]}
    BY DEF View, Fetch, ReadAgain
  <2> QED BY <2>1, <2>2 DEF PastType
<1>3. Open(p) => /\ pull[p].head \in Nat /\ pull[p].head \in 0..MaxHead /\ pull[p].head <= pull[p].head
                 /\ 0 <= pull[p].head /\ pull[p].state = "open"
  BY <1>1, OpenIs, PullsAssumption DEF Open, OpenType
<1>4. PICK t \in TaskType :
        /\ task' = [task EXCEPT ![c][p] = t]
        /\ t.pc # "fetched" => t.read = 0
        /\ t.pc = "fetched" => t.head <= t.read
        /\ t.pc \in {"viewed", "fetched"} => Open(p) /\ t.head <= pull[p].head /\ t.read <= pull[p].head
        /\ t.pc = "checked" => p \in given.checked
  <2>1. CASE View(c, p)
    <3>1. [pc |-> "viewed", head |-> pull[p].head, read |-> 0] \in TaskType
      BY <1>3, <2>1, PullsAssumption DEF View, TaskType
    <3> QED BY <1>3, <2>1, <3>1 DEF View
  <2>2. CASE Fetch(c, p)
    <3> DEFINE t == [task[c][p] EXCEPT !.pc = "fetched", !.read = pull[p].head]
    <3>1. t \in TaskType /\ t.pc = "fetched" /\ t.head = task[c][p].head /\ t.read = pull[p].head
      BY <1>1, <1>3, <2>2 DEF Fetch, TaskType
    <3>2. Open(p) /\ task[c][p].head <= pull[p].head /\ task' = [task EXCEPT ![c][p] = t]
      BY <1>1, <2>2 DEF Fetch, WorksWell
    <3> HIDE DEF t
    <3> QED BY <1>3, <3>1, <3>2
  <2>3. CASE ReadAgain(c, p) /\ ~Finished(c, p)
    <3> DEFINE t == [task[c][p] EXCEPT !.pc = "checked"]
    <3>1. t \in TaskType /\ t.pc = "checked" /\ t.read = task[c][p].read
      BY <1>1 DEF TaskType
    <3>2. task[c][p].read = 0
      BY <1>1, <2>3 DEF ReadAgain, WorksWell
    <3>3. Decided(pull[p]) \in {"merge", "ready_then_merge"} /\ task' = [task EXCEPT ![c][p] = t]
      BY <2>3 DEF ReadAgain
    <3>4. Open(p) /\ pull[p].checks = "passed"
      BY <3>3 DEF Decided, Open
    <3>5. p \in given.checked
      BY <1>1, <3>4 DEF Recorded
    <3> HIDE DEF t
    <3> QED BY <3>1, <3>2, <3>3, <3>5
  <2> QED BY <2>1, <2>2, <2>3
<1>5. /\ task' \in [Cycles -> [Pulls -> TaskType]]
      /\ \A b \in Cycles, q \in Pulls : task'[b][q] = IF b = c /\ q = p THEN t ELSE task[b][q]
  BY <1>1, <1>4 DEF PullTypes
<1>6. Untouched
  BY <1>1, <1>2 DEF Untouched, PullTypes
<1>7. PullTypes'
  <2>1. ChainType' = ChainType
    BY <1>1, StagesAre
  <2> QED BY <1>1, <1>2, <1>5, <2>1 DEF PullTypes
<1>8. WorksWell(c, p)'
  <2>1. task'[c][p] = t /\ (t.pc \in {"viewed", "fetched"} => pull[p].state # "unopened")
    BY <1>3, <1>4, <1>5
  <2> QED BY <1>1, <1>4, <2>1 DEF WorksWell, Open
<1> QED BY <1>1, <1>2, <1>5, <1>6, <1>7, <1>8, UntouchedGoes, RecordKeeps

\* A review gives a pull request a label, and the label a route; only what lacks
\* evidence is sent to a semantic review, and only what has it is approved.
LEMMA VerdictOf ==
  ASSUME PullTypes, NEW c \in Cycles, NEW p \in Viewed(c)
  PROVE LET v == chain[c].seen[p]
        IN  /\ Classified(c, p) \in Verdicts /\ Frontier(c, p) \in Verdicts
            /\ Frontier(c, p) = "approved" => Classified(c, p) = "approved"
            /\ Classified(c, p) = "approved" => v.semantic = "passed" /\ v.state = "open" /\ v.checks \in {"none", "passed"}
            /\ RouteOf(v, Frontier(c, p)) \in Routes
            /\ v.state = "open" /\ v.semantic = "passed" => RouteOf(v, Frontier(c, p)) # "semantic-review"
<1> DEFINE saw == chain[c].seen[p]
           labels == {"approved", "superseded", "needs-repair", "human-action", "checks-pending",
                      "local-required", "semantic-required"}
<1>1. saw.state = "open" => saw \in OpenType
  BY ViewedIs DEF Viewed
<1>2. Basic(saw) \in {"needs-repair", "human-action", "checks-pending", "local-required", "approved"}
  BY DEF Basic
<1>3. Basic(saw) = "approved" => saw.state = "open" /\ saw.checks \in {"none", "passed"} /\ saw \in OpenType
  <2>1. Basic(saw) = "approved" => saw.state = "open" /\ saw.checks \notin {"failed", "infra", "pending"}
    BY DEF Basic
  <2> QED BY <1>1, <2>1 DEF OpenType, Checks
<1>4. /\ Classified(c, p) \in labels
      /\ Classified(c, p) = "approved" => saw.semantic = "passed" /\ Basic(saw) = "approved"
      /\ Classified(c, p) = "semantic-required" => saw.semantic # "passed"
  <2>1. CASE Basic(saw) = "approved"
    <3>1. saw.semantic \in {"missing", "passed", "failed"}
      BY <1>3, <2>1 DEF OpenType
    <3> QED BY <2>1, <3>1 DEF Classified
  <2>2. CASE Basic(saw) # "approved"
    BY <1>2, <2>2 DEF Classified
  <2> QED BY <2>1, <2>2
<1>5. Frontier(c, p) \in {"overlap-queued", Classified(c, p)}
  BY DEF Frontier
<1> HIDE DEF saw
<1>6. /\ RouteOf(saw, Frontier(c, p)) \in Routes
      /\ RouteOf(saw, Frontier(c, p)) = "semantic-review" => Frontier(c, p) = "semantic-required"
  BY <1>4, <1>5 DEF RouteOf, Routes
<1> QED BY <1>3, <1>4, <1>5, <1>6 DEF Verdicts, saw

\* Of two that overlap the frontier approves one at most.
LEMMA FrontierIsApart ==
  ASSUME PullTypes, NEW c \in Cycles, NEW p \in Viewed(c), NEW q \in Viewed(c), Overlap(p, q),
         Frontier(c, p) = "approved"
  PROVE Frontier(c, q) # "approved"
<1>1. ASSUME NEW r \in Viewed(c), NEW s \in Viewed(c), Overlap(r, s),
             Frontier(c, r) = "approved", Classified(c, s) = "approved"
      PROVE r <= s
  <2> DEFINE candidates == {t \in Component(r, Viewed(c)) : Classified(c, t) = "approved"}
  <2>1. Classified(c, r) = "approved"
    BY <1>1, VerdictOf
  <2>2. r \in Component(r, Viewed(c)) /\ s \in Component(r, Viewed(c))
    BY <1>1 DEF Component
  <2>3. r \in candidates /\ s \in candidates
    BY <1>1, <2>1, <2>2
  <2>4. candidates \in SUBSET Pulls
    BY DEF Component, Viewed
  <2>5. r = FirstOf(candidates)
    BY <1>1, <2>1, <2>3 DEF Frontier
  <2> HIDE DEF candidates
  <2> QED BY <2>3, <2>4, <2>5, FirstIsFirst
<1>2. SUFFICES ASSUME Frontier(c, q) = "approved" PROVE FALSE
  OBVIOUS
<1>3. Classified(c, p) = "approved" /\ Classified(c, q) = "approved"
  BY <1>2, VerdictOf
<1>4. Overlap(q, p) /\ p # q
  <2>1. {p, q} = {q, p}
    OBVIOUS
  <2> QED BY <2>1 DEF Overlap
<1>5. p <= q /\ q <= p
  BY <1>1, <1>2, <1>3, <1>4
<1> QED BY <1>4, <1>5, PullsAssumption DEF Viewed

\* A review judges what it read.
LEMMA ClassifiedIs ==
  ASSUME PullTypes, NEW c \in Cycles, Classify(c)
  PROVE /\ chain' \in [Cycles -> ChainType] /\ \A b \in Cycles \ {c} : chain'[b] = chain[b]
        /\ chain'[c].phase = "apply" /\ chain'[c].todo = Viewed(c) /\ chain'[c].seen = [p \in Pulls |-> Unseen]
        /\ chain'[c].stage = chain[c].stage /\ chain'[c].route = chain[c].route
        /\ \A p \in Viewed(c) :
             LET v == chain[c].seen[p]
             IN  /\ p \in Pulls /\ chain'[c].verdict[p] = Frontier(c, p)
                 /\ c = driver => chain'[c].next[p] = RouteOf(v, Frontier(c, p))
                 /\ v.state = "open" => chain'[c].had[p] = v.labels \cap ReviewLabels
        /\ past' \in PastType /\ past'.failures = past.failures /\ past'.merged = past.merged
        /\ past'.judged = past.judged
        /\ past'.approved = past.approved \cup
             {p \in Viewed(c) : Frontier(c, p) = "approved" /\ Open(p) /\ pull[p].head = chain[c].seen[p].head}
<1> DEFINE verdict == [p \in Pulls |-> IF p \in Viewed(c) THEN Frontier(c, p) ELSE "none"]
           had == [p \in Pulls |-> IF p \in Viewed(c) /\ chain[c].seen[p].state = "open"
                                   THEN chain[c].seen[p].labels \cap ReviewLabels ELSE {}]
           next == [p \in Pulls |-> IF p \in Viewed(c) /\ c = driver
                                    THEN RouteOf(chain[c].seen[p], verdict[p]) ELSE "none"]
           unseen == [p \in Pulls |-> Unseen]
           new == {p \in Viewed(c) : verdict[p] = "approved" /\ Open(p) /\ pull[p].head = chain[c].seen[p].head}
<1>1. /\ chain' = [chain EXCEPT ![c].verdict = verdict, ![c].phase = "apply", ![c].todo = Viewed(c),
                     ![c].seen = unseen, ![c].had = had, ![c].next = next]
      /\ past' = [past EXCEPT !.approved = @ \cup new]
  BY DEF Classify
<1>2. /\ Viewed(c) \in SUBSET Pulls /\ unseen \in [Pulls -> PullType \cup {Unseen}]
      /\ chain \in [Cycles -> ChainType] /\ chain[c] \in ChainType /\ past \in PastType
  BY Blanks DEF Viewed, PullTypes
<1>3. \A p \in Viewed(c) : /\ p \in Pulls /\ verdict[p] = Frontier(c, p) /\ Frontier(c, p) \in Verdicts
                           /\ RouteOf(chain[c].seen[p], Frontier(c, p)) \in Routes
  BY <1>2, VerdictOf
<1>4. verdict \in [Pulls -> Verdicts] /\ next \in [Pulls -> Routes] /\ had \in [Pulls -> SUBSET ReviewLabels]
  BY <1>3 DEF Verdicts, Routes
<1>5. new = {p \in Viewed(c) : Frontier(c, p) = "approved" /\ Open(p) /\ pull[p].head = chain[c].seen[p].head}
  BY <1>3
<1>6. \A p \in Viewed(c) : /\ c = driver => next[p] = RouteOf(chain[c].seen[p], Frontier(c, p))
                           /\ chain[c].seen[p].state = "open" => had[p] = chain[c].seen[p].labels \cap ReviewLabels
  BY <1>2, <1>3
<1>7. new \in SUBSET Pulls
  BY <1>2
<1> HIDE DEF verdict, next, had, unseen, new
<1> DEFINE e == [chain[c] EXCEPT !.verdict = verdict, !.phase = "apply", !.todo = Viewed(c),
                                 !.seen = unseen, !.had = had, !.next = next]
<1>8. /\ e \in ChainType /\ e.phase = "apply" /\ e.todo = Viewed(c) /\ e.seen = unseen
      /\ e.stage = chain[c].stage /\ e.route = chain[c].route /\ e.verdict = verdict /\ e.next = next /\ e.had = had
  BY <1>2, <1>4 DEF ChainType
<1>9. chain' = [chain EXCEPT ![c] = e]
  BY <1>1
<1> HIDE DEF e
<1>10. chain' \in [Cycles -> ChainType] /\ chain'[c] = e /\ \A b \in Cycles \ {c} : chain'[b] = chain[b]
  BY <1>2, <1>8, <1>9
<1>11. /\ past' \in PastType /\ past'.failures = past.failures /\ past'.merged = past.merged
       /\ past'.judged = past.judged /\ past'.approved = past.approved \cup new
  BY <1>1, <1>2, <1>7 DEF PastType
<1>12. chain'[c].seen = [p \in Pulls |-> Unseen]
  BY <1>8, <1>10 DEF unseen
<1>13. \A p \in Viewed(c) :
             LET v == chain[c].seen[p]
             IN  /\ p \in Pulls /\ chain'[c].verdict[p] = Frontier(c, p)
                 /\ c = driver => chain'[c].next[p] = RouteOf(v, Frontier(c, p))
                 /\ v.state = "open" => chain'[c].had[p] = v.labels \cap ReviewLabels
  BY <1>3, <1>6, <1>8, <1>10
<1> QED BY <1>5, <1>8, <1>10, <1>11, <1>12, <1>13

\* What it approves it has read as judged good, with its checks passed.
LEMMA ClassifyRecords == ASSUME RecordInv, NEW c \in Cycles, Classify(c) PROVE RecordInv'
<1>1. PullTypes /\ UNCHANGED <<pull, issue, given, driver, task>>
  BY DEF RecordInv, Classify
<1>2. PullTypes'
  <2>1. ChainType' = ChainType
    BY <1>1, StagesAre
  <2>2. chain'[driver].phase # "over"
    BY <1>1, ClassifiedIs DEF PullTypes
  <2> QED BY <1>1, <2>1, <2>2, ClassifiedIs DEF PullTypes
<1>3. ASSUME NEW p \in Pulls PROVE Recorded(p)'
  <2>1. Recorded(p) /\ SeenWell(c, p)
    BY DEF RecordInv
  <2>2. past'.judged = past.judged
    BY <1>1, ClassifiedIs
  <2>3. CASE p \in past'.approved <=> p \in past.approved
    BY <1>1, <2>1, <2>2, <2>3 DEF Recorded, Open
  <2>4. CASE p \in past'.approved /\ p \notin past.approved
    <3>1. p \in Viewed(c) /\ Frontier(c, p) = "approved" /\ Open(p) /\ pull[p].head = chain[c].seen[p].head
      BY <1>1, <2>4, ClassifiedIs
    <3>2. /\ chain[c].seen[p].semantic = "passed" /\ chain[c].seen[p].state = "open"
          /\ chain[c].seen[p].checks \in {"none", "passed"}
      BY <1>1, <3>1, VerdictOf
    <3>3. p \in past.judged /\ (p \in given.checked => pull[p].checks = "passed")
      BY <2>1, <3>1, <3>2 DEF SeenWell
    <3> QED BY <1>1, <2>1, <2>2, <3>3 DEF Recorded, Open
  <2> QED BY <1>1, <2>3, <2>4, ClassifiedIs
<1>4. ASSUME NEW p \in Pulls, NEW b \in Cycles PROVE SeenWell(b, p)' /\ WorksWell(b, p)'
  <2>1. SeenWell(b, p) /\ WorksWell(b, p) /\ past'.judged = past.judged
    BY <1>1, ClassifiedIs DEF RecordInv
  <2>2. chain'[b].seen[p] \in {chain[b].seen[p], Unseen}
    BY <1>1, ClassifiedIs
  <2>3. SeenWell(b, p)'
    BY <1>1, <2>1, <2>2 DEF SeenWell, Open, Unseen
  <2>4. WorksWell(b, p)'
    BY <1>1, <2>1 DEF WorksWell, Open
  <2> QED BY <2>3, <2>4
<1> QED BY <1>2, <1>3, <1>4 DEF RecordInv

\* The finalizer decides what it may do.
LEMMA PlannedIs ==
  ASSUME PullTypes, NEW c \in Cycles, Plan(c)
  PROVE /\ chain' \in [Cycles -> ChainType] /\ \A b \in Cycles \ {c} : chain'[b] = chain[b]
        /\ chain'[c].phase = "act" /\ chain'[c].seen = [p \in Pulls |-> Unseen]
        /\ chain'[c].stage = chain[c].stage /\ chain'[c].route = chain[c].route
        /\ \A p \in chain'[c].todo : p \in Viewed(c) /\ "approved" \in chain[c].seen[p].labels
<1> DEFINE verdict == [p \in Pulls |-> IF p \in Viewed(c) /\ ~Duplicate(c, p)
                                       THEN Decided(chain[c].seen[p]) ELSE "blocked"]
           unseen == [p \in Pulls |-> Unseen]
           taken == {p \in Viewed(c) : verdict[p] # "blocked"}
<1>1. chain' = [chain EXCEPT ![c].phase = "act", ![c].verdict = verdict, ![c].seen = unseen, ![c].todo = taken]
  BY DEF Plan
<1>2. /\ Viewed(c) \in SUBSET Pulls /\ unseen \in [Pulls -> PullType \cup {Unseen}]
      /\ chain \in [Cycles -> ChainType] /\ chain[c] \in ChainType
  BY Blanks DEF Viewed, PullTypes
<1>3. verdict \in [Pulls -> Verdicts]
  BY DEF Decided, Verdicts
<1>4. ASSUME NEW p \in taken PROVE p \in Viewed(c) /\ "approved" \in chain[c].seen[p].labels
  <2>1. p \in Viewed(c) /\ p \in Pulls /\ Decided(chain[c].seen[p]) # "blocked"
    BY <1>2, <1>4
  <2> QED BY <2>1 DEF Decided
<1>5. taken \in SUBSET Pulls
  BY <1>2
<1> HIDE DEF verdict, unseen, taken
<1> DEFINE e == [chain[c] EXCEPT !.phase = "act", !.verdict = verdict, !.seen = unseen, !.todo = taken]
<1>6. /\ e \in ChainType /\ e.phase = "act" /\ e.todo = taken /\ e.seen = unseen
      /\ e.stage = chain[c].stage /\ e.route = chain[c].route
  BY <1>2, <1>3, <1>5 DEF ChainType
<1>7. chain' = [chain EXCEPT ![c] = e]
  BY <1>1
<1> HIDE DEF e
<1>8. chain' \in [Cycles -> ChainType] /\ chain'[c] = e /\ \A b \in Cycles \ {c} : chain'[b] = chain[b]
  BY <1>2, <1>6, <1>7
<1> QED BY <1>4, <1>6, <1>8 DEF unseen

\* The finalizer plans from what it read, and keeps nothing it read.
LEMMA PlanRecords == ASSUME RecordInv, NEW c \in Cycles, Plan(c) PROVE RecordInv'
<1>1. PullTypes /\ UNCHANGED <<pull, issue, given, driver, task, past>>
  BY DEF RecordInv, Plan
<1>2. Untouched
  BY <1>1 DEF Untouched, PullTypes
<1>3. PullTypes'
  <2>1. ChainType' = ChainType
    BY <1>1, StagesAre
  <2>2. chain'[driver].phase # "over"
    BY <1>1, PlannedIs DEF PullTypes
  <2> QED BY <1>1, <2>1, <2>2, PlannedIs DEF PullTypes
<1>4. \A b \in Cycles, p \in Pulls : chain'[b].seen[p] \in {chain[b].seen[p], Unseen}
  BY <1>1, PlannedIs
<1> QED BY <1>1, <1>2, <1>3, <1>4, UntouchedGoes, RecordKeeps

\* A draft becomes ready, and the finalizer goes on with it or leaves it.
LEMMA ReadyRecords == ASSUME RecordInv, NEW c \in Cycles, NEW p \in Pulls, MarkReady(c, p) PROVE RecordInv'
<1>1. p \in OpenPulls /\ PullTypes /\ UNCHANGED <<issue, given, driver, past>>
  BY ReadyIs DEF RecordInv, MarkReady
<1>2. PICK v \in OpenType : InPlace(p, v)
  BY ReadyIs
<1>3. CASE Finished(c, p)
  BY <1>1, <1>2, <1>3, InPlaceRecords
<1>4. CASE chain' = chain /\ task' = [task EXCEPT ![c][p].pc = "ready"]
  <2> DEFINE t == [task[c][p] EXCEPT !.pc = "ready"]
  <2>1. task[c][p] \in TaskType /\ WorksWell(c, p) /\ task[c][p].pc = "none"
    BY DEF RecordInv, PullTypes, MarkReady
  <2>2. t \in TaskType /\ t.pc = "ready" /\ t.read = 0
    BY <2>1 DEF TaskType, WorksWell
  <2>3. task' = [task EXCEPT ![c][p] = t]
    BY <1>4
  <2> HIDE DEF t
  <2>4. /\ task' \in [Cycles -> [Pulls -> TaskType]]
        /\ \A b \in Cycles, q \in Pulls : task'[b][q] = IF b = c /\ q = p THEN t ELSE task[b][q]
    BY <1>1, <2>2, <2>3 DEF PullTypes
  <2>5. WorksWell(c, p)'
    BY <1>1, <2>2, <2>4 DEF WorksWell
  <2>6. PullTypes'
    <3>1. ChainType' = ChainType
      BY <1>1, StagesAre
    <3> QED BY <1>1, <1>2, <1>4, <2>4, <3>1, InPlaceIs DEF PullTypes
  <2> QED BY <1>1, <1>2, <1>4, <2>4, <2>5, <2>6, InPlaceIs, RecordKeeps
<1> QED BY <1>3, <1>4 DEF MarkReady

\* GitHub merges an open pull request; what overlaps it may conflict from then on.
LEMMA MergedIs ==
  ASSUME RecordInv, NEW c \in Cycles, NEW p \in Pulls, Merge(c, p), Open(p)
  PROVE /\ pull' \in [Pulls -> PullType] /\ pull'[p] = Merged /\ OpenPulls' = OpenPulls \ {p}
        /\ \A q \in OpenPulls \ {p} : /\ pull'[q].labels = pull[q].labels /\ pull'[q].semantic = pull[q].semantic
                                      /\ pull'[q].state = "open"
        /\ \A q \in Pulls : Goes(q) /\ (q \in past'.approved => q \in past.approved)
        /\ past' \in PastType /\ past'.merged = past.merged \cup {p} /\ past'.failures = past.failures
        /\ past'.approved = past.approved \ {p}
<1>1. PullTypes /\ past \in PastType
  BY PastIs DEF RecordInv
<1>2. /\ past' = [Cleared(past, p) EXCEPT !.merged = @ \cup {p}, !.tried = @ \ {p}]
      /\ \E conflicting \in SUBSET {q \in OpenPulls : Overlap(p, q)} :
            pull' = [q \in Pulls |-> CASE q = p -> Merged
                                       [] q \in conflicting -> [pull[q] EXCEPT !.clean = FALSE]
                                       [] OTHER -> pull[q]]
  BY DEF Merge
<1>3. PICK conflicting \in SUBSET {q \in OpenPulls : Overlap(p, q)} :
        pull' = [q \in Pulls |-> CASE q = p -> Merged
                                   [] q \in conflicting -> [pull[q] EXCEPT !.clean = FALSE]
                                   [] OTHER -> pull[q]]
  BY <1>2
<1>4. p \notin conflicting
  BY <1>3 DEF Overlap
<1>5. /\ pull'[p] = Merged
      /\ \A q \in Pulls \ {p} : pull'[q] = IF q \in conflicting THEN [pull[q] EXCEPT !.clean = FALSE] ELSE pull[q]
  BY <1>3, <1>4
<1>6. \A q \in OpenPulls \ {p} : /\ q \in Pulls /\ pull'[q] \in OpenType /\ pull'[q].labels = pull[q].labels
                                 /\ pull'[q].semantic = pull[q].semantic /\ pull'[q].state = "open"
                                 /\ pull'[q].head = pull[q].head /\ pull'[q].checks = pull[q].checks
  <2> TAKE q \in OpenPulls \ {p}
  <2>1. q \in Pulls /\ pull[q] \in OpenType
    BY <1>1, OpenIs DEF OpenPulls
  <2>2. [pull[q] EXCEPT !.clean = FALSE] \in OpenType
    BY <2>1 DEF OpenType
  <2> QED BY <1>5, <2>1, <2>2 DEF OpenType
<1>7. \A q \in Pulls \ OpenPulls : pull'[q] = pull[q]
  <2>1. p \in OpenPulls
    BY DEF OpenPulls
  <2> QED BY <1>3, <1>5, <2>1
<1>8. OpenPulls' = OpenPulls \ {p}
  <2>1. Merged.state # "open"
    BY DEF Merged
  <2> QED BY <1>5, <1>6, <1>7, <2>1 DEF OpenPulls, Open
<1>9. pull' \in [Pulls -> PullType]
  <2>1. \A q \in Pulls : pull'[q] \in PullType
    <3> TAKE q \in Pulls
    <3>1. CASE q \in OpenPulls
      BY <1>5, <1>6, <3>1 DEF PullType
    <3>2. CASE q \notin OpenPulls
      BY <1>1, <1>7, <3>2 DEF PullTypes
    <3> QED BY <3>1, <3>2
  <2> QED BY <1>3, <2>1
<1>10. /\ past' \in PastType /\ past'.merged = past.merged \cup {p} /\ past'.failures = past.failures
       /\ past'.approved = past.approved \ {p} /\ past'.judged = past.judged \ {p}
  <2>1. /\ Cleared(past, p) \in PastType /\ Cleared(past, p).failures = past.failures
        /\ Cleared(past, p).merged = past.merged /\ Cleared(past, p).approved = past.approved \ {p}
        /\ Cleared(past, p).judged = past.judged \ {p}
    BY <1>1, ClearedIs
  <2> DEFINE h == Cleared(past, p)
  <2>2. past' = [h EXCEPT !.merged = @ \cup {p}, !.tried = @ \ {p}]
    BY <1>2
  <2> HIDE DEF h
  <2>3. h \in PastType => /\ past' \in PastType /\ past'.merged = h.merged \cup {p} /\ past'.failures = h.failures
                          /\ past'.approved = h.approved /\ past'.judged = h.judged
    BY <2>2 DEF PastType
  <2> QED BY <2>1, <2>3 DEF h
<1>11. ASSUME NEW q \in Pulls PROVE Goes(q) /\ (q \in past'.approved => q \in past.approved)
  <2>1. Recorded(q)
    BY DEF RecordInv
  <2>2. CASE q = p
    BY <1>5, <1>10, <2>2 DEF Goes, Closes, Unrecorded
  <2>3. CASE q # p /\ q \in OpenPulls
    BY <1>6, <1>10, <2>1, <2>3 DEF Goes, Keeps, Recorded, Open, OpenPulls
  <2>4. CASE q # p /\ q \notin OpenPulls
    BY <1>7, <1>10, <2>1, <2>4 DEF Goes, Keeps, Recorded, Open, OpenPulls
  <2> QED BY <1>10, <2>2, <2>3, <2>4
<1> QED BY <1>5, <1>6, <1>8, <1>9, <1>10, <1>11

\* A merge closes what it merges, and may leave others in conflict.
LEMMA MergeRecords == ASSUME RecordInv, NEW c \in Cycles, NEW p \in Pulls, Merge(c, p) PROVE RecordInv'
<1>1. PullTypes /\ Finished(c, p) /\ given' = given /\ driver' = driver /\ issue' \in IssueType
  BY DEF RecordInv, Merge, PullTypes, IssueType
<1>2. CASE Open(p)
  <2>1. PullTypes'
    BY <1>1, <1>2, MergedIs, FinishedIs DEF PullTypes
  <2>2. \A b \in Cycles, q \in Pulls : chain'[b].seen[q] = chain[b].seen[q] /\ task'[b][q] \in {task[b][q], NoTask}
    BY <1>1, FinishedIs
  <2> QED BY <1>1, <1>2, <2>1, <2>2, MergedIs, RecordKeeps
<1>3. CASE ~Open(p)
  <2>1. Untouched
    BY <1>1, <1>3 DEF Merge, Untouched, PullTypes
  <2> QED BY <1>1, <2>1, FinishedRecords
<1> QED BY <1>2, <1>3

\* A command that ends without a result.
LEMMA VainRecords ==
  ASSUME RecordInv, NEW c \in Cycles, NEW p \in Pulls,
         \/ JobFails(c, p) \/ EndsInVain(c, p) \/ (RepairResult(c, p) /\ UNCHANGED <<pull, past>>)
         \/ (ReadAgain(c, p) /\ Finished(c, p))
  PROVE RecordInv'
<1>1. PullTypes /\ Finished(c, p) /\ UNCHANGED <<pull, issue, given, driver>>
  BY DEF RecordInv, JobFails, EndsInVain, RepairResult, ReadAgain
<1>2. past' \in PastType /\ past'.approved = past.approved /\ past'.judged = past.judged
  <2>1. past' \in {past, Failed}
    BY DEF JobFails, EndsInVain, RepairResult, ReadAgain
  <2> QED BY <1>1, <2>1, PastIs
<1>3. Untouched
  BY <1>1, <1>2 DEF Untouched, PullTypes
<1> QED BY <1>1, <1>3, FinishedRecords

\* Every step of every command, of people and of checks.
LEMMA RecordStep == RecordInv /\ [PullNext]_pullVars => RecordInv'
<1> SUFFICES ASSUME RecordInv, [PullNext]_pullVars PROVE RecordInv'
  OBVIOUS
<1>1. CASE UNCHANGED pullVars
  BY <1>1 DEF RecordInv, pullVars, PullTypes, ChainType, ChainStages, Recorded, SeenWell, WorksWell, Open
<1>2. ASSUME NEW c \in Cycles, NEW p \in Pulls, SemanticResult(c, p) \/ LocalResult(c, p) \/ RepairResult(c, p)
      PROVE RecordInv'
  BY <1>2, ResultsAre, InPlaceRecords, VainRecords
<1>3. ASSUME NEW c \in Cycles, ChainStep(c) PROVE RecordInv'
  <2>1. ASSUME NEW p \in Pulls, ReadAgain(c, p) PROVE RecordInv'
    BY <2>1, ViewRecords, VainRecords
  <2>2. CASE StageEnds(c) \/ Reconcile(c) \/ Classify(c) \/ ReviewEnds(c) \/ Plan(c) \/ FinalizeEnds(c)
    BY <2>2, EndingRecords, ClassifyRecords, PlanRecords
  <2>3. ASSUME NEW p \in Pulls, Inspect(c, p) \/ Apply(c, p) \/ View(c, p) \/ Fetch(c, p) \/ EndsInVain(c, p)
        PROVE RecordInv'
    BY <2>3, InspectRecords, ApplyRecords, ViewRecords, VainRecords
  <2>4. ASSUME NEW p \in Pulls, MarkReady(c, p) \/ Merge(c, p) \/ GitHubRefuses(c, p)
        PROVE RecordInv'
    BY <2>4, ReadyRecords, MergeRecords, EndingRecords
  <2> QED BY <1>2, <1>3, <2>1, <2>2, <2>3, <2>4 DEF ChainStep
<1>4. CASE Others
  <2>1. ASSUME NEW p \in Pulls, Commit(p) \/ Object(p) \/ Block(p) \/ BaseMoves(p) \/ Conclude(p) PROVE RecordInv'
    <3>1. driver \in Cycles
      BY DEF RecordInv, PullTypes
    <3> QED BY <2>1, <3>1, OthersAre, InPlaceRecords
  <2>2. ASSUME NEW c \in Cycles, CommandFails(c) \/ \E p \in Pulls : Publish(c, p) \/ JobFails(c, p) PROVE RecordInv'
    BY <2>2, EndingRecords, PublishRecords, VainRecords
  <2> QED BY <1>4, <2>1, <2>2, DyingRecords DEF Others
<1> QED BY <1>1, <1>3, <1>4 DEF PullNext

\* The first cycle begins with no pull request published.
LEMMA RecordStart == PullInit => RecordInv
<1> SUFFICES ASSUME PullInit PROVE RecordInv
  OBVIOUS
<1>1. PullTypes
  <2>1. driver \in Cycles
    BY PullsAssumption DEF PullInit
  <2>2. /\ pull \in [Pulls -> PullType] /\ issue \in IssueType /\ given \in Settings /\ past \in PastType
        /\ task \in [Cycles -> [Pulls -> TaskType]]
    BY Blanks DEF PullInit, PullType, IssueType, PastType
  <2>3. chain \in [Cycles -> ChainType] /\ chain[driver].phase # "over"
    <3>1. ChainStages # << >> /\ \E S : ChainStages \in Seq(S)
      BY <2>2, PullsAssumption DEF ChainStages
    <3>2. 1 \in DOMAIN ChainStages
      BY <3>1
    <3>3. Entered(1, NoRoute).todo \in SUBSET Pulls
      BY DEF Entered, OpenPulls, Wanted
    <3>4. FirstStage \in ChainType /\ FirstStage.phase = "look"
      <4>1. /\ FirstStage.stage = 1 /\ FirstStage.route = NoRoute /\ FirstStage.phase = "look"
            /\ FirstStage.seen = [p \in Pulls |-> Unseen] /\ FirstStage.had = [p \in Pulls |-> {}]
            /\ FirstStage.verdict = NoRoute /\ FirstStage.next = NoRoute
            /\ FirstStage = [stage |-> FirstStage.stage, route |-> FirstStage.route, phase |-> FirstStage.phase,
                             seen |-> FirstStage.seen, had |-> FirstStage.had, verdict |-> FirstStage.verdict,
                             next |-> FirstStage.next, todo |-> FirstStage.todo]
        BY DEF FirstStage, Entered
      <4>2. FirstStage.todo \in SUBSET Pulls
        BY <3>3 DEF FirstStage
      <4> QED BY <3>2, <4>1, <4>2, Blanks DEF ChainType
    <3>5. NoStage \in ChainType
      <4>1. NoStage = [FirstStage EXCEPT !.phase = "over", !.todo = {}]
        BY DEF NoStage, FirstStage
      <4> QED BY <3>4, <4>1 DEF ChainType
    <3> QED BY <2>1, <3>4, <3>5 DEF PullInit
  <2> QED BY <2>1, <2>2, <2>3 DEF PullTypes
<1>2. ASSUME NEW p \in Pulls PROVE Recorded(p)
  BY DEF PullInit, Recorded, Open, Unopened
<1>3. ASSUME NEW p \in Pulls, NEW c \in Cycles PROVE SeenWell(c, p) /\ WorksWell(c, p)
  <2>1. chain[c].seen[p] = Unseen
    BY DEF PullInit, FirstStage, NoStage, Entered
  <2>2. task[c][p] = NoTask
    BY Blanks DEF PullInit
  <2> QED BY <2>1, <2>2 DEF SeenWell, WorksWell, Unseen, NoTask
<1> QED BY <1>1, <1>2, <1>3 DEF RecordInv

-----------------------------------------------------------------------------
(* As long as no command fails: there is one cycle, and it finds what it left. *)

\* Only the cycle that is driven has a stage or a command.
LEMMA DriverIs ==
  ASSUME PullTypes, DriverAlone, NEW c \in Cycles,
         Kind(c) # "none" \/ \E p \in Pulls : task[c][p].pc # "none"
  PROVE c = driver
<1>1. \A p \in Pulls : NoTasks[p].pc = "none"
  BY Blanks DEF NoTask
<1> QED BY <1>1 DEF DriverAlone, Kind

\* The stage goes on as it is, with one target less at most.
GoesOnWith(p) ==
  /\ UNCHANGED <<given, driver>> /\ DriverAlone' /\ TaskHolds' /\ chain'[driver].stage = Driven.stage
  /\ chain'[driver].route = Driven.route /\ chain'[driver].next = Driven.next
  /\ chain'[driver].phase = Driven.phase /\ chain'[driver].seen = Driven.seen
  /\ chain'[driver].verdict = Driven.verdict /\ chain'[driver].had = Driven.had
  /\ \/ chain'[driver].todo = Driven.todo
     \/ /\ chain'[driver].todo = Driven.todo \ {p}
        /\ Kind(driver) \in Parallel \/ Driven.phase = "act"

\* Its kind and what it has read stay.
LEMMA GoingOnIs ==
  ASSUME PullTypes, StageHolds, NEW p, GoesOnWith(p)
  PROVE /\ Kind(driver)' = Kind(driver) /\ Viewed(driver)' = Viewed(driver) /\ Listing' = Listing
        /\ Driven.phase = "apply" \/ Listing => chain'[driver].todo = Driven.todo /\ Kind(driver) \notin Parallel
        /\ chain'[driver].todo \subseteq Driven.todo
        /\ \A q \in Pulls : Spared(q)' <=> Spared(q)
<1>1. ChainStages' = ChainStages
  BY StagesAre DEF GoesOnWith
<1>2. Kind(driver)' = Kind(driver) /\ Viewed(driver)' = Viewed(driver) /\ Listing' = Listing
  BY <1>1 DEF GoesOnWith, Kind, Viewed, Listing, Driven
<1>3. Driven.phase = "apply" \/ Listing => Kind(driver) \in {"review", "finalize"} /\ Driven.phase # "act"
  BY DEF StageHolds, Listing
<1>4. Driven.phase = "apply" \/ Listing => Kind(driver) \notin Parallel
  BY <1>3 DEF Parallel
<1>5. \A q \in Pulls : Spared(q)' <=> Spared(q)
  BY DEF Spared, GoesOnWith, Driven
<1> QED BY <1>2, <1>3, <1>4, <1>5 DEF GoesOnWith

\* A command of a target ends.
LEMMA FinishedGoesOn ==
  ASSUME PullTypes, DriverAlone, TaskHolds, NEW p \in Pulls, Finished(driver, p), UNCHANGED <<given, driver>>,
         Kind(driver) \in Parallel \/ Driven.phase = "act"
  PROVE GoesOnWith(p)
<1>1. driver \in Cycles /\ ChainStages' = ChainStages
  BY StagesAre DEF PullTypes
<1>2. DriverAlone'
  BY <1>1, FinishedIs DEF DriverAlone
<1>3. /\ chain'[driver].stage = chain[driver].stage /\ chain'[driver].phase = chain[driver].phase
      /\ chain'[driver].seen = chain[driver].seen /\ chain'[driver].route = chain[driver].route
      /\ chain'[driver].next = chain[driver].next /\ chain'[driver].verdict = chain[driver].verdict
      /\ chain'[driver].had = chain[driver].had /\ chain'[driver].todo = chain[driver].todo \ {p}
      /\ \A q \in Pulls : task'[driver][q] = IF q = p THEN NoTask ELSE task[driver][q]
  BY <1>1, FinishedIs
<1>4. TaskHolds'
  BY <1>1, <1>3 DEF TaskHolds, NoTask, Kind, Driven
<1> QED BY <1>2, <1>3, <1>4 DEF GoesOnWith, Driven

\* Nothing else happens.
LEMMA VainQuiet ==
  ASSUME PullTypes, Quiet, NEW p \in Pulls, GoesOnWith(p), pull' = pull,
         past'.approved = past.approved, past'.merged = past.merged
  PROVE Quiet'
<1> USE DEF Quiet
<1>1. /\ Kind(driver)' = Kind(driver) /\ Viewed(driver)' = Viewed(driver) /\ Listing' = Listing
      /\ Driven.phase = "apply" \/ Listing => chain'[driver].todo = Driven.todo
      /\ chain'[driver].todo \subseteq Driven.todo /\ driver' = driver /\ OpenPulls' = OpenPulls
      /\ past.approved \subseteq Pulls /\ \A q \in Pulls : Spared(q)' <=> Spared(q)
  BY GoingOnIs DEF GoesOnWith, OpenPulls, Open, PullTypes, PastType
<1>2. StageHolds'
  BY <1>1 DEF StageHolds, GoesOnWith, Driven
<1>3. SeenHolds'
  BY <1>1 DEF SeenHolds, GoesOnWith, Driven
<1>4. EvidenceHolds'
  BY <1>1 DEF EvidenceHolds
<1>5. QueueHolds'
  <2>1. \A q \in Pulls : Chosen(q)' <=> Chosen(q)
    BY <1>1 DEF Chosen, GoesOnWith, Driven
  <2>2. OpenPulls \subseteq Pulls
    BY DEF OpenPulls
  <2> QED BY <1>1, <2>1, <2>2 DEF QueueHolds, GoesOnWith, Driven
<1> QED BY <1>2, <1>3, <1>4, <1>5 DEF GoesOnWith

\* A pull request changes in place: it is pushed to, or judged by a reviewer the routes
\* sent, or keeps its evidence; its approval is not touched.
LEMMA InPlaceQuiet ==
  ASSUME RecordInv, Quiet, NEW p \in OpenPulls, GoesOnWith(p), NEW v \in OpenType, InPlace(p, v),
         \/ v.labels = pull[p].labels
         \/ Kind(driver) \in Parallel /\ ("approved" \in v.labels <=> "approved" \in pull[p].labels),
         \/ v.semantic = pull[p].semantic \/ pull[p].head < v.head
         \/ Kind(driver) = "semantic-review" /\ p \in Driven.todo
  PROVE Quiet'
<1> USE DEF Quiet
<1>1. /\ Kind(driver)' = Kind(driver) /\ Viewed(driver)' = Viewed(driver) /\ Listing' = Listing
      /\ Driven.phase = "apply" \/ Listing => chain'[driver].todo = Driven.todo /\ Kind(driver) \notin Parallel
      /\ chain'[driver].todo \subseteq Driven.todo /\ driver' = driver
      /\ past.approved \subseteq Pulls /\ \A q \in Pulls : Spared(q)' <=> Spared(q)
  BY GoingOnIs DEF GoesOnWith, RecordInv, PullTypes, PastType
<1>2. /\ p \in Pulls /\ OpenPulls' = OpenPulls /\ OpenPulls \subseteq Pulls
      /\ pull'[p] = v /\ \A q \in Pulls \ {p} : pull'[q] = pull[q]
      /\ \A q \in Pulls : (q \in past'.approved => q \in past.approved)
  BY InPlaceIs DEF OpenPulls
<1>3. \A q \in Pulls : "approved" \in pull'[q].labels <=> "approved" \in pull[q].labels
  BY <1>2
<1>4. Driven.phase = "apply" \/ Listing => \A q \in Pulls : pull'[q].labels = pull[q].labels
  BY <1>1, <1>2
<1>5. pull[p] \in OpenType /\ Open(p) /\ pull[p].head \in Nat /\ v.head \in Nat
  <2>1. p \in Pulls /\ Open(p)
    BY DEF OpenPulls
  <2>2. pull[p] \in OpenType
    BY <2>1, OpenIs DEF RecordInv
  <2> QED BY <2>1, <2>2, PullsAssumption DEF OpenType
<1>6. StageHolds'
  <2>1. Driven.phase = "apply" => \A q \in Driven.todo : q \in Pulls /\ Driven.had[q] = pull'[q].labels \cap ReviewLabels
    BY <1>2, <1>4 DEF StageHolds
  <2>2. Driven.phase = "act" => \A q \in Driven.todo : q \in OpenPulls /\ "approved" \in pull'[q].labels
    BY <1>2, <1>3 DEF StageHolds
  <2> QED BY <1>1, <1>2, <2>1, <2>2 DEF StageHolds, GoesOnWith, Driven
<1>7. SeenHolds'
  <2> SUFFICES ASSUME Listing, NEW q \in Viewed(driver)
               PROVE  LET w == Driven.seen[q]
                      IN  /\ w.state = "open" /\ w.labels = pull'[q].labels
                          /\ w.head = pull'[q].head => w.semantic = pull'[q].semantic
                          /\ q \in past'.approved => w.head = pull'[q].head
    BY <1>1 DEF SeenHolds, GoesOnWith, Driven
  <2>1. q \in Pulls /\ Driven.seen[q].state = "open" /\ Driven.seen[q].labels = pull'[q].labels
    BY <1>4 DEF SeenHolds, Viewed
  <2>2. CASE q # p
    BY <1>2, <2>1, <2>2 DEF SeenHolds
  <2>3. CASE q = p /\ v.head = pull[p].head
    <3>1. ~(pull[p].head < v.head) /\ Kind(driver) # "semantic-review"
      BY <1>1, <1>5, <2>3 DEF Parallel
    <3> QED BY <1>2, <2>1, <2>3, <3>1 DEF SeenHolds
  <2>4. CASE q = p /\ v.head # pull[p].head
    <3>1. pull[p].head < v.head /\ p \notin past'.approved
      BY <2>4 DEF InPlace
    <3>2. SeenWell(driver, p) /\ driver \in Cycles
      BY <1>2 DEF RecordInv, PullTypes
    <3>3. Driven.seen[p].head <= pull[p].head /\ Driven.seen[p].head \in Nat
      <4>1. Driven.seen[p] \in OpenType
        BY <1>2, <2>1, <2>4, <3>2, ViewedIs DEF RecordInv, Driven
      <4> QED BY <1>5, <2>1, <2>4, <3>2, <4>1, PullsAssumption DEF SeenWell, Driven, OpenType
    <3>4. Driven.seen[p].head # v.head
      BY <1>5, <3>1, <3>3
    <3> QED BY <1>2, <2>1, <2>4, <3>1, <3>4
  <2> QED BY <2>2, <2>3, <2>4
<1>8. EvidenceHolds'
  <2> SUFFICES ASSUME NEW q \in past'.approved PROVE q \in Pulls /\ pull'[q].semantic = "passed" /\ Spared(q)
    BY <1>1 DEF EvidenceHolds
  <2>1. q \in past.approved /\ q \in Pulls /\ pull[q].semantic = "passed" /\ Spared(q)
    <3>1. past' \in PastType
      BY DEF InPlace
    <3>2. q \in Pulls
      BY <3>1 DEF PastType
    <3> QED BY <1>2, <3>2 DEF EvidenceHolds
  <2>2. CASE q # p
    BY <1>2, <2>1, <2>2
  <2>3. CASE q = p
    <3>1. ~(Kind(driver) = "semantic-review" /\ p \in Driven.todo)
      BY <2>1, <2>3 DEF StageHolds, Spared
    <3>2. ~(pull[p].head < v.head)
      <4>1. pull[p].head < v.head => v.head # pull[p].head
        BY <1>5
      <4> QED BY <2>3, <4>1 DEF InPlace
    <3> QED BY <1>2, <2>1, <2>3, <3>1, <3>2
  <2> QED BY <2>2, <2>3
<1>9. QueueHolds'
  <2>1. \A q \in OpenPulls : Chosen(q)' <=> Chosen(q)
    BY <1>1, <1>2, <1>3 DEF Chosen, GoesOnWith, Driven
  <2>2. past'.merged = past.merged
    BY DEF InPlace
  <2> QED BY <1>1, <1>2, <1>3, <2>1, <2>2 DEF QueueHolds, GoesOnWith, Driven
<1> QED BY <1>6, <1>7, <1>8, <1>9 DEF GoesOnWith
\* The first or the next stage begins, with routes that spare what is approved.
LEMMA BegunQuiet ==
  ASSUME RecordInv, Quiet, NEW n \in DOMAIN ChainStages, NEW t \in [Pulls -> Routes],
         chain'[driver] = Entered(n, t), task'[driver] = NoTasks, DriverAlone',
         UNCHANGED <<pull, given, driver>>, past'.merged = {}, past'.approved = past.approved,
         \A p \in past.approved : t[p] # "semantic-review", Driven.phase = "apply" => Driven.todo = {}
  PROVE Quiet'
<1> USE DEF Quiet
<1>1. PullTypes /\ ChainStages' = ChainStages /\ OpenPulls' = OpenPulls /\ OpenPulls \subseteq Pulls
  BY StagesAre DEF RecordInv, OpenPulls, Open
<1>2. /\ chain'[driver].phase = "look" /\ chain'[driver].route = t /\ chain'[driver].stage = n
      /\ chain'[driver].seen = [p \in Pulls |-> Unseen]
  BY DEF Entered
<1>3. Kind(driver)' = ChainStages[n] /\ Viewed(driver)' = {}
  BY <1>1, <1>2 DEF Kind, Viewed
<1>4. /\ ChainStages[n] \in {"review", "finalize"} => chain'[driver].todo = OpenPulls
      /\ ChainStages[n] = "semantic-review" => \A p \in chain'[driver].todo : t[p] = "semantic-review"
  BY DEF Entered
<1>5. StageHolds'
  BY <1>1, <1>2, <1>3, <1>4 DEF StageHolds, Listing, Driven
<1>6. SeenHolds'
  BY <1>3 DEF SeenHolds
<1>7. TaskHolds'
  BY Blanks DEF TaskHolds, NoTask
<1>8. EvidenceHolds'
  <2>1. \A p \in past.approved : p \in Pulls /\ Spared(p)'
    BY <1>1, <1>2 DEF Spared, Driven, PullTypes, PastType
  <2> QED BY <2>1 DEF EvidenceHolds
<1>9. QueueHolds'
  <2>1. \A p \in OpenPulls : Chosen(p)' <=> Chosen(p)
    BY <1>1, <1>2 DEF Chosen, Driven
  <2> QED BY <1>1, <2>1 DEF QueueHolds
<1> QED BY <1>5, <1>6, <1>7, <1>8, <1>9

\* A stage ends, and no merge of it counts any more.
LEMMA EndsQuiet ==
  ASSUME RecordInv, Quiet, NEW c \in Cycles, Kind(c) # "none", NEW r \in [Pulls -> Routes], Ends(c, r),
         UNCHANGED <<pull, given, driver>>, past'.merged = {}, past'.approved = past.approved,
         \A p \in past.approved : r[p] # "semantic-review", Driven.phase = "apply" => Driven.todo = {}
  PROVE Quiet'
<1>1. c = driver /\ driver \in Cycles /\ PullTypes
  BY DriverIs DEF RecordInv, PullTypes, Quiet
<1>2. PICK n \in DOMAIN ChainStages, t \in {r, NoRoute} : Following(driver, r) = Entered(n, t)
  BY <1>1, FollowingIs
<1>3. /\ chain'[driver] = Entered(n, t) /\ task'[driver] = NoTasks
      /\ \A b \in Cycles \ {driver} : chain'[b] = chain[b] /\ task'[b] = task[b]
  BY <1>1, <1>2 DEF Ends, PullTypes
<1>4. DriverAlone'
  BY <1>3 DEF Quiet, DriverAlone
<1>5. t \in [Pulls -> Routes] /\ \A p \in past.approved : t[p] # "semantic-review"
  BY <1>1, Blanks DEF NoRoute, PullTypes, PastType
<1> QED BY <1>3, <1>4, <1>5, BegunQuiet

\* A stage that reads, judges or works ends, and the next begins.
LEMMA EndingQuiet ==
  ASSUME RecordInv, Quiet, NEW c \in Cycles, past'.failures = 0,
         \/ StageEnds(c) \/ Reconcile(c) \/ ReviewEnds(c) \/ FinalizeEnds(c)
         \/ \E p \in Pulls : GitHubRefuses(c, p)
  PROVE Quiet'
<1> USE DEF Quiet
<1>1. PullTypes /\ driver \in Cycles /\ past \in PastType
  BY DEF RecordInv, PullTypes
<1>2. Kind(c) # "none"
  BY DEF StageEnds, Reconcile, ReviewEnds, FinalizeEnds, GitHubRefuses, Acting, Parallel
<1>3. c = driver
  BY <1>1, <1>2, DriverIs
<1>4. UNCHANGED <<pull, given, driver>>
  BY DEF StageEnds, Reconcile, ReviewEnds, FinalizeEnds, GitHubRefuses
<1>5. past'.approved = past.approved
  BY <1>1, PastIs DEF StageEnds, Reconcile, ReviewEnds, FinalizeEnds, GitHubRefuses, PastType
<1>6. past'.merged = {}
  <2>1. CASE FinalizeEnds(c) \/ \E p \in Pulls : GitHubRefuses(c, p)
    BY <1>1, <2>1 DEF FinalizeEnds, GitHubRefuses, PastType
  <2>2. CASE StageEnds(c) \/ Reconcile(c) \/ ReviewEnds(c)
    <3>1. Driven.phase # "act"
      BY <1>3, <2>2 DEF StageHolds, StageEnds, Reconcile, ReviewEnds, Parallel
    <3>2. past'.merged = past.merged
      BY <1>1, <2>2, PastIs DEF StageEnds, Reconcile, ReviewEnds
    <3> QED BY <3>1, <3>2 DEF QueueHolds
  <2> QED BY <2>1, <2>2
<1>7. CASE ReviewEnds(c)
  <2>1. /\ chain[c].next \in [Pulls -> Routes] /\ Driven.phase = "apply" /\ Driven.todo = {}
        /\ \A p \in past.approved : chain[c].next[p] # "semantic-review"
    BY <1>1, <1>3, <1>7 DEF ReviewEnds, EvidenceHolds, Spared, Driven, PullTypes, ChainType
  <2> QED BY <1>2, <1>4, <1>5, <1>6, <1>7, <2>1, EndsQuiet DEF ReviewEnds
<1>8. CASE ~ReviewEnds(c)
  <2>1. Ends(c, chain[c].route)
    BY <1>8 DEF StageEnds, Reconcile, FinalizeEnds, GitHubRefuses
  <2>2. Driven.phase # "apply"
    BY <1>3, <1>8 DEF StageHolds, StageEnds, Reconcile, FinalizeEnds, GitHubRefuses, Acting, Parallel
  <2>3. chain[c].route \in [Pulls -> Routes] /\ \A p \in past.approved : chain[c].route[p] # "semantic-review"
    BY <1>1, <1>3, <2>2 DEF EvidenceHolds, Spared, Driven, PullTypes, ChainType
  <2> QED BY <1>2, <1>4, <1>5, <1>6, <2>1, <2>2, <2>3, EndsQuiet
<1> QED BY <1>7, <1>8

\* People and checks change a pull request in place, and no stage.
LEMMA OthersQuiet ==
  ASSUME RecordInv, Quiet, NEW p \in Pulls, Commit(p) \/ Object(p) \/ Block(p) \/ BaseMoves(p) \/ Conclude(p)
  PROVE Quiet'
<1>1. p \in OpenPulls /\ UNCHANGED <<chain, task>>
  BY OthersAre
<1>2. PICK v \in OpenType : InPlace(p, v) /\ v.labels = pull[p].labels
  BY OthersAre
<1>3. UNCHANGED <<given, driver>>
  BY <1>2 DEF InPlace
<1>4. ChainStages' = ChainStages
  BY <1>3, StagesAre DEF RecordInv
<1>5. GoesOnWith(p)
  BY <1>1, <1>3, <1>4 DEF GoesOnWith, Quiet, DriverAlone, TaskHolds, Kind, Driven
<1>6. v.semantic = pull[p].semantic \/ pull[p].head < v.head
  <2>1. CASE Commit(p)
    <3>1. pull[p].head < MaxHead /\ pull' = [pull EXCEPT ![p] = Pushed(p, pull[p])]
      BY <2>1 DEF Commit
    <3>2. pull'[p] = v /\ pull'[p] = Pushed(p, pull[p])
      BY <1>1, <1>2, <3>1, InPlaceIs DEF RecordInv, PullTypes, OpenPulls
    <3>3. PullTypes /\ TRUE \in BOOLEAN
      BY DEF RecordInv
    <3> QED BY <1>1, <3>1, <3>2, <3>3, PushedIs
  <2>2. CASE ~Commit(p)
    <3>1. pull[p] \in OpenType /\ pull'[p] = v
      BY <1>1, <1>2, InPlaceIs, OpenIs DEF RecordInv, OpenPulls
    <3>2. pull'[p].semantic = pull[p].semantic
      BY <2>2, <3>1 DEF Object, Block, BaseMoves, Conclude, OpenType, RecordInv, PullTypes
    <3> QED BY <3>1, <3>2
  <2> QED BY <2>1, <2>2
<1> QED BY <1>1, <1>2, <1>5, <1>6, InPlaceQuiet

\* A command of a parallel stage ends with a result or none.
LEMMA ResultsQuiet ==
  ASSUME RecordInv, Quiet, NEW c \in Cycles, NEW p \in Pulls, past'.failures = 0,
         SemanticResult(c, p) \/ LocalResult(c, p) \/ RepairResult(c, p) \/ JobFails(c, p) \/ EndsInVain(c, p)
  PROVE Quiet'
<1> USE DEF Quiet
<1>1. PullTypes /\ past \in PastType
  BY DEF RecordInv, PullTypes
<1>2. /\ Finished(c, p) /\ UNCHANGED <<given, driver>>
      /\ Kind(c) \in Parallel
  BY DEF SemanticResult, LocalResult, RepairResult, JobFails, EndsInVain, Parallel
<1>3. c = driver
  BY <1>1, <1>2, DriverIs DEF Parallel
<1>4. GoesOnWith(p)
  BY <1>1, <1>2, <1>3, FinishedGoesOn
<1>5. ~JobFails(c, p)
  BY <1>1, PastIs DEF JobFails
<1>6. CASE UNCHANGED <<pull, past>>
  BY <1>1, <1>4, <1>6, VainQuiet
<1>7. CASE ~UNCHANGED <<pull, past>>
  <2>1. SemanticResult(c, p) \/ LocalResult(c, p) \/ (RepairResult(c, p) /\ ~UNCHANGED <<pull, past>>)
    BY <1>5, <1>7 DEF EndsInVain
  <2>2. p \in OpenPulls /\ task[c][p].pc \in {"viewed", "fetched"}
    BY <2>1, ResultsAre
  <2>3. PICK v \in OpenType :
          /\ InPlace(p, v) /\ ("approved" \in v.labels <=> "approved" \in pull[p].labels)
          /\ v.semantic = pull[p].semantic \/ pull[p].head < v.head \/ Kind(c) = "semantic-review"
    BY <2>1, ResultsAre
  <2>4. p \in Driven.todo
    BY <1>3, <2>2 DEF TaskHolds
  <2> QED BY <1>2, <1>3, <1>4, <2>2, <2>3, <2>4, InPlaceQuiet
<1> QED BY <1>6, <1>7

\* A command notes the head it works on, or fetches the files, or reads again.
LEMMA ViewQuiet ==
  ASSUME RecordInv, Quiet, NEW c \in Cycles, NEW p \in Pulls,
         View(c, p) \/ Fetch(c, p) \/ ReadAgain(c, p)
  PROVE Quiet'
<1> USE DEF Quiet
<1>1. PullTypes /\ past \in PastType /\ driver \in Cycles
  BY DEF RecordInv, PullTypes
<1>2. c = driver
  BY <1>1, DriverIs DEF View, Fetch, ReadAgain, Acting, Parallel
<1>3. UNCHANGED <<pull, given, driver>> /\ past'.approved = past.approved /\ past'.merged = past.merged
  BY <1>1 DEF View, Fetch, ReadAgain, PastType
<1>4. CASE ReadAgain(c, p) /\ Finished(c, p)
  <2>1. Driven.phase = "act"
    BY <1>2, <1>4 DEF ReadAgain, Acting, Driven
  <2>2. GoesOnWith(p)
    BY <1>1, <1>2, <1>3, <1>4, <2>1, FinishedGoesOn
  <2> QED BY <1>1, <1>3, <2>2, VainQuiet
<1>5. CASE ~(ReadAgain(c, p) /\ Finished(c, p))
  <2>1. chain' = chain
    BY <1>5 DEF View, Fetch, ReadAgain
  <2>2. PICK t : task' = [task EXCEPT ![c][p] = t] /\ (t.pc \in {"viewed", "fetched"} => Kind(c) \in Parallel /\ p \in Driven.todo)
    <3>1. CASE View(c, p)
      BY <1>2, <3>1 DEF View, Driven
    <3>2. CASE Fetch(c, p)
      <4>1. Kind(c) \in Parallel /\ p \in Driven.todo
        BY <1>2, <3>2 DEF Fetch, TaskHolds
      <4>2. task' = [task EXCEPT ![c][p] = [task[c][p] EXCEPT !.pc = "fetched", !.read = pull[p].head]]
        BY <3>2 DEF Fetch
      <4> QED BY <4>1, <4>2
    <3>3. CASE ReadAgain(c, p)
      <4>1. task' = [task EXCEPT ![c][p] = [task[c][p] EXCEPT !.pc = "checked"]]
        BY <1>5, <3>3 DEF ReadAgain
      <4>2. [task[c][p] EXCEPT !.pc = "checked"].pc = "checked"
        BY <1>1 DEF PullTypes, TaskType
      <4> QED BY <4>1, <4>2
    <3> QED BY <3>1, <3>2, <3>3
  <2>3. /\ \A b \in Cycles \ {driver} : task'[b] = task[b]
        /\ task'[driver][p] = t /\ \A q \in Pulls \ {p} : task'[driver][q] = task[driver][q]
    BY <1>1, <1>2, <2>2 DEF PullTypes
  <2>4. ChainStages' = ChainStages
    BY <1>1, <1>3, StagesAre
  <2>5. Kind(driver)' = Kind(driver)
    BY <1>3, <2>1, <2>4 DEF Kind
  <2>6. TaskHolds'
    BY <1>2, <1>3, <2>1, <2>2, <2>3, <2>5 DEF TaskHolds, Driven
  <2>7. DriverAlone'
    BY <1>3, <2>1, <2>3 DEF DriverAlone
  <2>8. GoesOnWith(p)
    BY <1>3, <2>1, <2>6, <2>7 DEF GoesOnWith, Driven
  <2> QED BY <1>1, <1>3, <2>8, VainQuiet
<1> QED BY <1>4, <1>5

\* A draft becomes ready, with the labels and the evidence it has.
LEMMA ReadyQuiet == ASSUME RecordInv, Quiet, NEW c \in Cycles, NEW p \in Pulls, MarkReady(c, p) PROVE Quiet'
<1> USE DEF Quiet
<1>1. PullTypes /\ driver \in Cycles /\ p \in OpenPulls /\ UNCHANGED <<given, driver>>
  BY ReadyIs DEF RecordInv, PullTypes, MarkReady
<1>2. PICK v \in OpenType : InPlace(p, v) /\ v.labels = pull[p].labels /\ v.semantic = pull[p].semantic
  BY ReadyIs
<1>3. c = driver /\ Driven.phase = "act"
  BY <1>1, DriverIs DEF MarkReady, Acting, Driven
<1>4. GoesOnWith(p)
  <2>1. CASE Finished(c, p)
    BY <1>1, <1>3, <2>1, FinishedGoesOn
  <2>2. CASE ~Finished(c, p)
    <3>1. chain' = chain /\ task' = [task EXCEPT ![c][p].pc = "ready"]
      BY <2>2 DEF MarkReady
    <3>2. /\ \A b \in Cycles \ {driver} : task'[b] = task[b]
          /\ task'[driver][p].pc = "ready" /\ \A q \in Pulls \ {p} : task'[driver][q] = task[driver][q]
      BY <1>1, <1>3, <3>1 DEF PullTypes, TaskType
    <3>3. Kind(driver)' = Kind(driver)
      BY <1>1, <3>1, StagesAre DEF Kind
    <3>4. TaskHolds'
      BY <1>1, <1>3, <3>1, <3>2, <3>3 DEF TaskHolds, Driven
    <3>5. DriverAlone'
      BY <1>1, <3>1, <3>2 DEF DriverAlone
    <3> QED BY <1>1, <3>1, <3>4, <3>5 DEF GoesOnWith, Driven
  <2> QED BY <2>1, <2>2
<1> QED BY <1>1, <1>2, <1>4, InPlaceQuiet

\* A draft has nothing yet: no label, no evidence.
LEMMA PublishQuiet == ASSUME RecordInv, Quiet, NEW c \in Cycles, NEW p \in Pulls, Publish(c, p) PROVE Quiet'
<1> USE DEF Quiet
<1>1. PullTypes /\ driver \in Cycles /\ UNCHANGED <<given, driver, chain, task, past>>
  BY DEF RecordInv, PullTypes, Publish
<1>2. c = driver /\ Kind(driver) = "dispatch"
  BY <1>1, DriverIs DEF Publish
<1>3. /\ p \notin OpenPulls /\ pull'[p] = Draft(p) /\ \A q \in Pulls \ {p} : pull'[q] = pull[q]
      /\ OpenPulls \subseteq Pulls
  BY <1>1 DEF Publish, PullTypes, OpenPulls, Open
<1>4. Draft(p).labels = {} /\ Draft(p).state = "open"
  BY DEF Draft
<1>5. OpenPulls' = OpenPulls \cup {p}
  BY <1>3, <1>4 DEF OpenPulls, Open
<1>6. ChainStages' = ChainStages
  BY <1>1, StagesAre
<1>7. /\ Kind(driver)' = Kind(driver) /\ ~Listing /\ ~Listing'
      /\ Driven.phase \notin {"apply", "act"}
  BY <1>1, <1>2, <1>6 DEF Kind, Listing, StageHolds
<1>8. StageHolds' /\ SeenHolds' /\ DriverAlone'
  BY <1>1, <1>2, <1>7 DEF StageHolds, SeenHolds, DriverAlone, Driven
<1>9. TaskHolds'
  BY <1>1, <1>7 DEF TaskHolds, Driven
<1>10. EvidenceHolds'
  <2>1. \A q \in past.approved : q \in Pulls /\ q # p
    <3>1. \A q \in past.approved : q \in Pulls /\ Recorded(q)
      BY <1>1 DEF RecordInv, PullTypes, PastType
    <3> QED BY <1>3, <3>1 DEF Recorded, OpenPulls
  <2> QED BY <1>1, <1>3, <2>1 DEF EvidenceHolds, Spared, Driven
<1>11. QueueHolds'
  <2>1. past.merged = {}
    BY <1>7 DEF QueueHolds
  <2>2. \A q \in OpenPulls : Chosen(q)' <=> Chosen(q)
    BY <1>1, <1>3, <1>7 DEF Chosen, Driven
  <2>3. ~Chosen(p)'
    BY <1>1, <1>3, <1>4, <1>7 DEF Chosen, Driven
  <2> QED BY <1>1, <1>5, <2>1, <2>2, <2>3 DEF QueueHolds
<1> QED BY <1>8, <1>9, <1>10, <1>11

-----------------------------------------------------------------------------
(* As long as no command fails: review and finalize. *)

\* The command of a listing reads a pull request as it is.
LEMMA InspectQuiet == ASSUME RecordInv, Quiet, NEW c \in Cycles, NEW p \in Pulls, Inspect(c, p) PROVE Quiet'
<1> USE DEF Quiet
<1>1. PullTypes /\ driver \in Cycles /\ UNCHANGED <<pull, issue, given, driver, task, past>>
  BY DEF RecordInv, PullTypes, Inspect
<1>2. c = driver
  BY <1>1, DriverIs DEF Inspect
<1>3. Listing /\ p \in Driven.todo /\ p \in OpenPulls /\ pull[p] \in OpenType
  <2>1. Driven.todo \in SUBSET Pulls /\ Driven.todo # {} /\ p = FirstOf(Driven.todo)
    BY <1>1, <1>2 DEF Inspect, Turn, PullTypes, ChainType, Driven
  <2>2. p \in Driven.todo
    BY <2>1, FirstIsFirst
  <2>3. Listing /\ p \in OpenPulls
    BY <1>2, <2>2 DEF Inspect, Listing, StageHolds, Driven
  <2> QED BY <1>1, <2>2, <2>3, OpenIs DEF OpenPulls
<1>4. /\ chain'[driver].stage = Driven.stage /\ chain'[driver].phase = Driven.phase
      /\ chain'[driver].route = Driven.route /\ chain'[driver].next = Driven.next
      /\ chain'[driver].todo = Driven.todo \ {p}
      /\ chain'[driver].seen[p] = pull[p] /\ \A q \in Pulls \ {p} : chain'[driver].seen[q] = Driven.seen[q]
      /\ \A b \in Cycles \ {driver} : chain'[b] = chain[b]
  BY <1>1, <1>2 DEF Inspect, PullTypes, ChainType, Driven
<1>5. ChainStages' = ChainStages /\ OpenPulls' = OpenPulls
  BY <1>1, StagesAre DEF OpenPulls, Open
<1>6. Kind(driver)' = Kind(driver) /\ Listing' /\ Driven.phase = "look" /\ Kind(driver) \notin Parallel
  BY <1>1, <1>3, <1>4, <1>5 DEF Kind, Listing, Driven, Parallel
<1>7. Viewed(driver)' = Viewed(driver) \cup {p}
  <2>1. pull[p] # Unseen
    BY <1>3 DEF OpenType, Unseen
  <2> QED BY <1>1, <1>4, <2>1 DEF Viewed, Driven
<1>8. StageHolds'
  BY <1>1, <1>3, <1>4, <1>5, <1>6, <1>7 DEF StageHolds, Driven
<1>9. SeenHolds'
  <2>1. ASSUME NEW q \in Viewed(driver), q # p PROVE chain'[driver].seen[q] = Driven.seen[q]
    BY <1>4, <2>1 DEF Viewed
  <2>2. pull[p].state = "open"
    BY <1>3 DEF OpenType
  <2> QED BY <1>1, <1>3, <1>4, <1>7, <2>1, <2>2 DEF SeenHolds, Driven
<1>10. DriverAlone' /\ TaskHolds'
  BY <1>1, <1>4, <1>6 DEF DriverAlone, TaskHolds
<1>11. EvidenceHolds'
  <2>1. past.approved \subseteq Pulls
    BY <1>1 DEF PullTypes, PastType
  <2> QED BY <1>1, <1>4, <1>6, <2>1 DEF EvidenceHolds, Spared, Driven
<1>12. QueueHolds'
  BY <1>1, <1>4, <1>5, <1>6 DEF QueueHolds, Chosen, Driven
<1> QED BY <1>8, <1>9, <1>10, <1>11, <1>12

\* A review judges everything that is open, from what it read.
LEMMA ClassifyQuiet == ASSUME RecordInv, Quiet, NEW c \in Cycles, Classify(c) PROVE Quiet'
<1> USE DEF Quiet
<1>1. PullTypes /\ driver \in Cycles /\ UNCHANGED <<pull, issue, given, driver, task>>
  BY DEF RecordInv, PullTypes, Classify
<1>2. c = driver
  BY <1>1, DriverIs DEF Classify
<1>3. Listing /\ Viewed(driver) = OpenPulls /\ Driven.phase = "look" /\ Kind(driver) = "review"
  BY <1>2 DEF Classify, Listing, StageHolds, Driven
<1>4. /\ \A b \in Cycles \ {driver} : chain'[b] = chain[b]
      /\ chain'[driver].phase = "apply" /\ chain'[driver].todo = Viewed(driver)
      /\ chain'[driver].stage = Driven.stage /\ chain'[driver].route = Driven.route
      /\ past'.merged = past.merged
      /\ past'.approved = past.approved \cup
           {p \in Viewed(driver) : Frontier(driver, p) = "approved" /\ Open(p) /\ pull[p].head = Driven.seen[p].head}
  BY <1>1, <1>2, ClassifiedIs DEF Driven
<1>5. ASSUME NEW p \in Viewed(driver)
      PROVE /\ p \in Pulls /\ chain'[driver].verdict[p] = Frontier(driver, p)
            /\ chain'[driver].next[p] = RouteOf(Driven.seen[p], Frontier(driver, p))
            /\ Driven.seen[p].state = "open" /\ chain'[driver].had[p] = pull[p].labels \cap ReviewLabels
            /\ Driven.seen[p].head = pull[p].head => Driven.seen[p].semantic = pull[p].semantic
            /\ p \in past.approved => Driven.seen[p].head = pull[p].head
  <2>1. /\ Driven.seen[p].state = "open" /\ Driven.seen[p].labels = pull[p].labels
        /\ Driven.seen[p].head = pull[p].head => Driven.seen[p].semantic = pull[p].semantic
        /\ p \in past.approved => Driven.seen[p].head = pull[p].head
    BY <1>3, <1>5 DEF SeenHolds
  <2>2. LET v == chain[c].seen[p]
        IN  /\ p \in Pulls /\ chain'[c].verdict[p] = Frontier(c, p)
            /\ c = driver => chain'[c].next[p] = RouteOf(v, Frontier(c, p))
            /\ v.state = "open" => chain'[c].had[p] = v.labels \cap ReviewLabels
    BY <1>1, <1>2, <1>5, ClassifiedIs
  <2> QED BY <1>2, <2>1, <2>2 DEF Driven
<1>6. ChainStages' = ChainStages /\ OpenPulls' = OpenPulls
  BY <1>1, StagesAre DEF OpenPulls, Open
<1>7. Kind(driver)' = "review" /\ ~Listing'
  BY <1>1, <1>3, <1>4, <1>6 DEF Kind, Listing, Driven
<1>8. StageHolds'
  BY <1>1, <1>3, <1>4, <1>5, <1>6, <1>7 DEF StageHolds, Driven
<1>9. SeenHolds'
  BY <1>7 DEF SeenHolds
<1>10. DriverAlone' /\ TaskHolds'
  BY <1>1, <1>3, <1>4, <1>7 DEF DriverAlone, TaskHolds, Parallel
<1>11. EvidenceHolds'
  <2>1. ASSUME NEW p \in Viewed(driver), pull[p].semantic = "passed", Driven.seen[p].head = pull[p].head
        PROVE Spared(p)'
    <3>1. Driven.seen[p].state = "open" /\ Driven.seen[p].semantic = "passed"
      BY <1>5, <2>1
    <3>2. RouteOf(Driven.seen[p], Frontier(driver, p)) # "semantic-review"
      BY <1>1, <3>1, VerdictOf DEF Driven
    <3> QED BY <1>1, <1>4, <1>5, <3>2 DEF Spared, Driven
  <2>2. ASSUME NEW p \in past.approved
        PROVE p \in Viewed(driver) /\ pull[p].semantic = "passed" /\ Driven.seen[p].head = pull[p].head
    <3>1. p \in Pulls /\ Recorded(p)
      BY <1>1, <2>2 DEF RecordInv, PullTypes, PastType
    <3>2. p \in Viewed(driver)
      BY <1>3, <2>2, <3>1 DEF Recorded, OpenPulls
    <3> QED BY <1>5, <2>2, <3>2 DEF EvidenceHolds
  <2>3. ASSUME NEW p \in Viewed(driver), Frontier(driver, p) = "approved", pull[p].head = Driven.seen[p].head
        PROVE pull[p].semantic = "passed"
    <3>1. chain[driver].seen[p].semantic = "passed"
      BY <1>1, <2>3, VerdictOf
    <3> QED BY <1>5, <2>3, <3>1 DEF Driven
  <2> QED BY <1>1, <1>4, <2>1, <2>2, <2>3 DEF EvidenceHolds
<1>12. QueueHolds'
  <2>1. past.merged = {}
    BY <1>3 DEF QueueHolds
  <2>2. \A p \in OpenPulls : Chosen(p)' <=> Frontier(driver, p) = "approved"
    BY <1>1, <1>3, <1>4, <1>5 DEF Chosen, Driven
  <2>3. \A p, q \in OpenPulls : Overlap(p, q) /\ Frontier(driver, p) = "approved" => Frontier(driver, q) # "approved"
    BY <1>1, <1>3, FrontierIsApart
  <2> QED BY <1>4, <1>6, <2>1, <2>2, <2>3 DEF QueueHolds
<1> QED BY <1>8, <1>9, <1>10, <1>11, <1>12

\* The verdict becomes the label, unless a removal is lost.
LEMMA ApplyQuiet ==
  ASSUME RecordInv, Quiet, NEW c \in Cycles, NEW p \in Pulls, Apply(c, p), past'.failures = 0 PROVE Quiet'
<1> USE DEF Quiet
<1>1. PullTypes /\ driver \in Cycles /\ UNCHANGED <<issue, given, driver, task>>
  BY DEF RecordInv, PullTypes, Apply
<1>2. c = driver /\ Driven.phase = "apply" /\ Kind(driver) = "review"
  BY <1>1, DriverIs DEF Apply, Driven
<1>3. p \in Driven.todo /\ p \in OpenPulls /\ Driven.had[p] = pull[p].labels \cap ReviewLabels /\ OpenPulls \subseteq Pulls
  <2>1. Driven.todo \in SUBSET Pulls /\ Driven.todo # {} /\ p = FirstOf(Driven.todo)
    BY <1>1, <1>2 DEF Apply, Turn, PullTypes, ChainType, Driven
  <2>2. p \in Driven.todo
    BY <2>1, FirstIsFirst
  <2> QED BY <1>2, <2>2 DEF StageHolds, OpenPulls
<1>4. PICK v \in OpenType :
        /\ InPlace(p, v) /\ v.semantic = pull[p].semantic /\ v.head = pull[p].head
        /\ past'.approved = past.approved /\ ("approved" \in v.labels <=> Driven.verdict[p] = "approved")
  BY <1>2, <1>3, AppliedIs DEF OpenPulls, Driven
<1>5. /\ OpenPulls' = OpenPulls /\ pull'[p] = v /\ \A q \in Pulls \ {p} : pull'[q] = pull[q]
      /\ past'.merged = past.merged
  BY <1>3, <1>4, InPlaceIs DEF InPlace
<1>6. /\ chain'[driver].stage = Driven.stage /\ chain'[driver].phase = Driven.phase
      /\ chain'[driver].next = Driven.next /\ chain'[driver].todo = Driven.todo \ {p}
      /\ \A q \in Pulls \ {p} : chain'[driver].verdict[q] = Driven.verdict[q] /\ chain'[driver].had[q] = Driven.had[q]
      /\ \A b \in Cycles \ {driver} : chain'[b] = chain[b]
  BY <1>1, <1>2 DEF Apply, PullTypes, ChainType, Driven
<1>7. ChainStages' = ChainStages
  BY <1>1, StagesAre
<1>8. Kind(driver)' = Kind(driver) /\ ~Listing'
  BY <1>1, <1>2, <1>6, <1>7 DEF Kind, Listing, Driven
<1>9. StageHolds'
  <2>1. ASSUME NEW q \in Driven.todo, q # p
        PROVE q \in OpenPulls /\ chain'[driver].had[q] = pull'[q].labels \cap ReviewLabels
    BY <1>2, <1>3, <1>5, <1>6, <2>1 DEF StageHolds
  <2> QED BY <1>1, <1>2, <1>5, <1>6, <1>8, <2>1 DEF StageHolds, Driven
<1>10. SeenHolds' /\ DriverAlone'
  BY <1>1, <1>6, <1>8 DEF SeenHolds, DriverAlone
<1>11. TaskHolds'
  BY <1>1, <1>2, <1>8 DEF TaskHolds, Parallel
<1>12. EvidenceHolds'
  <2>1. past.approved \subseteq Pulls
    BY <1>1 DEF PullTypes, PastType
  <2> QED BY <1>1, <1>2, <1>4, <1>5, <1>6, <2>1 DEF EvidenceHolds, Spared, Driven
<1>13. QueueHolds'
  <2>1. past.merged = {}
    BY <1>2 DEF QueueHolds
  <2>2. \A q \in OpenPulls : Chosen(q)' <=> Chosen(q)
    BY <1>1, <1>2, <1>3, <1>4, <1>5, <1>6 DEF Chosen, Driven
  <2> QED BY <1>5, <2>1, <2>2 DEF QueueHolds
<1> QED BY <1>9, <1>10, <1>11, <1>12, <1>13

\* What the finalizer takes up carries the label of an approval.
LEMMA PlanQuiet == ASSUME RecordInv, Quiet, NEW c \in Cycles, Plan(c) PROVE Quiet'
<1> USE DEF Quiet
<1>1. PullTypes /\ driver \in Cycles /\ UNCHANGED <<pull, issue, given, driver, task, past>>
  BY DEF RecordInv, PullTypes, Plan
<1>2. c = driver /\ Kind(driver) = "finalize" /\ Driven.phase = "look"
  BY <1>1, DriverIs DEF Plan, Driven
<1>3. Listing /\ OpenPulls = Viewed(driver)
  BY <1>2 DEF Plan, Listing, StageHolds, Driven
<1>4. /\ \A b \in Cycles \ {driver} : chain'[b] = chain[b]
      /\ chain'[driver].phase = "act" /\ chain'[driver].stage = Driven.stage /\ chain'[driver].route = Driven.route
      /\ \A p \in chain'[driver].todo : p \in Viewed(driver) /\ "approved" \in Driven.seen[p].labels
  BY <1>1, <1>2, PlannedIs DEF Driven
<1>5. ChainStages' = ChainStages /\ OpenPulls' = OpenPulls
  BY <1>1, StagesAre DEF OpenPulls, Open
<1>6. Kind(driver)' = Kind(driver) /\ ~Listing'
  BY <1>1, <1>2, <1>4, <1>5 DEF Kind, Listing, Driven
<1>7. StageHolds'
  <2>1. \A p \in chain'[driver].todo : p \in OpenPulls /\ "approved" \in pull[p].labels
    BY <1>3, <1>4 DEF SeenHolds
  <2> QED BY <1>1, <1>2, <1>4, <1>5, <1>6, <2>1 DEF StageHolds, Driven
<1>8. SeenHolds' /\ DriverAlone' /\ TaskHolds'
  BY <1>1, <1>2, <1>4, <1>6 DEF SeenHolds, DriverAlone, TaskHolds, Parallel
<1>9. EvidenceHolds'
  <2>1. past.approved \subseteq Pulls
    BY <1>1 DEF PullTypes, PastType
  <2> QED BY <1>1, <1>2, <1>4, <2>1 DEF EvidenceHolds, Spared, Driven
<1>10. QueueHolds'
  BY <1>1, <1>2, <1>4, <1>5 DEF QueueHolds, Chosen, Driven
<1> QED BY <1>7, <1>8, <1>9, <1>10

\* A merge takes one pull request off the list; what overlaps it has no approval.
LEMMA MergeQuiet == ASSUME RecordInv, Quiet, NEW c \in Cycles, NEW p \in Pulls, Merge(c, p) PROVE Quiet'
<1> USE DEF Quiet
<1>1. PullTypes /\ driver \in Cycles /\ UNCHANGED <<given, driver>> /\ Finished(c, p)
  BY DEF RecordInv, PullTypes, Merge
<1>2. c = driver /\ Driven.phase = "act" /\ Kind(driver) = "finalize"
  BY <1>1, DriverIs DEF Merge, Acting, Driven
<1>3. p \in Driven.todo /\ p \in OpenPulls /\ "approved" \in pull[p].labels /\ OpenPulls \subseteq Pulls
  <2>1. Driven.todo \in SUBSET Pulls /\ Driven.todo # {} /\ p = FirstOf(Driven.todo)
    BY <1>1, <1>2 DEF Merge, Acting, Turn, PullTypes, ChainType, Driven
  <2>2. p \in Driven.todo
    BY <2>1, FirstIsFirst
  <2> QED BY <1>2, <2>2 DEF StageHolds, OpenPulls
<1>4. /\ pull'[p] = Merged /\ OpenPulls' = OpenPulls \ {p}
      /\ \A q \in OpenPulls \ {p} : pull'[q].labels = pull[q].labels /\ pull'[q].semantic = pull[q].semantic
      /\ past'.merged = past.merged \cup {p} /\ past'.approved = past.approved \ {p}
  BY <1>3, MergedIs DEF OpenPulls
<1>5. GoesOnWith(p)
  BY <1>1, <1>2, FinishedGoesOn
<1>6. /\ Kind(driver)' = Kind(driver) /\ Listing' = Listing /\ ~Listing
      /\ chain'[driver].todo \subseteq Driven.todo /\ driver' = driver
      /\ \A q \in Pulls : Spared(q)' <=> Spared(q)
  BY <1>1, <1>2, <1>5, GoingOnIs DEF GoesOnWith, Listing
<1>7. chain'[driver].todo = Driven.todo \ {p} /\ chain'[driver].phase = "act"
  BY <1>1, <1>2, FinishedIs DEF Driven
<1>8. StageHolds'
  <2>1. \A q \in chain'[driver].todo : q \in OpenPulls' /\ "approved" \in pull'[q].labels
    BY <1>2, <1>4, <1>7 DEF StageHolds
  <2> QED BY <1>2, <1>6, <1>7, <2>1 DEF StageHolds, Driven
<1>9. SeenHolds'
  BY <1>6 DEF SeenHolds
<1>10. EvidenceHolds'
  <2>1. \A q \in past.approved : q \in OpenPulls
    BY <1>1 DEF RecordInv, PullTypes, PastType, Recorded, OpenPulls
  <2> QED BY <1>3, <1>4, <1>6, <2>1 DEF EvidenceHolds
<1>11. QueueHolds'
  <2>1. \A q \in OpenPulls : Chosen(q) <=> "approved" \in pull[q].labels
    BY <1>2 DEF Chosen
  <2>2. \A q, r \in Pulls : Overlap(q, r) => Overlap(r, q)
    <3>1. \A q, r \in Pulls : {q, r} = {r, q}
      OBVIOUS
    <3> QED BY <3>1 DEF Overlap
  <2>3. ~Overlap(p, p) /\ past.merged \subseteq Pulls
    BY <1>1 DEF Overlap, PullTypes, PastType
  <2>4. \A q \in past.merged : ~Overlap(q, p) /\ ~Overlap(p, q)
    BY <1>3, <2>2, <2>3 DEF QueueHolds
  <2>5. \A q \in OpenPulls' : Overlap(p, q) => "approved" \notin pull'[q].labels
    BY <1>3, <1>4, <2>1 DEF QueueHolds
  <2>6. \A q \in past.merged : \A r \in OpenPulls' : Overlap(q, r) => "approved" \notin pull'[r].labels
    BY <1>4 DEF QueueHolds
  <2>7. \A q \in OpenPulls' : Chosen(q)' <=> "approved" \in pull'[q].labels
    BY <1>6, <1>7 DEF Chosen, Driven
  <2>8. \A q, r \in OpenPulls' : Overlap(q, r) /\ Chosen(q)' => ~Chosen(r)'
    BY <1>4, <2>1, <2>7 DEF QueueHolds
  <2> QED BY <1>4, <1>6, <1>7, <2>3, <2>4, <2>5, <2>6, <2>8 DEF QueueHolds, Driven
<1> QED BY <1>5, <1>8, <1>9, <1>10, <1>11 DEF GoesOnWith

-----------------------------------------------------------------------------
(* The theorems about the cycles. *)

\* As long as no command fails, every step keeps the order.
LEMMA QuietStep == RecordInv /\ QuietInv /\ [PullNext]_pullVars => QuietInv'
<1> SUFFICES ASSUME RecordInv, QuietInv, [PullNext]_pullVars, past'.failures = 0 PROVE Quiet'
  BY DEF QuietInv
<1>1. CASE UNCHANGED pullVars
  <2>1. Quiet
    BY <1>1 DEF QuietInv, pullVars
  <2>2. ChainStages' = ChainStages
    BY <1>1 DEF pullVars, ChainStages
  <2>3. /\ Kind(driver)' = Kind(driver) /\ Viewed(driver)' = Viewed(driver) /\ Listing' = Listing
        /\ OpenPulls' = OpenPulls
    BY <1>1, <2>2 DEF pullVars, Kind, Viewed, Listing, OpenPulls, Open, Driven
  <2>4. DriverAlone' /\ StageHolds' /\ SeenHolds' /\ TaskHolds'
    BY <1>1, <2>1, <2>3 DEF pullVars, Quiet, DriverAlone, StageHolds, SeenHolds, TaskHolds, Driven
  <2>5. EvidenceHolds' /\ QueueHolds'
    BY <1>1, <2>1, <2>3 DEF pullVars, Quiet, EvidenceHolds, QueueHolds, Spared, Chosen, Driven
  <2> QED BY <2>4, <2>5 DEF Quiet
<1>2. CASE PullNext
  <2>1. PullTypes
    BY DEF RecordInv
  <2>2. past.failures = 0
    <3>1. ASSUME past.failures # 0 PROVE past'.failures # 0
      <4>1. past \in PastType /\ past.failures + 1 # 0
        BY <2>1 DEF PullTypes, PastType
      <4>2. ASSUME NEW p \in Pulls, NEW v \in OpenType, InPlace(p, v) PROVE past'.failures # 0
        BY <3>1, <4>2 DEF InPlace
      <4>3. ASSUME NEW c \in Cycles, ChainStep(c) PROVE past'.failures # 0
        <5>1. ASSUME NEW p \in Pulls, Merge(c, p) PROVE past'.failures # 0
          <6>1. past' \in {past, [Cleared(past, p) EXCEPT !.merged = @ \cup {p}, !.tried = @ \ {p}]}
            BY <5>1 DEF Merge
          <6>2. Cleared(past, p) \in PastType /\ Cleared(past, p).failures = past.failures
            BY <4>1, ClearedIs
          <6> QED BY <3>1, <6>1, <6>2 DEF PastType
        <5>2. ASSUME NEW p \in Pulls, RepairResult(c, p) PROVE past'.failures # 0
          BY <3>1, <4>1, <5>2, ClearedIs DEF RepairResult
        <5>3. ASSUME NEW p \in Pulls, SemanticResult(c, p) \/ Apply(c, p) PROVE past'.failures # 0
          BY <3>1, <4>1, <5>3, <2>1, PastIs DEF SemanticResult, Apply, PastType
        <5>4. ASSUME Reconcile(c) \/ FinalizeEnds(c) \/ Classify(c) PROVE past'.failures # 0
          BY <3>1, <4>1, <5>4, <2>1, PastIs DEF Reconcile, FinalizeEnds, Classify, PastType
        <5>5. ASSUME NEW p \in Pulls, View(c, p) \/ GitHubRefuses(c, p) PROVE past'.failures # 0
          BY <3>1, <4>1, <5>5 DEF View, GitHubRefuses, PastType
        <5> QED BY <3>1, <4>3, <5>1, <5>2, <5>3, <5>4, <5>5
                DEF ChainStep, StageEnds, ReviewEnds, Plan, Inspect, Fetch, LocalResult, EndsInVain, MarkReady, ReadAgain
      <4>4. ASSUME Others PROVE past'.failures # 0
        <5>1. ASSUME NEW p \in Pulls, Commit(p) PROVE past'.failures # 0
          BY <3>1, <2>1, <5>1, PastIs, ClearedIs DEF Commit
        <5>2. ASSUME NEW p \in Pulls, Object(p) \/ Block(p) \/ BaseMoves(p) PROVE past'.failures # 0
          BY <3>1, <2>1, <5>2, PastIs DEF Object, Block, BaseMoves
        <5>3. ASSUME ChainDies \/ HostStops \/ \E c \in Cycles : CommandFails(c) PROVE past'.failures # 0
          BY <2>1, <5>3, PastIs DEF ChainDies, HostStops, CommandFails
        <5>4. ASSUME NEW c \in Cycles, NEW p \in Pulls, JobFails(c, p) PROVE past'.failures # 0
          BY <2>1, <5>4, PastIs DEF JobFails
        <5> QED BY <3>1, <4>4, <5>1, <5>2, <5>3, <5>4 DEF Others, Publish, Conclude
      <4> QED BY <1>2, <4>3, <4>4 DEF PullNext
    <3> QED BY <3>1
  <2>3. Quiet
    BY <2>2 DEF QuietInv
  <2>4. ASSUME NEW c \in Cycles, ChainStep(c) PROVE Quiet'
    BY <2>3, <2>4, EndingQuiet, ClassifyQuiet, PlanQuiet, InspectQuiet, ApplyQuiet, ViewQuiet, ResultsQuiet,
       ReadyQuiet, MergeQuiet DEF ChainStep
  <2>5. ASSUME Others PROVE Quiet'
    <3>1. ~(ChainDies \/ HostStops) /\ \A c \in Cycles : ~CommandFails(c)
      BY <2>1, PastIs DEF ChainDies, HostStops, CommandFails
    <3> QED BY <2>3, <2>5, <3>1, PublishQuiet, ResultsQuiet, OthersQuiet DEF Others
  <2> QED BY <1>2, <2>4, <2>5 DEF PullNext
<1> QED BY <1>1, <1>2

\* The first cycle begins with no pull request open.
LEMMA QuietStart == PullInit => QuietInv
<1> SUFFICES ASSUME PullInit PROVE Quiet
  BY DEF QuietInv
<1>1. driver \in Cycles /\ PullTypes
  BY RecordStart DEF RecordInv, PullTypes
<1>2. OpenPulls = {} /\ past.approved = {} /\ past.merged = {}
  BY DEF PullInit, OpenPulls, Open, Unopened
<1>3. /\ Driven = Entered(1, NoRoute) /\ task[driver] = NoTasks
      /\ \A c \in Cycles \ {driver} : chain[c] = NoStage /\ task[c] = NoTasks
  BY <1>1 DEF PullInit, FirstStage, Driven
<1>4. DriverAlone
  BY <1>1, <1>3, Blanks, FollowingIs DEF DriverAlone
<1>5. /\ Driven.phase = "look" /\ Driven.stage = 1 /\ Driven.route = NoRoute
      /\ Driven.seen = [p \in Pulls |-> Unseen]
  BY <1>3 DEF Entered
<1>6. Kind(driver) = ChainStages[1] /\ Viewed(driver) = {}
  BY <1>5 DEF Kind, Viewed, Driven
<1>7. /\ ChainStages[1] \in {"review", "finalize"} => Driven.todo = OpenPulls
      /\ ChainStages[1] = "semantic-review" => \A p \in Driven.todo : NoRoute[p] = "semantic-review"
  BY <1>3 DEF Entered
<1>8. StageHolds /\ SeenHolds
  BY <1>5, <1>6, <1>7 DEF StageHolds, SeenHolds, Listing
<1>9. TaskHolds
  BY <1>3, Blanks DEF TaskHolds, NoTask
<1>10. EvidenceHolds /\ QueueHolds
  BY <1>2 DEF EvidenceHolds, QueueHolds
<1> QED BY <1>4, <1>8, <1>9, <1>10 DEF Quiet

\* Whatever fails, and whatever the commands of dead cycles still do: what is recorded
\* of a pull request is so at its head, and no command knows of a newer one.  As long
\* as no command fails, the one cycle there is keeps its targets, its readings, its
\* evidence and its queue in order.
THEOREM PullsInvariant == PullSpec => []PullInv
<1>1. PullInit => PullInv
  BY RecordStart, QuietStart DEF PullInv
<1>2. PullInv /\ [PullNext]_pullVars => PullInv'
  BY RecordStep, QuietStep DEF PullInv
<1> QED BY <1>1, <1>2, PTL DEF PullSpec

\* Of two pull requests that change a common file one finalize merges one at most.
LEMMA WaitFromInvariant == PullInv => OverlappingWait
<1> SUFFICES ASSUME PullInv PROVE OverlappingWait
  OBVIOUS
<1> USE DEF PullInv
<1>1. PullTypes
  BY DEF RecordInv
<1>2. ASSUME NEW p \in Pulls
      PROVE \/ pull[p] \in {Unopened, Merged}
            \/ /\ pull[p].head \in 1..MaxHead /\ pull[p].labels \subseteq Read
               /\ pull[p].checks \in {"none", "pending", "passed", "failed", "infra"}
               /\ pull[p].semantic \in {"missing", "passed", "failed"}
  BY <1>1 DEF PullTypes, PullType, OpenType, Checks
<1>3. ASSUME NEW c \in Cycles, NEW p \in Pulls
      PROVE task[c][p].head <= MaxHead /\ task[c][p].read \in {0} \cup task[c][p].head..MaxHead
  <2>1. task[c][p] \in TaskType /\ WorksWell(c, p)
    BY <1>1 DEF RecordInv, PullTypes
  <2>2. task[c][p].read = 0 \/ task[c][p].head <= task[c][p].read
    BY <2>1 DEF WorksWell
  <2> QED BY <2>1, <2>2, PullsAssumption DEF TaskType
<1>4. \A c \in Cycles : chain[c].stage \in DOMAIN ChainStages /\ chain[c].todo \subseteq Pulls
  BY <1>1 DEF PullTypes, ChainType
<1>5. past.approved \cup past.judged \subseteq OpenPulls
  <2>1. past.approved \cup past.judged \subseteq Pulls /\ \A p \in Pulls : Recorded(p)
    BY <1>1 DEF RecordInv, PullTypes, PastType
  <2> QED BY <2>1 DEF Recorded, OpenPulls
<1>6. past.failures = 0 => \A p, q \in past.merged : ~Overlap(p, q)
  BY DEF QuietInv, Quiet, QueueHolds
<1>7. PullTypeOK
  BY <1>1, <1>2, <1>3, <1>4, <1>5 DEF PullTypeOK, PullTypes, IssueType
<1> QED BY <1>6, <1>7 DEF OverlappingWait

\* One finalize merges at most one of two pull requests that change a common file,
\* whatever is pushed, as long as no command fails: the frontier approves one of
\* them, and labels change in a review only.
THEOREM OverlappingWaits == PullSpec => []OverlappingWait
BY PullsInvariant, WaitFromInvariant, PTL

\* Only a merge closes a pull request.
LEMMA OnlyMergeCloses ==
  ASSUME RecordInv, [PullNext]_pullVars, NEW p \in OpenPulls, ~Open(p)'
  PROVE \E c \in Cycles : Merge(c, p)
<1> SUFFICES ASSUME \A c \in Cycles : ~Merge(c, p) PROVE FALSE
  OBVIOUS
<1>1. p \in Pulls /\ Open(p) /\ p \notin OpenPulls' /\ PullTypes
  BY DEF OpenPulls, RecordInv
<1>2. pull' # pull
  BY <1>1 DEF Open
<1>3. ASSUME NEW q \in OpenPulls, NEW v \in OpenType, InPlace(q, v) PROVE FALSE
  BY <1>1, <1>3, InPlaceIs
<1>4. ASSUME NEW c \in Cycles, NEW q \in Pulls, Merge(c, q) PROVE FALSE
  <2>1. q # p
    BY <1>4
  <2>2. Open(q)
    BY <1>2, <1>4 DEF Merge
  <2>3. OpenPulls' = OpenPulls \ {q}
    BY <1>4, <2>2, MergedIs
  <2> QED BY <1>1, <2>1, <2>3
<1>5. ASSUME NEW c \in Cycles, NEW q \in Pulls, Publish(c, q) PROVE FALSE
  <2>1. pull'[p] = pull[p]
    BY <1>1, <1>5 DEF Publish, PullTypes, Open
  <2> QED BY <1>1, <2>1 DEF Open
<1>6. ASSUME NEW c \in Cycles, NEW q \in Pulls, SemanticResult(c, q) \/ LocalResult(c, q) \/ RepairResult(c, q)
      PROVE FALSE
  <2>1. SemanticResult(c, q) \/ LocalResult(c, q) \/ (RepairResult(c, q) /\ ~UNCHANGED <<pull, past>>)
    BY <1>2, <1>6
  <2> QED BY <1>3, <2>1, ResultsAre
<1>7. ASSUME NEW c \in Cycles, NEW q \in Pulls, Apply(c, q) \/ MarkReady(c, q) PROVE FALSE
  <2>1. CASE MarkReady(c, q)
    BY <1>3, <2>1, ReadyIs
  <2>2. CASE Apply(c, q)
    <3>1. Open(q) /\ q \in OpenPulls
      BY <1>2, <2>2 DEF Apply, OpenPulls
    <3> QED BY <1>3, <2>2, <3>1, AppliedIs
  <2> QED BY <1>7, <2>1, <2>2
<1>8. ASSUME NEW q \in Pulls, Commit(q) \/ Object(q) \/ Block(q) \/ BaseMoves(q) \/ Conclude(q) PROVE FALSE
  BY <1>3, <1>8, OthersAre
<1>9. ASSUME NEW c \in Cycles, ChainStep(c) PROVE FALSE
  BY <1>2, <1>4, <1>6, <1>7, <1>9 DEF ChainStep, StageEnds, Reconcile, Classify, ReviewEnds, Plan, FinalizeEnds,
                                      Inspect, View, Fetch, EndsInVain, ReadAgain, GitHubRefuses
<1>10. ~Others
  BY <1>2, <1>5, <1>8 DEF Others, ChainDies, HostStops, CommandFails, JobFails
<1> QED BY <1>2, <1>9, <1>10 DEF PullNext, pullVars

\* What is merged at the head it was approved for passed its checks, and a reviewer of
\* the files of that head found them good, whatever is pushed between any two reads
\* and whichever cycles' commands run beside each other; as long as no command fails,
\* that is also the last word of a reviewer.
THEOREM MergesAreEarned == PullSpec => MergedWasEarned
<1>1. PullInv /\ [PullNext]_pullVars =>
        [\A p \in past.approved : Open(p) /\ pull'[p].state = "merged" =>
           /\ p \in past.judged /\ pull[p].checks = "passed"
           /\ past.failures = 0 => pull[p].semantic = "passed"]_pullVars
  <2> SUFFICES ASSUME PullInv, [PullNext]_pullVars, NEW p \in past.approved, Open(p), pull'[p].state = "merged"
               PROVE /\ p \in past.judged /\ pull[p].checks = "passed"
                     /\ past.failures = 0 => pull[p].semantic = "passed"
    OBVIOUS
  <2>1. RecordInv /\ p \in Pulls /\ p \in OpenPulls /\ ~Open(p)'
    BY DEF PullInv, RecordInv, PullTypes, PastType, OpenPulls, Open
  <2>2. PICK c \in Cycles : Merge(c, p)
    BY <2>1, OnlyMergeCloses
  <2>3. p \in given.checked
    BY <2>1, <2>2 DEF Merge, RecordInv, WorksWell
  <2>4. p \in past.judged /\ pull[p].checks = "passed"
    BY <2>1, <2>3 DEF RecordInv, Recorded
  <2>5. past.failures = 0 => pull[p].semantic = "passed"
    BY DEF PullInv, QuietInv, Quiet, EvidenceHolds
  <2> QED BY <2>4, <2>5
<1> QED BY <1>1, PullsInvariant, PTL DEF PullSpec, MergedWasEarned
=============================================================================
