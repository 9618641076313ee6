---------------------------- MODULE IssueDispatch ----------------------------
(***************************************************************************)
(* Dispatch in the GitHub lane (atlas-agent-orchestrator and               *)
(* atlas-agent-worker): several orchestrators, the lanes, pick issues that *)
(* are labelled agent:ready, take an issue lease and the write-scope locks *)
(* of the issue's repository and branch, run one worker, and give          *)
(* everything back.                                                        *)
(*                                                                         *)
(* Leases and locks are files, taken with exists / stat / unlink / create  *)
(* and stale by age alone; each of these calls is a step.  Labels live on  *)
(* GitHub and are acted on from listings that have grown old.              *)
(***************************************************************************)
EXTENDS Naturals, FiniteSets, Sequences, SequencesExt

CONSTANTS
  Issues,     \* the issues of one repository
  Lanes,      \* the orchestrator processes that run side by side
  Jobs,       \* ids of worker processes, numbers: the bound on those alive at once
  WriteScope, \* the write scopes an issue declares, each the sequence of its path segments
  BaseBranch, \* the branch the worker of an issue starts from and merges into
  LockKey,    \* the name of that branch under which the issue's locks are filed
  Star,       \* a segment with "*", or a scope that says unknown or repo-wide
  Schema,     \* the segments that name migrations or schemas
  Linked,     \* the issues an open pull request may appear linked to
  MaxDeaths   \* the bound on deaths of lanes and workers

ASSUME DispatchAssumption == Jobs \subseteq Nat /\ Linked \subseteq Issues /\ MaxDeaths \in Nat
ASSUME ScopeAssumption == \A i \in Issues : WriteScope[i] \in Seq(Seq(STRING))

VARIABLES
  label,  \* per issue its automation labels; "ended" for pr-open, failed and done
  files,  \* per path the lease or lock file there, or NoFile
  lane,   \* per orchestrator where it is, its listing, and the paths it holds
  job,    \* per worker where it is, its issue, and the lane that waits for it
  stolen, \* history: a lease or lock was unlinked while it was needed
  deaths  \* history: how many lanes and workers have died

vars == <<label, files, lane, job, stolen, deaths>>

-----------------------------------------------------------------------------
(* Write scopes. *)

\* scope_is_unknown, migration_or_schema_scope, scopes_overlap
UnknownScope(s) == Star \in Range(s)
Migration(s) == Range(s) \cap Schema # {}
EqualScopes(a, b) == UnknownScope(a) \/ UnknownScope(b) \/ a = b  \* mutant of ScopesOverlap
ScopesOverlap(a, b) ==
  \/ UnknownScope(a) \/ UnknownScope(b)
  \/ IsPrefix(a, b) \/ IsPrefix(b, a)
  \/ Migration(a) /\ Migration(b) /\ Front(a) = Front(b)

Exclusive(i) == WriteScope[i] = << >> \/ \E s \in Range(WriteScope[i]) : UnknownScope(s)
Conflicts(i, j) == \/ Exclusive(i) \/ Exclusive(j)
                   \/ \E a \in Range(WriteScope[i]), b \in Range(WriteScope[j]) : ScopesOverlap(a, b)

\* The lock names of an issue, in the order they are taken; << >> is "exclusive".
LockNames(i) == IF Exclusive(i) THEN << << >> >> ELSE WriteScope[i]

-----------------------------------------------------------------------------
(* Files. *)
Lease(i) == <<"lease", i, << >> >>
Namespace(i) == <<"namespace", LockKey[i], << >> >>
ScopeLocks(i) == {<<"lock", LockKey[i], s>> : s \in UNION {Range(LockNames(j)) : j \in Issues}}
Paths == UNION {{Lease(i), Namespace(i)} \cup ScopeLocks(i) : i \in Issues}

NoFile == [owner |-> {}, issue |-> {}, written |-> FALSE, old |-> FALSE]
FileOf(p) == [owner |-> {p}, issue |-> {lane[p].issue}, written |-> FALSE, old |-> FALSE]
Exists(k) == files[k] # NoFile

Running(n) == job[n].at \in {"check", "label", "working", "clear", "mark"}

\* A file is needed while its live owner holds it, or the worker it stands for runs.
Needed(k) == \/ \E p \in files[k].owner : k \in lane[p].held
             \/ /\ k[1] # "namespace"
                /\ \E n \in Jobs : Running(n) /\ job[n].issue \in files[k].issue

Holds(p, k) == p \in files[k].owner /\ k \in lane[p].held
Unlink(S, p) == /\ files' = [k \in Paths |-> IF k \in S THEN NoFile ELSE files[k]]
                /\ stolen' = (stolen \/ \E k \in S : Needed(k) /\ ~Holds(p, k))

-----------------------------------------------------------------------------
(* Lanes. *)
NoJob == [at |-> "none", issue |-> CHOOSE i \in Issues : TRUE, lane |-> {}]
Idle == [at |-> "idle", list |-> {}, skip |-> {}, issue |-> NoJob.issue,
             path |-> Lease(NoJob.issue), held |-> {}]

At(p, l) == lane[p].at = l

\* The path is forgotten where no step uses it, the issue between two issues.
Goto(p, l) == lane' = [lane EXCEPT
  ![p].at = l,
  ![p].path = IF l \in {"look", "stat", "unlink", "create", "write"} THEN @ ELSE Lease(NoJob.issue),
  ![p].issue = IF l = "pick" THEN NoJob.issue ELSE @]
Try(p, k) == lane' = [lane EXCEPT ![p].at = "look", ![p].path = k]

Init == /\ label \in [Issues -> {{}, {"ready"}}]
        /\ files = [k \in Paths |-> NoFile]
        /\ lane = [p \in Lanes |-> Idle]
        /\ job = [n \in Jobs |-> NoJob]
        /\ stolen = FALSE /\ deaths = 0

\* queue_candidate_issues lists issues without an automation label, and
\* maybe_queue_issue labels them one by one from that listing.
ListCandidates(p) == /\ At(p, "idle")
                     /\ lane' = [lane EXCEPT ![p].at = "queue",
                                             ![p].list = {i \in Issues : label[i] = {}}]
                     /\ UNCHANGED <<label, files, job, stolen, deaths>>
Queue(p) == /\ At(p, "queue")
            /\ \E i \in lane[p].list :
                 /\ label' = [label EXCEPT ![i] = @ \cup {"ready"}]
                 /\ lane' = [lane EXCEPT ![p].list = @ \ {i}]
            /\ UNCHANGED <<files, job, stolen, deaths>>

\* ready_issues, and the blockers of each listed issue: agent:running, or an
\* open pull request that appears linked.
ListReady(p) == /\ lane[p].at \in {"idle", "queue"}
                /\ LET ready == {i \in Issues : "ready" \in label[i]} IN
                   \E S \in SUBSET ready :
                     /\ {i \in ready : "running" \in label[i]} \subseteq S
                     /\ {i \in S : "running" \notin label[i]} \subseteq Linked
                     /\ lane' = [lane EXCEPT ![p].at = "pick", ![p].list = ready \ S, ![p].skip = S]
                /\ UNCHANGED <<label, files, job, stolen, deaths>>

Pick(p) == /\ At(p, "pick")
           /\ \E i \in lane[p].list :
                lane' = [lane EXCEPT ![p].at = "look", ![p].issue = i,
                                     ![p].list = @ \ {i}, ![p].path = Lease(i)]
           /\ UNCHANGED <<label, files, job, stolen, deaths>>

\* A blocked issue loses agent:ready.
Skip(p) == /\ At(p, "pick")
           /\ \E i \in lane[p].skip : lane' = [lane EXCEPT ![p].at = "unready", ![p].issue = i]
           /\ UNCHANGED <<label, files, job, stolen, deaths>>
Unready(p) == /\ At(p, "unready")
              /\ label' = [label EXCEPT ![lane[p].issue] = @ \ {"ready"}]
              /\ lane' = [lane EXCEPT ![p].at = "pick", ![p].issue = NoJob.issue,
                                      ![p].skip = @ \ {lane[p].issue}]
              /\ UNCHANGED <<files, job, stolen, deaths>>

EndCycle(p) == /\ At(p, "pick") /\ lane[p].list \cup lane[p].skip = {}
               /\ lane' = [lane EXCEPT ![p] = Idle]
               /\ UNCHANGED <<label, files, job, stolen, deaths>>

-----------------------------------------------------------------------------
(* Taking a file: acquire_issue_lease, acquire_raw_lock. *)

\* The next step once p has the file at its path.
Have(p) ==
  LET i == lane[p].issue
      locks == {k \in lane[p].held : k[1] = "lock"}
  IN \/ lane[p].path = Lease(i) /\ Goto(p, "recheck")
     \/ lane[p].path = Namespace(i) /\ Goto(p, "scan")
     \/ /\ lane[p].path \notin {Lease(i), Namespace(i)}
        /\ IF Cardinality(locks) < Len(LockNames(i))
           THEN Try(p, <<"lock", LockKey[i], LockNames(i)[Cardinality(locks) + 1]>>)
           ELSE Goto(p, "leave")

\* A stat of a file that has gone raises: the namespace lock is given back in a
\* finally, what else is held stays behind, and the process ends until the next cycle.
Raise(p) == /\ Unlink(lane[p].held \cap {Namespace(lane[p].issue)}, p)
            /\ lane' = [lane EXCEPT ![p] = Idle]

Look(p) == /\ At(p, "look")
           /\ Goto(p, IF Exists(lane[p].path) THEN "stat" ELSE "create")
           /\ UNCHANGED <<label, files, job, stolen, deaths>>
StatForgiving(p) == /\ At(p, "stat") /\ Exists(lane[p].path)  \* mutant of Stat
                    /\ Goto(p, "create")
                    /\ UNCHANGED <<label, files, job, stolen, deaths>>
Stat(p) == /\ At(p, "stat") /\ Exists(lane[p].path)
           /\ Goto(p, IF files[lane[p].path].old THEN "unlink" ELSE "create")
           /\ UNCHANGED <<label, files, job, stolen, deaths>>
StatRaises(p) == /\ At(p, "stat") /\ ~Exists(lane[p].path)
                 /\ Raise(p)
                 /\ UNCHANGED <<label, job, deaths>>
UnlinkStale(p) == /\ At(p, "unlink")
                  /\ Unlink({lane[p].path}, p)
                  /\ Goto(p, "create")
                  /\ UNCHANGED <<label, job, deaths>>

CreateOver(p) == /\ At(p, "create")  \* mutant of Create: no O_EXCL
                 /\ files' = [files EXCEPT ![lane[p].path] = FileOf(p)]
                 /\ lane' = [lane EXCEPT ![p].at = "write", ![p].held = @ \cup {lane[p].path}]
                 /\ UNCHANGED <<label, job, stolen, deaths>>
Create(p) == /\ At(p, "create") /\ ~Exists(lane[p].path)
             /\ files' = [files EXCEPT ![lane[p].path] = FileOf(p)]
             /\ lane' = [lane EXCEPT ![p].at = "write", ![p].held = @ \cup {lane[p].path}]
             /\ UNCHANGED <<label, job, stolen, deaths>>
Write(p) == /\ At(p, "write")
            /\ files' = [files EXCEPT ![lane[p].path].written = @ \/ p \in files[lane[p].path].owner]
            /\ Have(p)
            /\ UNCHANGED <<label, job, stolen, deaths>>

\* The file is there: the issue is passed over, the namespace lock is tried
\* again until 10 seconds are over, the scope locks taken so far are dropped.
CreateFails(p) ==
  /\ At(p, "create") /\ Exists(lane[p].path)
  /\ CASE lane[p].path[1] = "lease" -> Goto(p, "pick")
       [] lane[p].path[1] = "namespace" -> Goto(p, "look") \/ Goto(p, "drop")
       [] OTHER -> Goto(p, "drop")
  /\ UNCHANGED <<label, files, job, stolen, deaths>>

-----------------------------------------------------------------------------
(* acquire_write_scope_lease, and the worker run inside its leases. *)

\* With the issue lease held: an open pull request may have appeared.
Recheck(p) == /\ At(p, "recheck")
              /\ \/ Try(p, Namespace(lane[p].issue))
                 \/ /\ lane[p].issue \in Linked
                    /\ lane' = [lane EXCEPT ![p].at = "drop", ![p].skip = @ \cup {lane[p].issue}]
              /\ UNCHANGED <<label, files, job, stolen, deaths>>

\* active_scope_locks under the namespace lock: stale and unreadable locks are
\* removed, the others are compared with the issue's scopes.
Scan(p) ==
  /\ At(p, "scan") \/ (At(p, "scanstat") /\ Exists(lane[p].path))
  /\ LET i == lane[p].issue
         there == {k \in ScopeLocks(i) : Exists(k)}
         dead == {k \in there : files[k].old \/ ~files[k].written}
         first == <<"lock", LockKey[i], LockNames(i)[1]>>
     IN /\ Unlink(dead, p)
        /\ IF \E k \in there \ dead : \E j \in files[k].issue : Conflicts(i, j)
           THEN Goto(p, "drop")
           ELSE Try(p, first)
  /\ UNCHANGED <<label, job, deaths>>

\* read_scope_lock stats a lock it has just seen; owners give locks back
\* without the namespace lock.
ScanSees(p) == /\ At(p, "scan")
               /\ \E k \in ScopeLocks(lane[p].issue) :
                    /\ Exists(k)
                    /\ lane' = [lane EXCEPT ![p].at = "scanstat", ![p].path = k]
               /\ UNCHANGED <<label, files, job, stolen, deaths>>
ScanRaises(p) == /\ At(p, "scanstat") /\ ~Exists(lane[p].path)
                 /\ Raise(p)
                 /\ UNCHANGED <<label, job, deaths>>

Leave(p) == /\ At(p, "leave")
            /\ Unlink({Namespace(lane[p].issue)}, p)
            /\ lane' = [lane EXCEPT ![p].at = "start", ![p].held = @ \ {Namespace(lane[p].issue)}]
            /\ UNCHANGED <<label, job, deaths>>

\* A worker gets the first free id.
Free == {n \in Jobs : job[n] = NoJob}
Launch(i, waiting) ==
  \E n \in Free : /\ \A m \in Free : n <= m
                  /\ job' = [job EXCEPT ![n] = [at |-> "check", issue |-> i, lane |-> waiting]]
StartDetached(p) ==  \* mutant of Start: the worker is launched and not waited for
  /\ At(p, "start")
  /\ Launch(lane[p].issue, {})
  /\ Goto(p, "drop")
  /\ UNCHANGED <<label, files, stolen, deaths>>
Start(p) == /\ At(p, "start")
            /\ Launch(lane[p].issue, {p})
            /\ Goto(p, "wait")
            /\ UNCHANGED <<label, files, stolen, deaths>>

\* One worker a cycle: the rest of the listing is left for the next one.
Waited(p) == /\ At(p, "wait")
             /\ \E n \in Jobs :
                  /\ job[n].at = "over" /\ p \in job[n].lane
                  /\ job' = [job EXCEPT ![n] = NoJob]
             /\ lane' = [lane EXCEPT ![p].at = "drop", ![p].list = {}]
             /\ UNCHANGED <<label, files, stolen, deaths>>

\* Files are given back one by one: scope locks, namespace lock, issue lease.
Kinds == <<"lock", "namespace", "lease">>
NextToDrop(p) == CHOOSE k \in lane[p].held :
                   \A l \in lane[p].held : \E m, n \in 1..3 : m <= n /\ Kinds[m] = k[1] /\ Kinds[n] = l[1]
Drop(p) == /\ At(p, "drop")
           /\ LET k == NextToDrop(p)
                  rest == lane[p].held \ {k}
                  next == IF rest # {} THEN "drop"
                          ELSE IF lane[p].issue \in lane[p].skip THEN "unready" ELSE "pick"
              IN /\ Unlink({k}, p)
                 /\ lane' = [lane EXCEPT ![p].held = rest, ![p].at = next,
                                         ![p].issue = IF next = "pick" THEN NoJob.issue ELSE @]
           /\ UNCHANGED <<label, job, deaths>>

\* A lane dies and the next cycle of atlas-agent-unattended starts it anew; its
\* worker lives on or dies with it.
Crash(p) ==
  /\ deaths < MaxDeaths /\ deaths' = deaths + 1 /\ lane[p] # Idle
  /\ lane' = [lane EXCEPT ![p] = Idle]
  /\ \E spared \in BOOLEAN :
       job' = [n \in Jobs |-> IF p \notin job[n].lane THEN job[n]
                              ELSE IF spared /\ Running(n) THEN [job[n] EXCEPT !.lane = {}]
                              ELSE NoJob]
  /\ UNCHANGED <<label, files, stolen>>

\* lease_stale_seconds pass.  They are six hours, a worker's run is bounded by
\* the codex timeout of half an hour: only a file nobody needs gets that old.
Age(k) == /\ Exists(k) /\ ~files[k].old /\ ~Needed(k)
          /\ files' = [files EXCEPT ![k].old = TRUE]
          /\ UNCHANGED <<label, lane, job, stolen, deaths>>

-----------------------------------------------------------------------------
(* Workers. *)
Over(n) == IF job[n].lane = {} THEN NoJob ELSE [job[n] EXCEPT !.at = "over"]
Becomes(n, j) == job' = [job EXCEPT ![n] = j]
Reaches(n, l) == Becomes(n, [job[n] EXCEPT !.at = l])

\* main lists the ready issues again; issue_is_ready
CheckReady(n) == /\ job[n].at = "check"
                 /\ IF "ready" \in label[job[n].issue] /\ "running" \notin label[job[n].issue]
                    THEN Reaches(n, "label") ELSE Becomes(n, Over(n))
                 /\ UNCHANGED <<label, files, lane, stolen, deaths>>

\* process_issue labels the issue running, does the work, and clears the labels
\* by separate calls: ready, running, then pr-open or failed.
Relabel(n, from, to, labels) == /\ job[n].at = from
                                /\ label' = [label EXCEPT ![job[n].issue] = labels]
                                /\ Reaches(n, to)
                                /\ UNCHANGED <<files, lane, stolen, deaths>>
AddRunning(n) == Relabel(n, "label", "working", label[job[n].issue] \cup {"running"})
ClearReady(n) == Relabel(n, "working", "clear", label[job[n].issue] \ {"ready"})
ClearRunning(n) == Relabel(n, "clear", "mark", label[job[n].issue] \ {"running"})
MarkEnded(n) == /\ job[n].at = "mark"
                /\ label' = [label EXCEPT ![job[n].issue] = @ \cup {"ended"}]
                /\ Becomes(n, Over(n))
                /\ UNCHANGED <<files, lane, stolen, deaths>>
JobDies(n) == /\ deaths < MaxDeaths /\ deaths' = deaths + 1 /\ Running(n)
              /\ Becomes(n, Over(n))
              /\ UNCHANGED <<label, files, lane, stolen>>

\* atlas-agent-admin and atlas-agent-triage put an ended issue back in the queue.
Requeue(i) == /\ "ended" \in label[i]
              /\ label' = [label EXCEPT ![i] = (@ \ {"ended"}) \cup {"ready"}]
              /\ UNCHANGED <<files, lane, job, stolen, deaths>>

-----------------------------------------------------------------------------
LaneStep(p) ==
  \/ ListReady(p) \/ Pick(p) \/ Skip(p) \/ Unready(p)
  \/ EndCycle(p) \/ Look(p) \/ Stat(p) \/ StatRaises(p) \/ UnlinkStale(p) \/ Create(p)
  \/ Write(p) \/ CreateFails(p) \/ Recheck(p) \/ Scan(p) \/ ScanSees(p) \/ ScanRaises(p)
  \/ Leave(p) \/ Start(p) \/ Waited(p) \/ Drop(p)
JobStep(n) == CheckReady(n) \/ AddRunning(n) \/ ClearReady(n) \/ ClearRunning(n) \/ MarkEnded(n)

Next == \/ \E p \in Lanes : LaneStep(p) \/ Crash(p)
        \/ \E n \in Jobs : JobStep(n) \/ JobDies(n)
        \/ \E k \in Paths : Age(k)

\* agent:ready is added again and again, by auto-queueing and by requeueing.
Refill == (\E p \in Lanes : ListCandidates(p) \/ Queue(p)) \/ (\E i \in Issues : Requeue(i))
RefilledNext == Next \/ Refill

Spec == Init /\ [][Next]_vars

\* Lanes and workers keep running, cycles follow each other, time passes.
FairSpec == /\ Spec
            /\ \A p \in Lanes : WF_vars(LaneStep(p))
            /\ \A n \in Jobs : WF_vars(JobStep(n))
            /\ \A k \in Paths : WF_vars(Age(k))
-----------------------------------------------------------------------------
(* Properties. *)

\* Type correctness of the labels, files, lanes and workers.
TypeOK ==
  /\ label \in [Issues -> SUBSET {"ready", "running", "ended"}]
  /\ \A k \in Paths : \/ files[k] = NoFile
                      \/ \E p \in Lanes, i \in Issues, w, o \in BOOLEAN :
                           files[k] = [owner |-> {p}, issue |-> {i}, written |-> w, old |-> o]
  /\ \A p \in Lanes : /\ lane[p].list \subseteq Issues /\ lane[p].skip \subseteq Issues
                      /\ lane[p].issue \in Issues /\ lane[p].path \in Paths
                      /\ lane[p].held \subseteq Paths
                      /\ lane[p].at \in {"idle", "queue", "pick"} => lane[p].held = {}
  /\ \A n \in Jobs : job[n] = NoJob \/ /\ Running(n) \/ job[n].at = "over"
                                       /\ job[n].issue \in Issues /\ job[n].lane \in SUBSET Lanes
  /\ stolen \in BOOLEAN /\ deaths \in 0..MaxDeaths

\* acquire_issue_lease: two workers never run for one issue, whichever listings
\* the lanes work from and wherever they die, unless a file that was needed was
\* unlinked.
OneWorkerPerIssue ==
  ~stolen => \A m, n \in Jobs : Running(m) /\ Running(n) /\ job[m].issue = job[n].issue => m = n

\* What scopes say, on their own: a path stands for everything inside it, files of
\* one migration or schema directory depend on each other, and an issue that
\* declares nothing, or not exactly, may write anything.
Inside(f, s) == Len(f) >= Len(s) /\ SubSeq(f, 1, Len(s)) = s
Dir(s) == SubSeq(s, 1, Len(s) - 1)
Vague(i) == WriteScope[i] = << >> \/ \E s \in Range(WriteScope[i]) : \E n \in DOMAIN s : s[n] = Star
MayMeet(i, j) ==
  \/ Vague(i) \/ Vague(j)
  \/ \E a \in Range(WriteScope[i]), b \in Range(WriteScope[j]) :
       \/ \E f \in {a, b} : Inside(f, a) /\ Inside(f, b)
       \/ Dir(a) = Dir(b) /\ \E s, t \in Schema : s \in Range(a) /\ t \in Range(b)

\* acquire_write_scope_lease: workers whose issues have the same branch and
\* overlapping or unknown write scopes never run side by side.
ScopesExcluded ==
  \A m, n \in Jobs :
    /\ Running(m) /\ Running(n)
    /\ job[m].issue # job[n].issue
    /\ BaseBranch[job[m].issue] = BaseBranch[job[n].issue]
    => ~MayMeet(job[m].issue, job[n].issue)
ScopesExcludedUnlessStolen == ~stolen => ScopesExcluded

\* Both, for lanes that queue issues again from listings however old (automatic
\* queueing, and requeueing, beside the cleanup of labels).
StillApart == OneWorkerPerIssue /\ ScopesExcludedUnlessStolen

\* An issue that is ready does not wait for ever on files: it is taken up or taken
\* out of the queue, or the worker of an issue it conflicts with runs, although lanes
\* pass over each other's issues, give up on a busy namespace, and leave leases
\* behind when they raise.
Occupied(i) == \E n \in Jobs : Running(n) /\ job[n].issue # i /\ Conflicts(job[n].issue, i)
ReadyIsTaken == \A i \in Issues : "ready" \in label[i] ~> "ready" \notin label[i] \/ Occupied(i)
=============================================================================
