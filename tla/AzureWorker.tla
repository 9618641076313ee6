----------------------------- MODULE AzureWorker -----------------------------
(***************************************************************************)
(* atlas_azure_worker.py: a reviewed packet is claimed once, worked by     *)
(* four roles in an isolated worktree, accepted, reviewed and prepared;    *)
(* later calls of publish push its branch and open its draft pull request. *)
(* Workers and publishers may be killed, grants withdrawn, requests and    *)
(* answers lost or late, and somebody may commit to the worktree any time. *)
(*                                                                         *)
(* A candidate is a commit number, 0 the base commit.  The publication     *)
(* lock of a packet is a flock, so one publisher per packet is modelled    *)
(* and its death frees the lock.                                           *)
(***************************************************************************)
EXTENDS Naturals, FiniteSets, SequencesExt

CONSTANTS
  AzurePackets,
  Worked,       \* bound: the packets whose execution goes on after the claim
  ScopeChoices, \* the write scopes packets may have: sets of component sequences
  AnyName,      \* a component with *, ? or [ in it
  FilePaths,    \* the paths the scopes are compared on
  MaxCommits,   \* bound on the commits in a worktree
  MaxFaults     \* bound on deaths, on refused updates of the claim and on edits of people

\* Scopes and paths are sequences of components.
ASSUME PathAssumption ==
  /\ \A choice \in ScopeChoices : \A s \in choice : s \in Seq(Range(s))
  /\ \A path \in FilePaths : path \in Seq(Range(path))
ASSUME WorkerBounds == MaxCommits \in Nat /\ MaxFaults \in Nat

VARIABLES
  scope,     \* the write scope of each packet
  claims,    \* claims.json
  head,      \* HEAD of each packet's worktree
  executor,  \* the process executing each packet
  publisher, \* the process publishing each packet
  remote,    \* the task branch and the pull requests of each packet
  sent,      \* push and POST requests on their way
  authorized,\* the grant, the inspection and the human gates hold now
  past       \* history: candidates accepted, candidates passed, requests made, faults

azureVars == <<scope, claims, head, executor, publisher, remote, sent, authorized, past>>
-----------------------------------------------------------------------------
(* Scopes.                                                                  *)

\* _scope_root: the components before the first one with a glob in it.
ScopeRoot(s) ==
  LET globs == {i \in DOMAIN s : s[i] = AnyName}
  IN  IF globs = {} THEN s ELSE SubSeq(s, 1, (CHOOSE i \in globs : \A j \in globs : i <= j) - 1)

\* Mutant of ScopesOverlap: only equal roots conflict.
ScopesOverlapEqual(left, right) == \E s \in left, t \in right : ScopeRoot(s) = ScopeRoot(t)

ScopesOverlap(left, right) ==
  \/ left = {} \/ right = {}
  \/ \E s \in left, t \in right : \/ IsPrefix(ScopeRoot(s), ScopeRoot(t))
                                  \/ IsPrefix(ScopeRoot(t), ScopeRoot(s))

\* fnmatch of a path: a glob takes any characters, slashes included, so one
\* component or more.
GlobMatches(path, s) ==
  \E f \in [DOMAIN path -> DOMAIN s] :
    /\ \A i, j \in DOMAIN path : i <= j => f[i] <= f[j]
    /\ Range(f) = DOMAIN s
    /\ \A i \in DOMAIN path : s[f[i]] = AnyName \/ s[f[i]] = path[i]
    /\ \A i, j \in DOMAIN path : i # j /\ f[i] = f[j] => s[f[i]] = AnyName

\* path_allowed
PathAllowed(path, scopes) ==
  \E s \in scopes : IF AnyName \in Range(s) THEN GlobMatches(path, s) ELSE IsPrefix(s, path)
-----------------------------------------------------------------------------
NoClaim == [state |-> "none", candidate |-> 0, branch_write_attempted |-> FALSE, pr_write_attempted |-> FALSE]
NoWorker == [pc |-> "none", candidate |-> 0, launched |-> FALSE]
NoPublisher == [pc |-> "idle", stage |-> "first", claim |-> NoClaim, prs |-> {}, branch |-> 0]

AzureInit ==
  /\ scope \in [AzurePackets -> ScopeChoices]
  /\ claims = [p \in AzurePackets |-> NoClaim]
  /\ head = [p \in AzurePackets |-> 0]
  /\ executor = [p \in AzurePackets |-> NoWorker]
  /\ publisher = [p \in AzurePackets |-> NoPublisher]
  /\ remote = [p \in AzurePackets |-> [branch |-> 0, prs |-> {}]]
  /\ sent = {}
  /\ authorized = TRUE
  /\ past = [accepted |-> {}, passed |-> {},
             pushes |-> [p \in AzurePackets |-> 0], posts |-> [p \in AzurePackets |-> 0],
             faults |-> 0]

Moves(p, pc) == executor' = [executor EXCEPT ![p].pc = pc, ![p].launched = FALSE]
SetState(p, s) == claims' = [claims EXCEPT ![p].state = s]

\* The handler of an exception writes the claim too, unless another process
\* holds claims.lock just then and the update raises in turn.
FailsAs(p, s) == \/ SetState(p, s) /\ UNCHANGED past
                 \/ /\ past.faults < MaxFaults
                    /\ past' = [past EXCEPT !.faults = @ + 1]
                    /\ UNCHANGED claims

\* Mutant of ClaimPacket: the conflicts are looked for among unfinished claims only.
ClaimBesideFinished(p) ==
  /\ claims[p].state = "none" /\ authorized
  /\ \A q \in AzurePackets : claims[q].state \notin {"none", "prepared", "blocked"} => ~ScopesOverlap(scope[p], scope[q])
  /\ SetState(p, "claimed")
  /\ Moves(p, "start")
  /\ UNCHANGED <<scope, head, publisher, remote, sent, authorized, past>>

\* execute up to ClaimStore.claim: no claim of the packet, and none whose scope
\* overlaps, was ever made.
ClaimPacket(p) ==
  /\ claims[p].state = "none" /\ authorized
  /\ \A q \in AzurePackets : claims[q].state # "none" => ~ScopesOverlap(scope[p], scope[q])
  /\ SetState(p, "claimed")
  /\ Moves(p, "start")
  /\ UNCHANGED <<scope, head, publisher, remote, sent, authorized, past>>

Start(p) ==
  /\ executor[p].pc = "start" /\ p \in Worked /\ authorized
  /\ SetState(p, "running")
  /\ Moves(p, "planning")
  /\ UNCHANGED <<scope, head, publisher, remote, sent, authorized, past>>

WorkerRoles == {"planning", "implementation", "review", "repair", "review_again"}

\* _role: authorized, its output file new, a call reserved from the routing
\* budget (RoutingBudget), then launched.
LaunchRole(p) ==
  /\ executor[p].pc \in WorkerRoles /\ ~executor[p].launched /\ authorized
  /\ executor' = [executor EXCEPT ![p].launched = TRUE]
  /\ UNCHANGED <<scope, claims, head, publisher, remote, sent, authorized, past>>

Passes(p, next) ==
  /\ Moves(p, next)
  /\ UNCHANGED past

\* The role answers with evidence that names HEAD; planning and review must have
\* left it where it was.  A failed first review is repaired once.
Answers(p) ==
  /\ executor[p].launched
  /\ \/ executor[p].pc = "planning" /\ head[p] = 0 /\ Passes(p, "implementation")
     \/ executor[p].pc = "implementation" /\ Passes(p, "pick")
     \/ executor[p].pc = "repair" /\ Passes(p, "pick_again")
     \/ executor[p].pc = "review" /\ head[p] = executor[p].candidate /\ Passes(p, "repair")
     \/ /\ executor[p].pc \in {"review", "review_again"}
        /\ head[p] = executor[p].candidate
        /\ Moves(p, "finish")
        /\ past' = [past EXCEPT !.passed = @ \cup {<<p, head[p]>>}]
  /\ UNCHANGED <<scope, claims, head, publisher, remote, sent, authorized>>

\* The candidate is whatever HEAD is now.
Pick(p) ==
  /\ \/ executor[p].pc = "pick" /\ head[p] # 0
     \/ executor[p].pc = "pick_again"
  /\ executor' = [executor EXCEPT ![p].candidate = head[p],
                              ![p].pc = IF @ = "pick" THEN "accept" ELSE "accept_again"]
  /\ UNCHANGED <<scope, claims, head, publisher, remote, sent, authorized, past>>

\* Mutant of Accept: the receipts of the first round serve for the repair.
AcceptOnce(p) ==
  /\ executor[p].pc \in {"accept", "accept_again"} /\ authorized
  /\ head[p] = executor[p].candidate
  /\ IF executor[p].pc = "accept" THEN past' = [past EXCEPT !.accepted = @ \cup {<<p, head[p]>>}] ELSE UNCHANGED past
  /\ Moves(p, IF executor[p].pc = "accept" THEN "review" ELSE "review_again")
  /\ UNCHANGED <<scope, claims, head, publisher, remote, sent, authorized>>

\* _acceptance: older receipts are put aside, every command passes and HEAD is
\* still the candidate.
Accept(p) ==
  /\ executor[p].pc \in {"accept", "accept_again"} /\ authorized
  /\ head[p] = executor[p].candidate
  /\ past' = [past EXCEPT !.accepted = @ \cup {<<p, head[p]>>}]
  /\ Moves(p, IF executor[p].pc = "accept" THEN "review" ELSE "review_again")
  /\ UNCHANGED <<scope, claims, head, publisher, remote, sent, authorized>>

\* Mutant of FinishPacket: the commit that is prepared is read after the review.
FinishWithHead(p) ==
  /\ executor[p].pc = "finish" /\ authorized
  /\ claims' = [claims EXCEPT ![p].state = "prepared", ![p].candidate = head[p]]
  /\ Moves(p, "done")
  /\ UNCHANGED <<scope, head, publisher, remote, sent, authorized, past>>

\* HEAD is still the candidate, which becomes the prepared one.
FinishPacket(p) ==
  /\ executor[p].pc = "finish" /\ authorized /\ head[p] = executor[p].candidate
  /\ claims' = [claims EXCEPT ![p].state = "prepared", ![p].candidate = head[p]]
  /\ Moves(p, "done")
  /\ UNCHANGED <<scope, head, publisher, remote, sent, authorized, past>>

\* Any step of execute may raise instead: no authority, no evidence, a negative
\* decision, a failed command, another HEAD.
Blocks(p) ==
  /\ executor[p].pc \notin {"none", "done"}
  /\ FailsAs(p, "blocked")
  /\ Moves(p, "done")
  /\ UNCHANGED <<scope, head, publisher, remote, sent, authorized>>

Execute(p) == \/ ClaimPacket(p) \/ Start(p) \/ LaunchRole(p) \/ Answers(p) \/ Pick(p) \/ Accept(p)
              \/ FinishPacket(p) \/ Blocks(p)
-----------------------------------------------------------------------------
(* publish.                                                                 *)

Publishable == {"prepared", "publishing", "publication_uncertain", "pr_open"}
Pub(p, pc) == publisher' = [publisher EXCEPT ![p].pc = pc]
PubEnds(p) == publisher' = [publisher EXCEPT ![p] = NoPublisher]
Quiet == UNCHANGED <<scope, head, executor, remote, authorized>>

\* _publication_claim, verify_prepared_evidence: prepared, and nothing has changed since.
PreparedEvidence(p) == claims[p].state \in Publishable /\ head[p] = claims[p].candidate

\* Mutant of PublishStart: an uncertain publication is left to the operator.
PublishStartCertain(p) ==
  /\ publisher[p].pc = "idle" /\ authorized
  /\ claims[p].state \in {"prepared", "publishing", "pr_open"} /\ head[p] = claims[p].candidate
  /\ publisher' = [publisher EXCEPT ![p] = [NoPublisher EXCEPT !.pc = "prs", !.claim = claims[p]]]
  /\ Quiet /\ UNCHANGED <<claims, sent, past>>

\* The publication lock is free: the claim is read once, and the prepared
\* evidence is verified against the worktree.
PublishStart(p) ==
  /\ publisher[p].pc = "idle" /\ authorized /\ PreparedEvidence(p)
  /\ publisher' = [publisher EXCEPT ![p] = [NoPublisher EXCEPT !.pc = "prs", !.claim = claims[p]]]
  /\ Quiet /\ UNCHANGED <<claims, sent, past>>

\* _inventory: all pull requests first, then the branch.
ReadPrs(p) ==
  /\ publisher[p].pc = "prs"
  /\ publisher' = [publisher EXCEPT ![p].prs = remote[p].prs, ![p].pc = "refs"]
  /\ Quiet /\ UNCHANGED <<claims, sent, past>>
ReadRefs(p) ==
  /\ publisher[p].pc = "refs"
  /\ publisher' = [publisher EXCEPT ![p].branch = remote[p].branch, ![p].pc = "decide"]
  /\ Quiet /\ UNCHANGED <<claims, sent, past>>

\* _matching_publication: exactly one pull request, open, for the candidate and
\* as it was posted.
Candidate(p) == publisher[p].claim.candidate
Collides(p) ==
  \/ publisher[p].branch \notin {0, Candidate(p)}
  \/ Cardinality(publisher[p].prs) > 1
  \/ publisher[p].prs # {} /\ (publisher[p].branch = 0 \/ \E r \in publisher[p].prs : r.candidate # Candidate(p) \/ ~r.open \/ ~r.intact)
Existing(p) == publisher[p].prs # {} /\ ~Collides(p)

\* Found at any of the three readings: the claim records it.
Reconcile(p) ==
  /\ publisher[p].pc = "decide" /\ authorized /\ Existing(p)
  /\ SetState(p, "pr_open")
  /\ PubEnds(p)
  /\ Quiet /\ UNCHANGED <<sent, past>>

\* Nothing is there: a write that was tried before is never repeated.
MayWrite(p) ==
  /\ publisher[p].pc = "decide" /\ publisher[p].stage = "first" /\ authorized
  /\ publisher[p].prs = {} /\ ~Collides(p)
  /\ publisher[p].claim.state # "pr_open" /\ ~publisher[p].claim.pr_write_attempted
Decide(p) ==
  /\ MayWrite(p)
  /\ SetState(p, "publishing")
  /\ \/ publisher[p].branch # 0 /\ Pub(p, "intend_post")
     \/ /\ publisher[p].branch = 0 /\ ~publisher[p].claim.branch_write_attempted
        /\ Pub(p, "intend_push")
  /\ Quiet /\ UNCHANGED <<sent, past>>

IntendPush(p) ==
  /\ publisher[p].pc = "intend_push"
  /\ claims' = [claims EXCEPT ![p].branch_write_attempted = TRUE]
  /\ Pub(p, "push")
  /\ Quiet /\ UNCHANGED <<sent, past>>

\* The create-only push leaves, or the authority ended while it waited for its slot.
Push(p) ==
  /\ publisher[p].pc = "push"
  /\ \/ /\ authorized
        /\ sent' = sent \cup {[packet |-> p, kind |-> "push", candidate |-> Candidate(p)]}
        /\ past' = [past EXCEPT !.pushes[p] = @ + 1]
     \/ ~authorized /\ UNCHANGED <<sent, past>>
  /\ publisher' = [publisher EXCEPT ![p].pc = "prs", ![p].stage = "pushed"]
  /\ Quiet /\ UNCHANGED claims

\* The branch is confirmed by a fresh reading.
Confirm(p) ==
  /\ publisher[p].pc = "decide" /\ publisher[p].stage = "pushed" /\ authorized
  /\ publisher[p].prs = {} /\ publisher[p].branch = Candidate(p)
  /\ Pub(p, "intend_post")
  /\ Quiet /\ UNCHANGED <<claims, sent, past>>

\* Mutant of IntendPost: the attempt is recorded with its answer.
IntendPostLater(p) ==
  /\ publisher[p].pc = "intend_post" /\ authorized /\ head[p] = Candidate(p)
  /\ Pub(p, "post")
  /\ Quiet /\ UNCHANGED <<claims, sent, past>>

IntendPost(p) ==
  /\ publisher[p].pc = "intend_post" /\ authorized /\ head[p] = Candidate(p)
  /\ claims' = [claims EXCEPT ![p].pr_write_attempted = TRUE]
  /\ Pub(p, "post")
  /\ Quiet /\ UNCHANGED <<sent, past>>

\* The POST of the draft leaves, or before_write refuses it; either way the
\* outcome is read back.
Post(p) ==
  /\ publisher[p].pc = "post"
  /\ \/ /\ authorized
        /\ sent' = sent \cup {[packet |-> p, kind |-> "post", candidate |-> Candidate(p)]}
        /\ past' = [past EXCEPT !.posts[p] = @ + 1]
     \/ ~authorized /\ UNCHANGED <<sent, past>>
  /\ publisher' = [publisher EXCEPT ![p].pc = "prs", ![p].stage = "posted"]
  /\ Quiet /\ UNCHANGED claims

\* What makes publish raise by itself ...
PostRefused(p) ==
  \/ /\ publisher[p].pc = "decide"
     /\ \/ ~authorized \/ Collides(p)
        \/ /\ publisher[p].prs = {}
           /\ CASE publisher[p].stage = "first" ->
                     \/ publisher[p].claim.state = "pr_open" \/ publisher[p].claim.pr_write_attempted
                     \/ publisher[p].branch = 0 /\ publisher[p].claim.branch_write_attempted
                [] publisher[p].stage = "pushed" -> publisher[p].branch = 0
                [] OTHER -> TRUE
  \/ publisher[p].pc = "intend_post" /\ (~authorized \/ head[p] # Candidate(p))

\* ... or because a reading or a write of its own failed.  Before the claim was
\* set to publishing nothing is written, afterwards the publication is uncertain.
Untouched(p) == /\ publisher[p].stage = "first" /\ publisher[p].pc \in {"prs", "refs", "decide"}
                /\ ~MayWrite(p)
Gives(p) == /\ publisher[p].pc # "idle"
            /\ \/ PostRefused(p) /\ UNCHANGED past
               \/ past.faults < MaxFaults /\ past' = [past EXCEPT !.faults = @ + 1]
            /\ \/ Untouched(p) /\ UNCHANGED claims
               \/ ~Untouched(p) /\ SetState(p, "publication_uncertain")
               \/ past' # past /\ UNCHANGED claims
            /\ PubEnds(p)
            /\ Quiet /\ UNCHANGED sent

Publish(p) == \/ PublishStart(p) \/ ReadPrs(p) \/ ReadRefs(p) \/ Reconcile(p) \/ Decide(p)
              \/ IntendPush(p) \/ Push(p) \/ Confirm(p) \/ IntendPost(p) \/ Post(p) \/ Gives(p)
-----------------------------------------------------------------------------
(* Everybody else.                                                          *)

\* The service takes a request, now or long after its sender gave up.
Take(r) ==
  LET here == remote[r.packet]
  IN  /\ \/ /\ r.kind = "push" /\ here.branch = 0
            /\ remote' = [remote EXCEPT ![r.packet].branch = r.candidate]
         \/ /\ r.kind = "post" /\ here.branch = r.candidate
            /\ remote' = [remote EXCEPT ![r.packet].prs = @ \cup
                 {[candidate |-> r.candidate, open |-> TRUE, intact |-> TRUE, no |-> Cardinality(@)]}]
      /\ sent' = sent \ {r}
      /\ UNCHANGED <<scope, claims, head, executor, publisher, authorized, past>>
Drop(r) == sent' = sent \ {r} /\ UNCHANGED <<scope, claims, head, executor, publisher, remote, authorized, past>>

\* A person merges or abandons the pull request; its branch goes with it.
Close(p) == /\ \E r \in remote[p].prs : r.open
            /\ remote' = [remote EXCEPT ![p] = [branch |-> 0, prs |-> {[r EXCEPT !.open = FALSE] : r \in @.prs}]]
            /\ UNCHANGED <<scope, claims, head, executor, publisher, sent, authorized, past>>

\* A person marks the pull request ready, retargets it, describes it anew or pushes
\* to its branch, or takes that back.
Edit(p) == /\ past.faults < MaxFaults /\ past' = [past EXCEPT !.faults = @ + 1]
           /\ \E r \in remote[p].prs :
                /\ r.open
                /\ remote' = [remote EXCEPT ![p].prs = (@ \ {r}) \cup {[r EXCEPT !.intact = ~@]}]
           /\ UNCHANGED <<scope, claims, head, executor, publisher, sent, authorized>>

\* A commit in the worktree: by the role at work, by the orphan of a dead worker,
\* or by a person.
Commit(p) == /\ executor[p].pc # "none" /\ head[p] < MaxCommits
             /\ head' = [head EXCEPT ![p] = @ + 1]
             /\ UNCHANGED <<scope, claims, executor, publisher, remote, sent, authorized, past>>

Withdraw == authorized' = ~authorized /\ UNCHANGED <<scope, claims, head, executor, publisher, remote, sent, past>>

\* A worker or publisher is killed.
DieWorking(p) == /\ executor[p].pc \notin {"none", "done"}
                 /\ Moves(p, "done")
                 /\ UNCHANGED publisher
DiePublishing(p) == publisher[p].pc # "idle" /\ PubEnds(p) /\ UNCHANGED executor
Die(p) == /\ past.faults < MaxFaults
          /\ DieWorking(p) \/ DiePublishing(p)
          /\ past' = [past EXCEPT !.faults = @ + 1]
          /\ UNCHANGED <<scope, claims, head, remote, sent, authorized>>

AzureNext == \/ \E p \in AzurePackets : Execute(p) \/ Publish(p) \/ Commit(p) \/ Close(p) \/ Edit(p) \/ Die(p)
             \/ \E r \in sent : Take(r) \/ Drop(r)
             \/ Withdraw

AzureSpec == AzureInit /\ [][AzureNext]_azureVars

\* Operators publish again, running publishers get on, requests do not fly for
\* ever.  Nobody owes a commit, a fault, a grant or the closing of a pull request.
AzureFairness == /\ \A p \in AzurePackets : WF_azureVars(Publish(p))
                 /\ WF_azureVars(\E r \in sent : Take(r) \/ Drop(r))
FairAzureSpec == AzureSpec /\ AzureFairness
-----------------------------------------------------------------------------
ClaimType == [state : {"none", "claimed", "running", "blocked"} \cup Publishable, candidate : 0..MaxCommits,
              branch_write_attempted : BOOLEAN, pr_write_attempted : BOOLEAN]
PrType == [candidate : 1..MaxCommits, open : BOOLEAN, intact : BOOLEAN, no : Nat]
ApiCalls == [packet : AzurePackets, kind : {"push", "post"}, candidate : 1..MaxCommits]
AzureTypeOK ==
  /\ claims \in [AzurePackets -> ClaimType]
  /\ \A p \in AzurePackets : claims[p].state \in Publishable => claims[p].candidate > 0
  /\ head \in [AzurePackets -> 0..MaxCommits]
  /\ executor \in [AzurePackets -> [pc : WorkerRoles \cup {"none", "start", "pick", "accept", "pick_again", "accept_again", "finish", "done"},
                                  candidate : 0..MaxCommits, launched : BOOLEAN]]
  /\ \A p \in AzurePackets :
       /\ publisher[p].pc \in {"idle", "prs", "refs", "decide", "intend_push", "push", "intend_post", "post"}
       /\ publisher[p].stage \in {"first", "pushed", "posted"}
       /\ remote[p].branch \in 0..MaxCommits /\ remote[p].prs \subseteq PrType
  /\ sent \subseteq ApiCalls /\ authorized \in BOOLEAN

\* Through deaths, lost and late answers and publishers that come back, a packet
\* is pushed at most once and its pull request asked for at most once.  What
\* reaches the remote is a commit on which every acceptance command passed and
\* which the review passed, whatever was committed to the worktree meanwhile; a
\* claim says pr_open only when the pull request was there, for its candidate.
PublishedOnceAsReviewed ==
  /\ AzureTypeOK
  /\ \A p \in AzurePackets : past.pushes[p] <= 1 /\ past.posts[p] <= 1
  /\ \A p \in AzurePackets :
       LET out == {remote[p].branch} \cup {r.candidate : r \in remote[p].prs} \cup {r.candidate : r \in {t \in sent : t.packet = p}}
       IN  /\ \A c \in out \ {0} : <<p, c>> \in past.accepted \cap past.passed
           /\ claims[p].state = "pr_open" => \E r \in remote[p].prs : r.candidate = claims[p].candidate

\* Two packets that hold a claim never both may write a path: the prefixes that
\* are compared at the claim cover the globs that are matched after the roles.
ClaimsShareNoPath ==
  \A p, q \in AzurePackets : p # q /\ claims[p].state # "none" /\ claims[q].state # "none" =>
    \A path \in FilePaths : ~(PathAllowed(path, scope[p]) /\ PathAllowed(path, scope[q]))

\* A pull request that stays open and as it was posted, while the authority and the
\* worktree stay as they were, is recorded in the end, however its POST was answered
\* and whatever people did to it and took back before.
OpenIsRecorded ==
  \A p \in AzurePackets :
    <>[](authorized /\ head[p] = claims[p].candidate /\ \E r \in remote[p].prs : r.open /\ r.intact)
      => <>[](claims[p].state = "pr_open" \/ claims[p].state \notin Publishable)
=============================================================================
