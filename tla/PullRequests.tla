---------------------------- MODULE PullRequests ----------------------------
(***************************************************************************)
(* The pull requests of one repository and the unattended cycles that      *)
(* review, validate, repair and merge them.  A cycle runs its stages one   *)
(* after the other; a stage runs one command, or one per target, and every *)
(* command reads GitHub first and writes later.  Meanwhile people push and *)
(* object, checks conclude, and the commands of a cycle that timed out go  *)
(* on beside the next cycle.                                               *)
(***************************************************************************)
EXTENDS Naturals, FiniteSets, Sequences

CONSTANTS Pulls,        \* numbers of pull requests
          Overlapping,  \* the pairs {p, q} that change a common file
          IssueNumbers, \* the issues that pull requests are linked to
          Settings,     \* the choices of the issue each one is linked to, of those whose
                        \* repository publishes checks, and of the stages of a cycle
          Cycles,       \* as many as there may be cycles with commands at a time
          MaxHead,      \* commits of one pull request
          MaxSurprises  \* failures, and commits, objections and settings of people

ASSUME PullsAssumption ==
  /\ Pulls \subseteq Nat /\ Overlapping \subseteq SUBSET Pulls
  /\ \A s \in Settings :
       /\ s.link \in [Pulls -> IssueNumbers] /\ s.checked \subseteq Pulls /\ s.stages # << >>
       /\ s.stages \in Seq({"reconcile", "dispatch", "review", "semantic-review",
                            "local-validate", "repair", "finalize"})
  /\ MaxHead \in Nat \ {0} /\ MaxSurprises \in Nat /\ Cycles # {}

VARIABLES pull,   \* the pull requests as GitHub has them
          issue,  \* the lifecycle label of each linked issue
          given,  \* one of the settings
          driver, \* the cycle that goes on from stage to stage
          chain,  \* the stage of each cycle, and what its command has read
          task,   \* its command of each target of the stage
          past    \* what happened, for the properties and the bounds
pullVars == <<pull, issue, given, driver, chain, task, past>>

\* The labels a review gives that a later command reads; the others only tell people.
\* A local validation adds and removes one of its own.
ReviewLabels == {"approved", "superseded", "needs-repair"}
Read == ReviewLabels \cup {"validated"}
Unseen == [state |-> "unseen"]
NoTask == [pc |-> "none", head |-> 0, read |-> 0]
NoTasks == [p \in Pulls |-> NoTask]

Open(p) == pull[p].state = "open"
OpenPulls == {p \in Pulls : Open(p)}
Overlap(p, q) == {p, q} \in Overlapping /\ p # q
FirstOf(S) == CHOOSE p \in S : \A q \in S : p <= q

\* A new head: its checks and its evidence start anew.
Fresh(p) == IF p \in given.checked THEN "pending" ELSE "none"
Draft(p) == [state |-> "open", draft |-> TRUE, head |-> 1, clean |-> TRUE, blocked |-> FALSE,
             asked |-> FALSE, wanted |-> FALSE, labels |-> {}, checks |-> Fresh(p),
             semantic |-> "missing", tested |-> FALSE]
PushedKeeping(p, pr) == [pr EXCEPT !.head = @ + 1, !.checks = Fresh(p)]  \* mutant of Pushed
Pushed(p, pr) ==
  [pr EXCEPT !.head = @ + 1, !.checks = Fresh(p), !.semantic = "missing", !.tested = FALSE]
Unopened == [state |-> "unopened"]
Merged == [state |-> "merged"]

CanSurprise == past.failures + past.moves < MaxSurprises
Failed == [past EXCEPT !.failures = @ + 1]
Moved == [past EXCEPT !.moves = @ + 1]

\* What is known of a head is not known of the next one.
Cleared(pst, p) == [pst EXCEPT !.approved = @ \ {p}, !.judged = @ \ {p}]

-----------------------------------------------------------------------------
(* The driver *)

ChainStages == given.stages
Parallel == {"semantic-review", "local-validate", "repair"}
Kind(c) == IF chain[c].phase = "over" THEN "none" ELSE ChainStages[chain[c].stage]

NoRoute == [p \in Pulls |-> "none"]

\* The stage that begins, with the route of the last review that succeeded.  When
\* none did, repairs follow the labels and comments of earlier ones.
Wanted == {p \in OpenPulls : pull[p].wanted /\ "needs-repair" \in pull[p].labels}
Entered(n, route) ==
  [stage |-> n, route |-> route, phase |-> "look", seen |-> [p \in Pulls |-> Unseen],
   had |-> [p \in Pulls |-> {}], verdict |-> NoRoute, next |-> NoRoute,
   todo |-> LET Routed(r) == {p \in Pulls : route[p] = r}
            IN  CASE ChainStages[n] \in {"review", "finalize"} -> OpenPulls
                  [] ChainStages[n] = "repair" ->
                       (IF route = NoRoute THEN Wanted ELSE Routed("repair")) \ past.tried
                  [] ChainStages[n] \in {"semantic-review", "local-validate"} ->
                       Routed(ChainStages[n])
                  [] OTHER -> {}]

FirstStage == Entered(1, NoRoute)
NoStage == [Entered(1, NoRoute) EXCEPT !.phase = "over", !.todo = {}]

\* After a stage comes the next one, unless nobody drives the cycle any more.
Following(c, route) ==
  CASE c # driver -> NoStage
    [] c = driver /\ chain[c].stage = Len(ChainStages) -> FirstStage
    [] OTHER -> Entered(chain[c].stage + 1, route)
Ends(c, route) == /\ chain' = [chain EXCEPT ![c] = Following(c, route)]
                  /\ task' = [task EXCEPT ![c] = NoTasks]

\* The command of a stage fails, and the cycle goes on with the routes it has.
CommandFails(c) ==
  /\ Kind(c) \in {"review", "finalize"} /\ chain[c].todo # {} /\ CanSurprise
  /\ Ends(c, chain[c].route)
  /\ past' = [Failed EXCEPT !.merged = {}]
  /\ UNCHANGED <<pull, issue, given, driver>>

\* A cycle times out: its driver dies, but not the commands it has started, and the
\* next cycle begins beside them.
ChainDies ==
  /\ CanSurprise
  /\ \E next \in Cycles \ {driver}, unstarted \in SUBSET chain[driver].todo :
       /\ chain[next].phase = "over" /\ driver' = next
       /\ Kind(driver) \notin Parallel => unstarted = {}
       /\ \A p \in unstarted : task[driver][p].pc = "none"
       /\ chain' = [chain EXCEPT ![driver].todo = @ \ unstarted, ![driver].route = NoRoute,
                                 ![driver].next = NoRoute, ![next] = FirstStage]
  /\ past' = [Failed EXCEPT !.merged = {}]
  /\ UNCHANGED <<pull, issue, given, task>>

\* The host stops, and every command with it.
HostStops ==
  /\ CanSurprise
  /\ chain' = [c \in Cycles |-> IF c = driver THEN FirstStage ELSE NoStage]
  /\ task' = [c \in Cycles |-> NoTasks]
  /\ past' = [Failed EXCEPT !.merged = {}]
  /\ UNCHANGED <<pull, issue, given, driver>>

StageEnds(c) ==
  /\ chain[c].todo = {} /\ Kind(c) \in Parallel \cup {"dispatch"}
  /\ Ends(c, chain[c].route)
  /\ UNCHANGED <<pull, issue, given, driver, past>>

-----------------------------------------------------------------------------
(* Issues: reconcile and dispatch *)

\* A listing that fails reads as one without pull requests.
Reconcile(c) ==
  /\ Kind(c) = "reconcile"
  /\ \E unread \in SUBSET {i \in IssueNumbers : issue[i] = "pr-open"} :
       /\ unread # {} => CanSurprise
       /\ past' = IF unread = {} THEN past ELSE Failed
       /\ LET Listed(i) == {p \in OpenPulls : given.link[p] = i /\ i \notin unread}
          IN  issue' = [i \in IssueNumbers |->
                          IF issue[i] = "pr-open" /\ Listed(i) = {} THEN "ready" ELSE issue[i]]
  /\ Ends(c, chain[c].route)
  /\ UNCHANGED <<pull, given, driver>>

\* A worker of a ready issue publishes a draft.
Publish(c, p) ==
  /\ Kind(c) = "dispatch" /\ pull[p].state = "unopened" /\ issue[given.link[p]] = "ready"
  /\ \A q \in Pulls : q < p /\ given.link[q] = given.link[p] => pull[q].state # "unopened"
  /\ pull' = [pull EXCEPT ![p] = Draft(p)]
  /\ issue' = [issue EXCEPT ![given.link[p]] = "pr-open"]
  /\ UNCHANGED <<given, driver, chain, task, past>>

-----------------------------------------------------------------------------
(* Review *)

Turn(c, p) == chain[c].todo # {} /\ p = FirstOf(chain[c].todo)

Inspect(c, p) ==
  /\ Kind(c) \in {"review", "finalize"} /\ chain[c].phase = "look" /\ Turn(c, p)
  /\ chain' = [chain EXCEPT ![c].seen[p] = pull[p], ![c].todo = @ \ {p}]
  /\ UNCHANGED <<pull, issue, given, driver, task, past>>

Viewed(c) == {p \in Pulls : chain[c].seen[p] # Unseen}
Duplicate(c, p) == \E q \in Viewed(c) \ {p} : given.link[q] = given.link[p]

\* A local validation found its head good, and none failed after it.
Validated(v) == v.tested /\ "validated" \in v.labels

\* The label the state of the checks, the branch and the reviews calls for.  GitHub
\* blocks drafts: that a draft is blocked counts for nothing.
Basic(v) ==
  IF v.state # "open" \/ v.asked \/ v.checks = "failed" THEN "needs-repair"
  ELSE CASE v.checks = "infra" -> "human-action"
         [] v.checks = "pending" -> "checks-pending"
         [] v.checks = "none" /\ ~Validated(v) -> "local-required"
         [] OTHER -> IF ~v.clean \/ (v.blocked /\ ~v.draft) THEN "needs-repair" ELSE "approved"

\* The label of one pull request, from what was read of it.
Classified(c, p) ==
  LET v == chain[c].seen[p]
  IN  IF Duplicate(c, p) \/ (v.state = "open" /\ "superseded" \in v.labels) THEN "superseded"
      ELSE IF Basic(v) # "approved" THEN Basic(v)
      ELSE CASE v.semantic = "passed" -> "approved"
             [] v.semantic = "failed" -> "needs-repair"
             [] v.semantic = "missing" -> "semantic-required"

\* Those of a set that overlaps connect with p: the least set that has p and whatever
\* overlaps a member.
Component(p, among) ==
  LET Closed(S) == \A q \in S, r \in among : Overlap(q, r) => r \in S
  IN  {q \in among : \A S \in SUBSET among : p \in S /\ Closed(S) => q \in S}

\* Only the first approved one of a component keeps its approval.
FrontierUnqueued(c, p) == Classified(c, p)  \* mutant of Frontier: overlaps do not queue
FrontierOfOne(c, p) ==                      \* mutant of Frontier: nobody is first in a queue
  LET candidates == {q \in Component(p, Viewed(c)) : Classified(c, q) = "approved"}
  IN  IF p \in candidates /\ candidates # {p} THEN "overlap-queued" ELSE Classified(c, p)
Frontier(c, p) ==
  LET candidates == {q \in Component(p, Viewed(c)) : Classified(c, q) = "approved"}
  IN  IF p \in candidates /\ p # FirstOf(candidates) THEN "overlap-queued" ELSE Classified(c, p)

RouteOf(v, verdict) ==
  CASE verdict = "approved" -> "approved"
    [] verdict = "human-action" -> "human"
    [] verdict = "local-required" -> "local-validate"
    [] verdict = "semantic-required" -> "semantic-review"
    [] verdict \in {"checks-pending", "overlap-queued"} -> "wait"
    [] verdict = "superseded" -> "terminal"
    [] verdict = "needs-repair" ->
         IF v.state # "open" \/ v.checks = "infra" THEN "human"
         ELSE IF v.checks = "pending" THEN "wait" ELSE "repair"

Classify(c) ==
  /\ Kind(c) = "review" /\ chain[c].phase = "look" /\ chain[c].todo = {}
  /\ LET verdict == [p \in Pulls |-> IF p \in Viewed(c) THEN Frontier(c, p) ELSE "none"]
         Seen(p) == chain[c].seen[p]
         Labels(p) == IF p \in Viewed(c) /\ Seen(p).state = "open"
                      THEN Seen(p).labels \cap ReviewLabels ELSE {}
     IN  /\ chain' = [chain EXCEPT ![c].verdict = verdict, ![c].phase = "apply",
                        ![c].todo = Viewed(c), ![c].seen = [p \in Pulls |-> Unseen],
                        ![c].had = [p \in Pulls |-> Labels(p)],
                        ![c].next = [p \in Pulls |->
                          IF p \in Viewed(c) /\ c = driver THEN RouteOf(Seen(p), verdict[p]) ELSE "none"]]
         /\ past' = [past EXCEPT !.approved = @ \cup
              {p \in Viewed(c) : verdict[p] = "approved" /\ Open(p) /\ pull[p].head = Seen(p).head}]
  /\ UNCHANGED <<pull, issue, given, driver, task>>

\* The label is exchanged for the others that were read, and explained in a comment;
\* a removal may be lost.
Apply(c, p) ==
  /\ Kind(c) = "review" /\ chain[c].phase = "apply" /\ Turn(c, p)
  /\ LET had == chain[c].had[p]
         label == chain[c].verdict[p]
     IN  IF Open(p)
         THEN \E lost \in SUBSET (pull[p].labels \cap (had \ {label})) :
                /\ lost # {} => CanSurprise
                /\ past' = IF lost = {} THEN past ELSE Failed
                /\ pull' = [pull EXCEPT
                     ![p].labels = (@ \ (had \ {label})) \cup lost \cup (({label} \cap Read) \ had),
                     ![p].wanted = label = "needs-repair"]
         ELSE UNCHANGED <<pull, past>>
  /\ chain' = [chain EXCEPT ![c].todo = @ \ {p}, ![c].verdict[p] = "none", ![c].had[p] = {}]
  /\ UNCHANGED <<issue, given, driver, task>>

\* The summary of a review that succeeded directs the stages that follow.
ReviewEnds(c) ==
  /\ Kind(c) = "review" /\ chain[c].phase = "apply" /\ chain[c].todo = {}
  /\ Ends(c, chain[c].next)
  /\ UNCHANGED <<pull, issue, given, driver, past>>

-----------------------------------------------------------------------------
(* Semantic review, local validation and repair of the targets of a stage *)

\* The command reads which head it works on, and then the files.  A repair is
\* on record as soon as it runs; its cooldown outlasts the behaviours considered.
View(c, p) ==
  /\ Kind(c) \in Parallel /\ p \in chain[c].todo /\ task[c][p].pc = "none" /\ Open(p)
  /\ task' = [task EXCEPT ![c][p] = [pc |-> "viewed", head |-> pull[p].head, read |-> 0]]
  /\ past' = IF Kind(c) = "repair" THEN [past EXCEPT !.tried = @ \cup {p}] ELSE past
  /\ UNCHANGED <<pull, issue, given, driver, chain>>

Fetch(c, p) ==
  /\ task[c][p].pc = "viewed" /\ Kind(c) # "repair" /\ Open(p)
  /\ task' = [task EXCEPT ![c][p].pc = "fetched", ![c][p].read = pull[p].head]
  /\ UNCHANGED <<pull, issue, given, driver, chain, past>>

\* A command ends.
Finished(c, p) == /\ task' = [task EXCEPT ![c][p] = NoTask]
                  /\ chain' = [chain EXCEPT ![c].todo = @ \ {p}]

JobFails(c, p) ==
  /\ Kind(c) \in {"semantic-review", "local-validate"} /\ task[c][p].pc = "fetched" /\ CanSurprise
  /\ past' = Failed
  /\ Finished(c, p) /\ UNCHANGED <<pull, issue, given, driver>>

\* Another command merged the pull request: whatever is done for it goes nowhere.
EndsInVain(c, p) ==
  /\ Kind(c) \in Parallel /\ p \in chain[c].todo /\ ~Open(p)
  /\ Finished(c, p) /\ UNCHANGED <<pull, issue, given, driver, past>>

\* Evidence counts for the head it names.  A result that leaves the pull
\* request to a person is read as none.
SemanticResult(c, p) ==
  /\ Kind(c) = "semantic-review" /\ task[c][p].pc = "fetched" /\ Open(p)
  /\ \E result \in {"passed", "failed", "missing"} :
       LET current == task[c][p].head = pull[p].head
           good == current /\ result = "passed" /\ task[c][p].read = pull[p].head
       IN  /\ pull' = [pull EXCEPT ![p].semantic = IF current THEN result ELSE @,
                ![p].labels = IF result = "failed" THEN @ \cup {"needs-repair"} ELSE @]
           /\ past' = IF good THEN [past EXCEPT !.judged = @ \cup {p}] ELSE past
  /\ Finished(c, p) /\ UNCHANGED <<issue, given, driver>>

LocalResult(c, p) ==
  /\ Kind(c) = "local-validate" /\ task[c][p].pc = "fetched" /\ Open(p)
  /\ \/ pull' = [pull EXCEPT ![p].tested = @ \/ task[c][p].head = pull[p].head,
                             ![p].labels = @ \cup {"validated"}]
     \/ pull' = [pull EXCEPT ![p].labels = (@ \ {"validated"}) \cup {"needs-repair"}]
  /\ Finished(c, p) /\ UNCHANGED <<issue, given, driver, past>>

\* A repair is pushed on top of the head it started from, with the base merged if
\* that head conflicted; or it is refused, or empty.
RepairResult(c, p) ==
  /\ Kind(c) = "repair" /\ task[c][p].pc = "viewed" /\ Open(p)
  /\ \/ /\ task[c][p].head = pull[p].head /\ pull[p].head < MaxHead
        /\ \E clean \in {pull[p].clean, TRUE} :
             pull' = [pull EXCEPT ![p] = [Pushed(p, @) EXCEPT !.clean = clean]]
        /\ past' = Cleared(past, p)
     \/ UNCHANGED <<pull, past>>
  /\ Finished(c, p) /\ UNCHANGED <<issue, given, driver>>

-----------------------------------------------------------------------------
(* Finalize *)

\* What may be done with a pull request as read.  A blocked draft stays a draft.
Mergeable(v) == v.clean /\ ~v.blocked
Decided(v) ==
  LET free == v.state = "open" /\ "approved" \in v.labels /\ Mergeable(v)
  IN  CASE free /\ v.checks = "passed" -> IF v.draft THEN "ready_then_merge" ELSE "merge"
        [] free /\ v.checks = "none" /\ Validated(v) /\ v.draft -> "ready"
        [] OTHER -> "blocked"

Plan(c) ==
  /\ Kind(c) = "finalize" /\ chain[c].phase = "look" /\ chain[c].todo = {}
  /\ LET verdict == [p \in Pulls |-> IF p \in Viewed(c) /\ ~Duplicate(c, p)
                                     THEN Decided(chain[c].seen[p]) ELSE "blocked"]
     IN  chain' = [chain EXCEPT ![c].phase = "act", ![c].verdict = verdict,
                     ![c].seen = [p \in Pulls |-> Unseen],
                     ![c].todo = {p \in Viewed(c) : verdict[p] # "blocked"}]
  /\ UNCHANGED <<pull, issue, given, driver, task, past>>

Acting(c, p) == Kind(c) = "finalize" /\ chain[c].phase = "act" /\ Turn(c, p)

\* A draft becomes ready; one without checks goes no further.
MarkReady(c, p) ==
  /\ Acting(c, p) /\ task[c][p].pc = "none" /\ chain[c].verdict[p] # "merge" /\ Open(p)
  /\ pull' = [pull EXCEPT ![p].draft = FALSE]
  /\ IF chain[c].verdict[p] = "ready"
     THEN Finished(c, p)
     ELSE task' = [task EXCEPT ![c][p].pc = "ready"] /\ UNCHANGED chain
  /\ UNCHANGED <<issue, given, driver, past>>

\* The pull request is read again just before the merge.
ReadAgain(c, p) ==
  /\ Acting(c, p)
  /\ task[c][p].pc = "ready" \/ (task[c][p].pc = "none" /\ chain[c].verdict[p] = "merge")
  /\ IF Decided(pull[p]) \in {"merge", "ready_then_merge"}
     THEN task' = [task EXCEPT ![c][p].pc = "checked"] /\ UNCHANGED chain
     ELSE Finished(c, p)
  /\ UNCHANGED <<pull, issue, given, driver, past>>

\* GitHub merges the head there is, unless it conflicts or is blocked, or was merged
\* before; the issue is closed.  The branches that overlap may conflict from now on.
Merge(c, p) ==
  /\ Acting(c, p) /\ task[c][p].pc = "checked"
  /\ \/ /\ Open(p) /\ Mergeable(pull[p])
        /\ \E conflicting \in SUBSET {q \in OpenPulls : Overlap(p, q)} :
             pull' = [q \in Pulls |-> CASE q = p -> Merged
                                        [] q \in conflicting -> [pull[q] EXCEPT !.clean = FALSE]
                                        [] OTHER -> pull[q]]
        /\ past' = [Cleared(past, p) EXCEPT !.merged = @ \cup {p}, !.tried = @ \ {p}]
     \/ ~Open(p) /\ UNCHANGED <<pull, past>>
  /\ issue' = [issue EXCEPT ![given.link[p]] = "closed"]
  /\ Finished(c, p) /\ UNCHANGED <<given, driver>>

\* What GitHub refuses ends the command: to merge, or to make ready what is merged.
GitHubRefuses(c, p) ==
  /\ Acting(c, p)
  /\ \/ task[c][p].pc = "checked" /\ Open(p) /\ ~Mergeable(pull[p])
     \/ task[c][p].pc = "none" /\ chain[c].verdict[p] # "merge" /\ ~Open(p)
  /\ Ends(c, chain[c].route) /\ past' = [past EXCEPT !.merged = {}]
  /\ UNCHANGED <<pull, issue, given, driver>>

FinalizeEnds(c) ==
  /\ Kind(c) = "finalize" /\ chain[c].phase = "act" /\ chain[c].todo = {}
  /\ Ends(c, chain[c].route) /\ past' = [past EXCEPT !.merged = {}]
  /\ UNCHANGED <<pull, issue, given, driver>>

-----------------------------------------------------------------------------
(* People and checks *)

Commit(p) ==
  /\ Open(p) /\ pull[p].head < MaxHead /\ CanSurprise
  /\ pull' = [pull EXCEPT ![p] = Pushed(p, @)]
  /\ past' = Cleared(Moved, p)
  /\ UNCHANGED <<issue, given, driver, chain, task>>

Object(p) ==
  /\ Open(p) /\ CanSurprise
  /\ pull' = [pull EXCEPT ![p].asked = ~@]
  /\ past' = Moved
  /\ UNCHANGED <<issue, given, driver, chain, task>>

\* GitHub holds the pull request back, or no longer does: a rule of the branch.
Block(p) ==
  /\ Open(p) /\ CanSurprise
  /\ pull' = [pull EXCEPT ![p].blocked = ~@]
  /\ past' = Moved
  /\ UNCHANGED <<issue, given, driver, chain, task>>

\* The base branch moves under the pull request.
BaseMoves(p) ==
  /\ Open(p) /\ pull[p].clean /\ CanSurprise
  /\ pull' = [pull EXCEPT ![p].clean = FALSE]
  /\ past' = Moved
  /\ UNCHANGED <<issue, given, driver, chain, task>>

Conclude(p) ==
  /\ Open(p) /\ pull[p].checks = "pending"
  /\ \E result \in {"passed", "failed", "infra"} : pull' = [pull EXCEPT ![p].checks = result]
  /\ UNCHANGED <<issue, given, driver, chain, task, past>>

-----------------------------------------------------------------------------
PullInit ==
  /\ pull = [p \in Pulls |-> Unopened]
  /\ issue = [i \in IssueNumbers |-> "ready"] /\ given \in Settings
  /\ past = [failures |-> 0, moves |-> 0, tried |-> {}, merged |-> {}, approved |-> {}, judged |-> {}]
  /\ driver = CHOOSE c \in Cycles : TRUE
  /\ chain = [c \in Cycles |-> IF c = driver THEN FirstStage ELSE NoStage]
  /\ task = [c \in Cycles |-> NoTasks]

\* A step of a command, or of the driver when the commands of a stage have ended.
ChainStep(c) ==
  \/ StageEnds(c) \/ Reconcile(c) \/ Classify(c) \/ ReviewEnds(c) \/ Plan(c) \/ FinalizeEnds(c)
  \/ \E p \in Pulls : \/ Inspect(c, p) \/ Apply(c, p) \/ View(c, p) \/ Fetch(c, p)
                      \/ SemanticResult(c, p) \/ LocalResult(c, p) \/ RepairResult(c, p)
                      \/ EndsInVain(c, p) \/ MarkReady(c, p) \/ ReadAgain(c, p)
                      \/ Merge(c, p) \/ GitHubRefuses(c, p)
Others ==
  \/ ChainDies \/ HostStops
  \/ \E c \in Cycles : CommandFails(c) \/ \E p \in Pulls : Publish(c, p) \/ JobFails(c, p)
  \/ \E p \in Pulls : Commit(p) \/ Object(p) \/ Block(p) \/ BaseMoves(p) \/ Conclude(p)
PullNext == (\E c \in Cycles : ChainStep(c)) \/ Others

\* The shift starts cycle after cycle, the agents of a command run under a timeout,
\* and checks conclude.
PullFairness == WF_pullVars(\E c \in Cycles : ChainStep(c)) /\ \A p \in Pulls : WF_pullVars(Conclude(p))
PullSpec == PullInit /\ [][PullNext]_pullVars /\ PullFairness
-----------------------------------------------------------------------------
\* The types of the variables; what is on record is on record of open ones.
PullTypeOK ==
  /\ \A p \in Pulls : \/ pull[p] \in {Unopened, Merged}
                      \/ /\ pull[p].head \in 1..MaxHead /\ pull[p].labels \subseteq Read
                         /\ pull[p].checks \in {"none", "pending", "passed", "failed", "infra"}
                         /\ pull[p].semantic \in {"missing", "passed", "failed"}
  /\ issue \in [IssueNumbers -> {"ready", "pr-open", "closed"}]
  /\ driver \in Cycles /\ chain[driver].phase # "over"
  /\ \A c \in Cycles :
       /\ chain[c].stage \in DOMAIN ChainStages /\ chain[c].todo \subseteq Pulls
       /\ \A p \in Pulls : task[c][p].head <= MaxHead /\ task[c][p].read \in {0} \cup task[c][p].head..MaxHead
  /\ past.approved \cup past.judged \subseteq OpenPulls

\* A pull request that is merged at the head it was approved for has passed its checks,
\* and a reviewer who read the files of that head found them good, whatever was
\* pushed between the reads of a review, of a reviewer and of the finalizer, and
\* whatever commands of dead cycles still did.  Only beside such commands, or after
\* one that failed, may another reviewer have found the same head bad since.
MergedWasEarned ==
  [][\A p \in past.approved : Open(p) /\ pull'[p].state = "merged" =>
       /\ p \in past.judged /\ pull[p].checks = "passed"
       /\ past.failures = 0 => pull[p].semantic = "passed"]_pullVars

\* As long as no command fails, one finalize merges at most one of two pull
\* requests that change a common file: the other one is reviewed again first.
OverlappingWait ==
  /\ PullTypeOK
  /\ past.failures = 0 => \A p, q \in past.merged : ~Overlap(p, q)

\* What is merged passed the semantic review at the head that is merged.
MergedHeadReviewed ==
  [][\A p \in OpenPulls : pull'[p].state = "merged" => pull[p].semantic = "passed"]_pullVars

\* A pull request that nothing keeps from being merged, whose issue no other one
\* shares, does not stay so for ever, unless a review approves one before it in its
\* queue of overlaps: refused merges, lost labels, dead cycles and the commands they
\* leave behind never strand it.
Unshared(p) == \A q \in OpenPulls \ {p} : given.link[q] # given.link[p]
Approvable(p) == /\ Basic(pull[p]) = "approved" /\ pull[p].semantic = "passed"
                 /\ "superseded" \notin pull[p].labels /\ Unshared(p)
Deserving(p) == p \in OpenPulls /\ Approvable(p) /\ Mergeable(pull[p]) /\ pull[p].checks = "passed"
Foremost(p) == \A q \in Component(p, OpenPulls) : q < p => ~Approvable(q)
DeservingIsMerged == []<>(\A p \in Pulls : ~(Deserving(p) /\ Foremost(p)))
=============================================================================
