------------------------------ MODULE Supervisor ------------------------------
(***************************************************************************)
(* atlas_supervisor.py: one process at a time (a flock tried once, freed   *)
(* by the death of its holder) takes the items of its queue in order,      *)
(* settles what an earlier process left in doubt, and calls at most one    *)
(* child per item: assess, local_execute, draft_pr or board_write.  The    *)
(* intent to call is durable before the child acts, the evidence after.    *)
(* Between runs the operator changes the queue or the policy, and people   *)
(* edit the board at any time.                                             *)
(*                                                                         *)
(* The children are those of RoutingBudget, AzureWorker and AzureReconcile; *)
(* here each is a durable beginning and a durable end that proves it.      *)
(***************************************************************************)
EXTENDS Naturals

CONSTANTS
  Queue,     \* the items are 1..Queue, in queue order
  Entries,   \* what the queue may say of each item: definition, actions, and the baseline of a
             \* proposal, which changes that item alone
  MaxPolicy, \* bound on the versions of policy, configuration and code
  MaxNative  \* bound on the native revisions of each item

VARIABLES
  entry,   \* the queue file
  policy,  \* policy, configuration and code: what _identity digests
  native,  \* the native revision of each item
  disk,    \* item-<digest>.json of each item
  sup,     \* the process that holds supervisor.lock
  begun,   \* calls whose child left a durable trace
  proven,  \* calls whose child left durable proof
  called,  \* history: the calls made
  replayed \* history: a call was made again

supVars == <<entry, policy, native, disk, sup, begun, proven, called, replayed>>

QueueItems == 1..Queue
Actions == {"assess", "local_execute", "draft_pr", "board_write"}

\* validate_queue: one item at least; there is something the queue may say of each.
ASSUME QueueAssumption ==
  /\ Queue \in Nat \ {0}
  /\ \A i \in QueueItems : /\ Entries[i] # {}
                           /\ Entries[i] \subseteq [def : Nat, actions : SUBSET Actions, proposal : Nat]

\* What a call is about: a definition at a native revision under a policy, or a
\* proposal, which the revision it was made for identifies.
NoKey == [def |-> 0, rev |-> 0, policy |-> 0]
NoState == [entry |-> [def |-> 0, actions |-> {}, proposal |-> 0], policy |-> 0,
            op |-> "none", action |-> "none", key |-> NoKey, evidence |-> "none", of |-> NoKey]
Idle == [pc |-> "idle"]

SupInit ==
  /\ entry = [i \in QueueItems |-> CHOOSE e \in Entries[i] : TRUE]
  /\ policy = 1
  /\ native = [i \in QueueItems |-> 1]
  /\ disk = [i \in QueueItems |-> NoState]
  /\ sup = Idle
  /\ begun = {} /\ proven = {} /\ called = {} /\ replayed = FALSE

CallOf(i, action, key) == [item |-> i, action |-> action, key |-> key]

\* Mutant of InDoubt: a call that was never reported on is taken for one not made.
InDoubtSaid(s) == s.op = "uncertain"

InDoubt(s) == s.op \in {"calling", "uncertain"}
Prepared(s) == s.evidence \in {"prepared", "pr_open"}

\* Mutant of Pinned: only what is in doubt is kept.
PinnedInDoubt(s) == InDoubt(s)

\* A prepared candidate or a call in doubt keeps the identity it was made under.
Pinned(s) == Prepared(s) \/ InDoubt(s)
-----------------------------------------------------------------------------
(* Between and during runs.                                                 *)

ChangeQueue(i) == /\ entry' \in {[entry EXCEPT ![i] = e] : e \in Entries[i]}
                  /\ UNCHANGED <<policy, native, disk, sup, begun, proven, called, replayed>>

ChangePolicy == /\ policy < MaxPolicy /\ policy' = policy + 1
                /\ UNCHANGED <<entry, native, disk, sup, begun, proven, called, replayed>>

EditItem(i) == /\ native[i] < MaxNative[i] /\ native' = [native EXCEPT ![i] = @ + 1]
               /\ UNCHANGED <<entry, policy, disk, sup, begun, proven, called, replayed>>

\* A request to open a pull request is answered after its sender died.
LandLate == /\ \E c \in begun \ proven : c.action = "draft_pr" /\ proven' = proven \cup {c}
            /\ UNCHANGED <<entry, policy, native, disk, sup, begun, called, replayed>>
-----------------------------------------------------------------------------
(* _operate.                                                                *)

Start(mode) ==
  /\ sup = Idle
  /\ sup' = [pc |-> "item", mode |-> mode, entry |-> entry, policy |-> policy, snap |-> native, at |-> 1, mem |-> NoState]
  /\ UNCHANGED <<entry, policy, native, disk, begun, proven, called, replayed>>

\* The next item, a new cycle with fresh native reads, or the end.
Advance == sup' \in IF sup.at < Queue THEN {[sup EXCEPT !.pc = "item", !.at = @ + 1]}
                    ELSE {Idle, [sup EXCEPT !.pc = "item", !.at = 1, !.snap = native]}

Loaded(i) == IF Pinned(disk[i]) THEN disk[i]
             ELSE [disk[i] EXCEPT !.entry = sup.entry[i], !.policy = sup.policy]
Conflicting(s, i) == Pinned(s) /\ (s.entry # sup.entry[i] \/ s.policy # sup.policy)

\* Durable evidence of a child; the board must still read as the child left it.
Proof(c) == c \in proven /\ (c.action = "board_write" => native[c.item] = c.key.rev + 1)

EvidenceOf(action) == CASE action = "assess" -> "assessed"
                        [] action = "local_execute" -> "prepared"
                        [] action = "draft_pr" -> "pr_open"
                        [] OTHER -> "board_reconciled"
Verified(s) == [s EXCEPT !.op = "verified", !.evidence = EvidenceOf(s.action), !.of = s.key]

\* _recover: what is in doubt is settled by proof, or not at all.
Recovered(s, i) == IF InDoubt(s) THEN Verified(s) ELSE s

Item == sup.pc = "item"
Write(i, s) == disk' = [disk EXCEPT ![i] = s]

\* Conflict, doubt, or an error (a read, a deadline) before the doubt is settled:
\* the run ends here.  An error about an item that is not in doubt does not end it.
Halt ==
  /\ Item
  /\ LET i == sup.at  s == Loaded(i)
     IN  /\ Write(i, s)
         /\ \/ (Conflicting(s, i) \/ InDoubt(s)) /\ sup' = Idle
            \/ ~Conflicting(s, i) /\ ~InDoubt(s) /\ Advance
  /\ UNCHANGED <<entry, policy, native, begun, proven, called, replayed>>

Settleable(s, i) == ~Conflicting(s, i) /\ (InDoubt(s) => Proof(CallOf(i, s.action, s.key)))

\* What was in doubt is settled, and nothing is called: it waits for a person or
\* a grant, it is complete, it is blocked, or this is an observation.
Rest ==
  /\ Item
  /\ LET i == sup.at  s == Loaded(i) IN Settleable(s, i) /\ Write(i, Recovered(s, i))
  /\ Advance
  /\ UNCHANGED <<entry, policy, native, begun, proven, called, replayed>>

\* The call _step comes to for an item in state s.
Due(i, s) ==
  LET e == sup.entry[i]
      packet == [def |-> e.def, rev |-> sup.snap[i], policy |-> sup.policy]
      proposal == [NoKey EXCEPT !.rev = e.proposal]
  IN  CASE Prepared(s) ->
             {CallOf(i, "draft_pr", s.of) : a \in {"draft_pr"} \cap
                (IF s.evidence = "prepared" /\ sup.snap[i] = s.of.rev THEN e.actions ELSE {})}
        [] ~Prepared(s) /\ "board_write" \in e.actions /\ e.proposal # 0 ->
             {c \in {CallOf(i, "board_write", proposal)} :
                sup.snap[i] = e.proposal /\ ~(s.evidence = "board_reconciled" /\ s.of = proposal)}
        [] OTHER ->
             {c \in {CallOf(i, a, packet) : a \in e.actions} :
                \/ c.action = "assess" /\ c \notin begun
                \/ c.action = "local_execute" /\ CallOf(i, "assess", packet) \in proven}

\* The intent is durable before the child acts.
CallChild ==
  /\ Item /\ sup.mode = "run"
  /\ LET i == sup.at  s == Loaded(i)
     IN  /\ Settleable(s, i)
         /\ \E c \in Due(i, Recovered(s, i)) :
              LET calling == [Recovered(s, i) EXCEPT !.op = "calling", !.action = c.action, !.key = c.key]
              IN  /\ Write(i, calling)
                  /\ sup' = [sup EXCEPT !.pc = "child", !.mem = calling]
                  /\ called' = called \cup {c}
                  /\ replayed' = (replayed \/ \E d \in called :
                       d.item = i /\ d.action = c.action /\ (d.key = c.key \/ c.action \in {"local_execute", "draft_pr"}))
  /\ UNCHANGED <<entry, policy, native, begun, proven>>

Current == CallOf(sup.at, sup.mem.action, sup.mem.key)

\* The child: a durable beginning, and a durable end.
Begin ==
  /\ sup.pc = "child" /\ Current \notin begun
  /\ begun' = begun \cup {Current}
  /\ UNCHANGED <<entry, policy, native, disk, sup, proven, called, replayed>>

Complete ==
  /\ sup.pc = "child" /\ Current \in begun \ proven
  /\ proven' = proven \cup {Current}
  /\ IF Current.action = "board_write"
     THEN native[sup.at] = Current.key.rev /\ native' = [native EXCEPT ![sup.at] = @ + 1]
     ELSE UNCHANGED native
  /\ UNCHANGED <<entry, policy, disk, sup, begun, called, replayed>>

\* _ingest finds the proof; it is written a moment later.
Ingest ==
  /\ sup.pc = "child" /\ Proof(Current)
  /\ sup' = [sup EXCEPT !.pc = "save", !.mem = Verified(@)]
  /\ UNCHANGED <<entry, policy, native, disk, begun, proven, called, replayed>>

Save ==
  /\ sup.pc = "save"
  /\ Write(sup.at, sup.mem) /\ Advance
  /\ UNCHANGED <<entry, policy, native, begun, proven, called, replayed>>

\* The child raises, says what it cannot prove, or returns after the deadline.
Doubt ==
  /\ sup.pc = "child"
  /\ Write(sup.at, [sup.mem EXCEPT !.op = "uncertain"]) /\ sup' = Idle
  /\ UNCHANGED <<entry, policy, native, begun, proven, called, replayed>>

\* The process dies, or its time is up between two items.
Die == sup # Idle /\ sup' = Idle /\ UNCHANGED <<entry, policy, native, disk, begun, proven, called, replayed>>

SupNext == \/ \E i \in QueueItems : ChangeQueue(i) \/ EditItem(i)
           \/ ChangePolicy \/ LandLate
           \/ \E mode \in {"observe", "run"} : Start(mode)
           \/ Halt \/ Rest \/ CallChild \/ Begin \/ Complete \/ Ingest \/ Save \/ Doubt \/ Die

SupSpec == SupInit /\ [][SupNext]_supVars
-----------------------------------------------------------------------------
\* What a state file says a child achieved, the child's own durable state proves,
\* and a prepared candidate is never attributed to another definition or policy
\* than the one its call was made under, whoever crashed between the effect and
\* the record and whatever changed since.
EvidenceStands ==
  \A i \in QueueItems : LET s == disk[i] IN
    /\ s.evidence = "assessed" => CallOf(i, "assess", s.of) \in proven
    /\ Prepared(s) => /\ CallOf(i, "local_execute", s.of) \in proven
                      /\ s.entry.def = s.of.def /\ s.policy = s.of.policy
    /\ s.evidence = "pr_open" => CallOf(i, "draft_pr", s.of) \in proven
    /\ s.evidence = "board_reconciled" => CallOf(i, "board_write", s.of) \in proven

\* No call is ever made twice, and no item is prepared or published twice, whatever
\* crashed ("do not replay the operation"); and nothing is called for an item as
\* long as one before it in the queue is in doubt.
NeverReplayed ==
  /\ ~replayed
  /\ sup.pc = "child" => \A j \in 1..(sup.at - 1) : ~InDoubt(disk[j])
=============================================================================
