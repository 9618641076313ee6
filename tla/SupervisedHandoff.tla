-------------------------- MODULE SupervisedHandoff --------------------------
(***************************************************************************)
(* atlas_supervised_handoff.py: roles of a work item are run one at a time *)
(* by a supervisor, outside of the runtime.  prepare_handoff reserves a    *)
(* role in the item (pending), ingest_handoff imports its result once.     *)
(* Both read the store without the lock, stage their work, and look again  *)
(* under the lock before they save; a locked section is atomic, as         *)
(* AtomicStore promises.  Sessions are processes of one stable owner; the  *)
(* rest of the system claims, recovers, reworks and edits items meanwhile. *)
(***************************************************************************)
EXTENDS Integers, TeamRun

CONSTANTS
  Items, Sessions,
  Owner, Other,                                 \* who claims items
  RoleResults,                                  \* role -> what its model may return
  MaxDisturbances, MaxReturns                   \* bounds of the exploration

\* A result is refused unless it has a status; its issues may be written as the runtime
\* writes its own.
ASSUME ResultsAssumption ==
  \A role \in Roles : \A r \in RoleResults[role] :
    /\ r = [Sent(r.status, r.full, r.extra, r.review, r.own) EXCEPT !.gen = r.gen]
    /\ r.status \in Statuses /\ r.gen \subseteq IssueKinds

VARIABLES
  store,    \* work-items.json
  head,     \* HEAD of the execution checkout
  session,  \* the sessions
  returns,  \* envelopes: a result of a role bound to its reservation
  told,     \* history: the envelopes acknowledged to a supervisor
  disturbed \* how often others changed something, for the bound

handoffVars == <<store, head, session, returns, told, disturbed>>

NewItem == [state |-> "ready", claim |-> {}, claims |-> 0, context |-> 0, rework |-> 0,
            run |-> << >>, runContext |-> 0,
            generation |-> 0, accepted |-> {}, pending |-> {}]
NoErrand == [pc |-> "idle", item |-> "none", seen |-> {}, binding |-> {}, envelope |-> {}]

HandoffInit ==
  /\ store = [i \in Items |-> NewItem] /\ head = 0
  /\ session = [s \in Sessions |-> NoErrand]
  /\ returns = {} /\ told = {} /\ disturbed = 0

Only(S) == CHOOSE x \in S : TRUE
In(s, pc) == session[s].pc = pc
EndSession(s) == session' = [session EXCEPT ![s] = NoErrand]

\* _source_hash: all of the item but its handoff state.
Source(it) == [it EXCEPT !.generation = 0, !.accepted = {}, !.pending = {}]

\* _assert_global_pending: no other item has a reservation.
NoOtherPending(i) == \A j \in Items \ {i} : store[j].pending = {}

\* _eligible_role: every attempted role is complete, and the role's dependencies are.
EligibleRoles(it) ==
  IF RunStatus(AppliedResults(it.run, << >>)) # "running" THEN {}
  ELSE {role \in Roles \ DOMAIN it.run : Unblocked(role, it.run)}
EligibleRole(it) == LET i == CHOOSE k \in DOMAIN RoleOrder : /\ RoleOrder[k] \in EligibleRoles(it)
                                                          /\ \A j \in 1..(k - 1) : RoleOrder[j] \notin EligibleRoles(it)
                    IN  RoleOrder[i]

\* Mutant of Resumable: a run is resumed whatever contract it was started for.
ResumableAlways(it) == RunStatus(it.run) # "complete"

\* load_resumable_team_run with a goal gate: the run is of this contract, unfinished.
Resumable(it) == it.run = << >> \/ (it.runContext = it.context /\ RunStatus(it.run) # "complete")

Binding(s, i, it) == [session |-> s, item |-> i, generation |-> it.generation + 1, claim |-> it.claims,
                      context |-> it.context, rework |-> it.rework, revision |-> head, role |-> EligibleRole(it)]

\* Mutant of StillValid: the item itself is not compared with the reservation's.
StillValidClaimOnly(it, p) ==
  /\ it.state = "running" /\ it.claim = {Owner} /\ p.binding.revision = head

\* _validate_pending_return: the very claim, the item and its receipts are as they
\* were when the role was reserved, and so is the checkout.
StillValid(it, p) ==
  /\ it.state = "running" /\ it.claim = {Owner} /\ it.claims = p.binding.claim
  /\ Source(it) = p.source /\ it.accepted = p.receipts
  /\ p.binding.revision = head
-----------------------------------------------------------------------------
(* prepare_handoff.                                                         *)

\* A valid reservation is returned again.
PrepareAgain(s, i) ==
  /\ In(s, "idle")
  /\ \E p \in store[i].pending :
       /\ NoOtherPending(i) /\ StillValid(store[i], p)
       /\ session' = [session EXCEPT ![s] = [NoErrand EXCEPT !.pc = "dispatch", !.item = i, !.binding = {p.binding}]]
  /\ UNCHANGED <<store, head, returns, told, disturbed>>

\* The item is read and the reservation staged.
StagePrepare(s, i) ==
  LET it == store[i] IN
  /\ In(s, "idle")
  /\ \A j \in Items : store[j].pending = {}
  /\ it.state = "running" /\ it.claim = {Owner}
  /\ Resumable(it) /\ EligibleRoles(it) # {}
  /\ session' = [session EXCEPT ![s] = [NoErrand EXCEPT !.pc = "prepare", !.item = i, !.seen = {it}, !.binding = {Binding(s, i, it)}]]
  /\ UNCHANGED <<store, head, returns, told, disturbed>>

\* Under the lock: a reservation made meanwhile is returned; else the item must be
\* as it was read.
Reserve(s) ==
  /\ In(s, "prepare")
  /\ LET i == session[s].item
         it == store[i]
         b == Only(session[s].binding)
     IN  /\ NoOtherPending(i)
         /\ \/ \E p \in it.pending :
                 /\ StillValid(it, p)
                 /\ session' = [session EXCEPT ![s].pc = "dispatch", ![s].seen = {}, ![s].binding = {p.binding}]
                 /\ UNCHANGED store
            \/ /\ {it} = session[s].seen /\ b.revision = head
               /\ store' = [store EXCEPT ![i].generation = b.generation,
                                         ![i].pending = {[binding |-> b, source |-> Source(it), receipts |-> it.accepted]}]
               /\ session' = [session EXCEPT ![s].pc = "dispatch", ![s].seen = {}]
  /\ UNCHANGED <<head, returns, told, disturbed>>

\* The supervisor has the role done in its app (external); a reservation returned
\* twice may be done twice.
Dispatch(s) ==
  /\ In(s, "dispatch") /\ Cardinality(returns) < MaxReturns
  /\ \E r \in RoleResults[Only(session[s].binding).role] :
       returns' = returns \cup {[binding |-> Only(session[s].binding), invocation |-> s, result |-> r]}
  /\ EndSession(s)
  /\ UNCHANGED <<store, head, told, disturbed>>
-----------------------------------------------------------------------------
(* ingest_handoff.                                                          *)

\* A replay of the very envelope accepted before is acknowledged again, a different
\* one refused.
Acknowledge(s, e) ==
  /\ In(s, "idle") /\ e \in store[e.binding.item].accepted
  /\ told' = told \cup {e}
  /\ UNCHANGED <<store, head, session, returns, disturbed>>

StageIngest(s, e) ==
  LET i == e.binding.item IN
  /\ In(s, "idle")
  /\ \A a \in store[i].accepted : a.binding # e.binding
  /\ \E p \in store[i].pending : p.binding = e.binding /\ StillValid(store[i], p)
  /\ NoOtherPending(i)
  /\ session' = [session EXCEPT ![s] = [NoErrand EXCEPT !.pc = "ingest", !.item = i, !.seen = {store[i]}, !.envelope = {e}]]
  /\ UNCHANGED <<store, head, returns, told, disturbed>>

\* The result of an envelope, as a run holds it.
OneResult(e) == [role \in {e.binding.role} |-> e.result]

\* Mutant of Imported: the item is published without the receipt.
ImportedUnreceipted(it, e) ==
  LET run == AppliedResults(it.run, OneResult(e))
  IN  [it EXCEPT !.run = run, !.runContext = it.context, !.pending = {},
                 !.state = IF RunStatus(run) = "running" THEN "ready" ELSE "blocked",
                 !.claim = IF RunStatus(run) = "running" THEN {} ELSE @]

\* The staged item: the result applied, the item's state from the run and the
\* gate's verdict (record_result frees the claim of a ready item), the receipt added.
Imported(it, e) ==
  LET run == AppliedResults(it.run, OneResult(e))
      state == CASE RunStatus(run) = "running" -> "ready"
                 [] RunStatus(run) = "complete" /\ (\E g \in Gates : Satisfies(g, run[g])) -> "done"
                 [] OTHER -> "blocked"
  IN  [it EXCEPT !.run = run, !.runContext = it.context, !.pending = {}, !.accepted = @ \cup {e},
                 !.state = state, !.claim = IF state = "ready" THEN {} ELSE @]

\* Under the lock: accepted meanwhile (acknowledged or refused), or all that was
\* true when it was staged is true still, and the staged item replaces the item.
Publish(s) ==
  /\ In(s, "ingest")
  /\ LET i == session[s].item
         e == Only(session[s].envelope)
     IN  IF \E a \in store[i].accepted : a.binding = e.binding
         THEN /\ e \in store[i].accepted
              /\ told' = told \cup {e} /\ EndSession(s) /\ UNCHANGED store
         ELSE /\ NoOtherPending(i)
              /\ store[i].pending = Only(session[s].seen).pending
              /\ \E p \in store[i].pending : StillValid(store[i], p)
              /\ store' = [store EXCEPT ![i] = Imported(Only(session[s].seen), e)]
              /\ session' = [session EXCEPT ![s].pc = "saved"]
              /\ UNCHANGED told
  /\ UNCHANGED <<head, returns, disturbed>>

ReturnReceipt(s) ==
  /\ In(s, "saved")
  /\ told' = told \cup session[s].envelope
  /\ EndSession(s)
  /\ UNCHANGED <<store, head, returns, disturbed>>

\* A refusal, or the death of the process.
Refuse(s) == ~In(s, "idle") /\ EndSession(s) /\ UNCHANGED <<store, head, returns, told, disturbed>>
-----------------------------------------------------------------------------
(* The rest of the system; each is one locked update of the item.  Those that  *)
(* disturb a supervisor at work are counted.                                 *)

Disturb == disturbed < MaxDisturbances /\ disturbed' = disturbed + 1

ClaimItem(i, by) ==
  /\ store[i].state = "ready"
  /\ store' = [store EXCEPT ![i].state = "running", ![i].claim = {by}, ![i].claims = @ + 1]
  /\ IF by = Owner THEN UNCHANGED disturbed ELSE Disturb
  /\ UNCHANGED <<head, session, returns, told>>
RecoverItem(i) ==
  /\ store[i].state = "running" /\ Disturb
  /\ store' = [store EXCEPT ![i].state = "ready", ![i].claim = {}]
  /\ UNCHANGED <<head, session, returns, told>>
ReworkItem(i) ==
  /\ store[i].state = "blocked" /\ store[i].rework = 0
  /\ store' = [store EXCEPT ![i].state = "ready", ![i].claim = {}, ![i].rework = 1, ![i].run = << >>]
  /\ UNCHANGED <<head, session, returns, told, disturbed>>
EditItem(i) ==
  /\ Disturb
  /\ store' = [store EXCEPT ![i].context = @ + 1]
  /\ UNCHANGED <<head, session, returns, told>>
MoveHead ==
  /\ Disturb /\ head' = head + 1
  /\ UNCHANGED <<store, session, returns, told>>

HandoffNext ==
  \/ \E s \in Sessions :
       \/ \E i \in Items : PrepareAgain(s, i) \/ StagePrepare(s, i)
       \/ \E e \in returns : Acknowledge(s, e) \/ StageIngest(s, e)
       \/ Reserve(s) \/ Dispatch(s) \/ Publish(s) \/ ReturnReceipt(s) \/ Refuse(s)
  \/ \E i \in Items : \/ ClaimItem(i, Owner) \/ ClaimItem(i, Other) \/ RecoverItem(i)
                      \/ ReworkItem(i) \/ EditItem(i)
  \/ MoveHead

HandoffSpec == HandoffInit /\ [][HandoffNext]_handoffVars
-----------------------------------------------------------------------------
\* What others did to an item while a session staged its own change is never undone.
NothingIsOverwritten ==
  [][\A i \in Items : /\ store'[i].context >= store[i].context /\ store'[i].claims >= store[i].claims
                      /\ store'[i].rework >= store[i].rework /\ store'[i].generation >= store[i].generation
                      /\ store[i].accepted \subseteq store'[i].accepted]_handoffVars

\* At most one reservation is unresolved across the store, and its generation is
\* its item's.  At most one result of a reservation is ever acknowledged, and it is
\* on record, however often the role was done and its results were sent; the run
\* holds the result of a role exactly if one of that role was accepted since the
\* last rework.
ReceiptsHold ==
  /\ Cardinality({i \in Items : store[i].pending # {}}) <= 1
  /\ \A i \in Items : \A p \in store[i].pending : p.binding.item = i /\ p.binding.generation = store[i].generation
  /\ \A e \in told : e \in store[e.binding.item].accepted
  /\ \A e, f \in told : e.binding = f.binding => e = f
  /\ \A i \in Items : \A role \in Roles :
       Cardinality({e \in store[i].accepted : e.binding.role = role /\ e.binding.rework = store[i].rework})
         = IF role \in DOMAIN store[i].run THEN 1 ELSE 0

\* A done item was done by all its roles under one contract, its gate last seen to pass.
DoneUnderOneContract ==
  \A i \in Items : store[i].state = "done" =>
    LET used == {e \in store[i].accepted : e.binding.rework = store[i].rework}
    IN  /\ {e.binding.role : e \in used} = Roles
        /\ \A e, f \in used : e.binding.context = f.binding.context
        /\ \A e \in used : e.binding.role \in Gates => e.result.review = "pass"
=============================================================================
