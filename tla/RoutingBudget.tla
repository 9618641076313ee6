---------------------------- MODULE RoutingBudget ----------------------------
(***************************************************************************)
(* atlas_dispatch.py: model calls that assess an intake and the calls of   *)
(* the worker it is routed to spend from one durable budget.  A call is    *)
(* reserved before it is made and its tokens are recorded afterwards; a    *)
(* process may die in between, and new grants, new intakes of the same     *)
(* step and other processes must not reset what was spent.                 *)
(*                                                                         *)
(* All intakes here belong to one lineage, so to one budget; dispatch.lock *)
(* is a flock that is tried once and freed by the death of its holder.     *)
(***************************************************************************)
EXTENDS Routing

CONSTANTS
  Intakes,      \* intake records of one lineage
  Observations, \* what a model may answer
  Dispatchers,  \* processes running assess
  MaxTokens, MaxAttempts  \* limits of the policy; a call costs 0 or 1 units of tokens

ASSUME PolicyAssumption ==
  /\ MaxTokens \in Nat /\ MaxAttempts \in Nat
  /\ \A k \in Intakes : k.used \in Nat /\ k.maxCalls \in Nat

VARIABLES
  budget,  \* budget-<lineage>.json
  lineage, \* claim-<lineage>.json: its state
  ticket,  \* ticket-<key>.json of each intake
  holder,  \* who holds dispatch.lock
  disp,    \* the dispatchers
  routed,  \* the worker each intake was routed to
  truth    \* history: calls launched per intake and role, all calls made, tokens truly spent

budgetVars == <<budget, lineage, ticket, holder, disp, routed, truth>>

NoTicket == [state |-> "none", calls |-> << >>, obs |-> << >>]
NoDispatcher == [pc |-> "idle", key |-> {}, role |-> "assessment", obs |-> << >>, tokens |-> 0]
NoRouted == [pc |-> "none", made |-> 0, tokens |-> 0]
AssessRoles == {"assessment", "challenge", "reassessment"}

BudgetInit ==
  /\ budget = [calls |-> 0, tokens |-> 0, complete |-> TRUE, attempts |-> 0]
  /\ lineage = "none"
  /\ ticket = [k \in Intakes |-> NoTicket]
  /\ holder = {}
  /\ disp = [d \in Dispatchers |-> NoDispatcher]
  /\ routed = [k \in Intakes |-> NoRouted]
  /\ truth = [launched |-> [k \in Intakes |-> [r \in AssessRoles \cup {"worker"} |-> 0]],
             made |-> 0, spent |-> 0]

Key(d) == CHOOSE k \in disp[d].key : TRUE
Stands(d, pc) == disp[d].pc = pc
To(d, pc) == disp' = [disp EXCEPT ![d].pc = pc]

\* Mutants of Affordable: unknown usage does not matter; the calls made before
\* the intake do not count.
AffordableUnknown(k) == budget.calls + k.used < k.maxCalls /\ budget.tokens < MaxTokens
AffordableFresh(k) == budget.complete /\ budget.calls < k.maxCalls /\ budget.tokens < MaxTokens

\* The conditions of _reserve and reserve_routing_call.
Affordable(k) == /\ budget.complete
                 /\ budget.calls + k.used < k.maxCalls
                 /\ budget.tokens < MaxTokens

Reserved(b) == [b EXCEPT !.calls = @ + 1, !.complete = FALSE]
Recorded(b, tokens, known) == [b EXCEPT !.tokens = @ + (IF known THEN tokens ELSE 0), !.complete = known]
-----------------------------------------------------------------------------
(* assess.                                                                  *)

\* Mutant of Assess: a claim that was never finished is taken over.
AssessOver(d, k) ==
  /\ Stands(d, "idle") /\ holder = {} /\ NextCall(k, << >>) = "assessment"
  /\ ticket[k].state # "assessed"
  /\ holder' = {d}
  /\ lineage' = "running"
  /\ disp' = [disp EXCEPT ![d] = [NoDispatcher EXCEPT !.pc = "journal", !.key = {k}]]
  /\ UNCHANGED <<budget, ticket, routed, truth>>

\* The lock is free, the intake was never assessed and no other intake of the
\* step left its claim unfinished.  (With a ticket the cached answer is given or
\* refused, and nothing changes.)
Assess(d, k) ==
  /\ Stands(d, "idle") /\ holder = {} /\ NextCall(k, << >>) = "assessment"
  /\ ticket[k].state = "none" /\ lineage \in {"none", "assessed"}
  /\ holder' = {d}
  /\ lineage' = "running"
  /\ disp' = [disp EXCEPT ![d] = [NoDispatcher EXCEPT !.pc = "journal", !.key = {k}]]
  /\ UNCHANGED <<budget, ticket, routed, truth>>

Journal(d) ==
  /\ Stands(d, "journal")
  /\ ticket' = [ticket EXCEPT ![Key(d)] = [NoTicket EXCEPT !.state = "running"]]
  /\ To(d, "reserve")
  /\ UNCHANGED <<budget, lineage, holder, routed, truth>>

\* _reserve: the budget is written first ...
ReserveCall(d) ==
  /\ Stands(d, "reserve") /\ Affordable(Key(d))
  /\ ticket[Key(d)].calls = << >> => budget.attempts < MaxAttempts
  /\ budget' = [Reserved(budget) EXCEPT !.attempts = @ + (IF ticket[Key(d)].calls = << >> THEN 1 ELSE 0)]
  /\ To(d, "enter")
  /\ UNCHANGED <<lineage, ticket, holder, routed, truth>>

\* ... and the call is entered in the ticket.
EnterCall(d) ==
  /\ Stands(d, "enter")
  /\ ticket' = [ticket EXCEPT ![Key(d)].calls = Append(@, [role |-> disp[d].role, state |-> "reserved"])]
  /\ To(d, "launch")
  /\ UNCHANGED <<budget, lineage, holder, routed, truth>>

LaunchCall(d) ==
  /\ Stands(d, "launch")
  /\ \E t \in 0..1 : /\ disp' = [disp EXCEPT ![d].pc = "running", ![d].tokens = t]
                     /\ truth' = [truth EXCEPT !.launched[Key(d)][disp[d].role] = @ + 1, !.made = @ + 1, !.spent = @ + t]
  /\ UNCHANGED <<budget, lineage, ticket, holder, routed>>

\* The call returns a valid observation; its tokens were on stdout or not.
ReturnCall(d) ==
  /\ Stands(d, "running")
  /\ \E o \in Observations, known \in BOOLEAN :
       /\ budget' = Recorded(budget, disp[d].tokens, known)
       /\ disp' = [disp EXCEPT ![d].pc = "record", ![d].obs = Append(@, o)]
  /\ UNCHANGED <<lineage, ticket, holder, routed, truth>>

\* The receipt is kept; another call, or the ticket is complete.
RecordCall(d) ==
  /\ Stands(d, "record")
  /\ ticket' = [ticket EXCEPT ![Key(d)].calls = Append(Front(@), [Last(@) EXCEPT !.state = "recorded"])]
  /\ LET next == NextCall(Key(d), disp[d].obs)
     IN  disp' = [disp EXCEPT ![d].pc = IF next = "nothing" THEN "assessed" ELSE "reserve",
                              ![d].role = IF next = "nothing" THEN @ ELSE next]
  /\ UNCHANGED <<budget, lineage, holder, routed, truth>>

Assessed(d) ==
  /\ Stands(d, "assessed")
  /\ ticket' = [ticket EXCEPT ![Key(d)].state = "assessed", ![Key(d)].obs = disp[d].obs]
  /\ To(d, "settle")
  /\ UNCHANGED <<budget, lineage, holder, routed, truth>>

Settle(d) ==
  /\ Stands(d, "settle")
  /\ lineage' = "assessed"
  /\ To(d, "report")
  /\ UNCHANGED <<budget, ticket, holder, routed, truth>>

Report(d) ==
  /\ Stands(d, "report")
  /\ disp' = [disp EXCEPT ![d] = NoDispatcher]
  /\ holder' = {}
  /\ UNCHANGED <<budget, lineage, ticket, routed, truth>>

\* Anything inside the try raises, the report included: ticket, then claim, are blocked.
RaiseInAssess(d) ==
  /\ disp[d].pc \notin {"idle", "journal", "block"}
  /\ ticket' = [ticket EXCEPT ![Key(d)].state = "blocked"]
  /\ To(d, "block")
  /\ UNCHANGED <<budget, lineage, holder, routed, truth>>
BlockClaim(d) ==
  /\ Stands(d, "block")
  /\ lineage' = "blocked"
  /\ disp' = [disp EXCEPT ![d] = NoDispatcher]
  /\ holder' = {}
  /\ UNCHANGED <<budget, ticket, routed, truth>>

DispatcherDies(d) ==
  /\ ~Stands(d, "idle")
  /\ disp' = [disp EXCEPT ![d] = NoDispatcher]
  /\ holder' = {}
  /\ UNCHANGED <<budget, lineage, ticket, routed, truth>>

Assessing(d) == \/ \E k \in Intakes : Assess(d, k)
                \/ Journal(d) \/ ReserveCall(d) \/ EnterCall(d) \/ LaunchCall(d) \/ ReturnCall(d)
                \/ RecordCall(d) \/ Assessed(d) \/ Settle(d) \/ Report(d)
                \/ RaiseInAssess(d) \/ BlockClaim(d) \/ DispatcherDies(d)
-----------------------------------------------------------------------------
(* The routed worker: execute, then its roles (AzureWorker's LaunchRole).      *)

WorkerAt(k, pc) == routed[k].pc = pc
WorkerTo(k, pc) == routed' = [routed EXCEPT ![k].pc = pc]
WorkerStays == UNCHANGED <<lineage, ticket, holder, disp>>

\* The parent's receipts are complete and the decision is reproduced from them;
\* the packet is claimed once.
RouteWorker(k) ==
  /\ WorkerAt(k, "none")
  /\ ticket[k].state = "assessed" /\ RouteReady(k, ticket[k].obs)
  /\ \A i \in DOMAIN ticket[k].calls : ticket[k].calls[i].state = "recorded"
  /\ WorkerTo(k, "reserve")
  /\ UNCHANGED <<budget, truth>> /\ WorkerStays

WorkerReserves(k) ==
  /\ WorkerAt(k, "reserve") /\ holder = {} /\ Affordable(k)
  /\ budget' = Reserved(budget)
  /\ WorkerTo(k, "launch")
  /\ UNCHANGED truth /\ WorkerStays

WorkerLaunches(k) ==
  /\ WorkerAt(k, "launch")
  /\ \E t \in 0..1 : /\ routed' = [routed EXCEPT ![k].pc = "running", ![k].made = @ + 1, ![k].tokens = t]
                     /\ truth' = [truth EXCEPT !.launched[k]["worker"] = @ + 1, !.made = @ + 1, !.spent = @ + t]
  /\ UNCHANGED budget /\ WorkerStays

\* The tokens are recorded and the worker goes on; or they are unknown, and it stops.
WorkerRecords(k) ==
  /\ WorkerAt(k, "running") /\ holder = {}
  /\ \E known \in BOOLEAN :
       /\ budget' = Recorded(budget, routed[k].tokens, known)
       /\ WorkerTo(k, IF known /\ routed[k].made < WorkerCalls THEN "reserve" ELSE "done")
  /\ UNCHANGED truth /\ WorkerStays

\* A reservation is refused, the lock is taken, the role fails, or the worker dies.
WorkerStops(k) ==
  /\ routed[k].pc \notin {"none", "done"}
  /\ WorkerTo(k, "done")
  /\ UNCHANGED <<budget, truth>> /\ WorkerStays

Working(k) == RouteWorker(k) \/ WorkerReserves(k) \/ WorkerLaunches(k) \/ WorkerRecords(k) \/ WorkerStops(k)

BudgetNext == (\E d \in Dispatchers : Assessing(d)) \/ (\E k \in Intakes : Working(k))
BudgetSpec == BudgetInit /\ [][BudgetNext]_budgetVars
-----------------------------------------------------------------------------
BudgetTypeOK ==
  /\ budget \in [calls : Nat, tokens : Nat, complete : BOOLEAN, attempts : 0..MaxAttempts]
  /\ lineage \in {"none", "running", "assessed", "blocked"}
  /\ \A k \in Intakes : /\ ticket[k].state \in {"none", "running", "assessed", "blocked"}
                        /\ ticket[k].calls \in Seq([role : AssessRoles, state : {"reserved", "recorded"}])
                        /\ ticket[k].obs \in Seq(Observations)
  /\ holder = {d \in Dispatchers : ~Stands(d, "idle")} /\ Cardinality(holder) <= 1
  /\ \A k \in Intakes : routed[k].made \in 0..WorkerCalls

\* Every call made for the step was counted before it was made, and the count
\* keeps to the limit of the most generous intake, whoever died in between; the
\* budget claims to know the usage only when no call is outstanding and the
\* tokens observed are the tokens spent.
BudgetHolds ==
  /\ BudgetTypeOK
  /\ truth.made <= budget.calls
  /\ budget.calls > 0 => \E k \in Intakes : budget.calls + k.used <= k.maxCalls
  /\ budget.complete => budget.tokens = truth.spent

\* No call is made once the limit of tokens was spent, known or not.
SpendingStops == [][truth.spent >= MaxTokens => truth'.spent = truth.spent]_budgetVars

\* An intake is assessed once: no role is asked twice, whatever became of the
\* first attempt, and an assessed ticket holds a receipt of every call made for it.
AssessedOnce(k) ==
  /\ \A r \in AssessRoles : truth.launched[k][r] <= 1
  /\ ticket[k].state = "assessed" =>
       /\ \A i \in DOMAIN ticket[k].calls : ticket[k].calls[i].state = "recorded"
       /\ \A r \in AssessRoles : truth.launched[k][r] = 1 <=> \E i \in DOMAIN ticket[k].calls : ticket[k].calls[i].role = r

\* A step is routed only when nobody who looked at it, outvoted or not, named a
\* gap or a human gate that is missing; and its worker can pay all its calls,
\* unless another intake of the step was assessed too.
RoutedIsSound(k) ==
  /\ ~WorkerAt(k, "none") =>
       \A o \in Range(ticket[k].obs) : ~o.gap /\ (o.verification = "human" => k.gated)
  /\ /\ WorkerAt(k, "reserve")
     /\ \A j \in Intakes \ {k} : ticket[j].state = "none" /\ WorkerAt(j, "none")
     => budget.calls + k.used < k.maxCalls

\* Each intake is assessed once, whoever died over it, and what follows from its
\* assessment is sound.
AssessedSoundly == \A k \in Intakes : AssessedOnce(k) /\ RoutedIsSound(k)
=============================================================================
