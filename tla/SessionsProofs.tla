---------------------------- MODULE SessionsProofs ----------------------------
(***************************************************************************)
(* Proofs about sessions beside each other, for any number of them: the    *)
(* dispatchers and workers that spend from one budget (RoutingBudget), and *)
(* the supervisors that reserve and import the roles of the items of one   *)
(* store (SupervisedHandoff); and about the results that are applied to a  *)
(* run, in any order (RawTeamRun).                                         *)
(***************************************************************************)
EXTENDS RoutingBudget, SupervisedHandoff, RawTeamRun, FiniteSetTheorems, WellFoundedInduction, TLAPS

-----------------------------------------------------------------------------
(* The budget: the inductive invariant.                                     *)

\* The roles of the calls of an assessment, in their order.
Nth == <<"assessment", "challenge", "reassessment">>

BudgetType == [calls : Nat, tokens : Nat, complete : BOOLEAN, attempts : 0..MaxAttempts]
CallType == [role : AssessRoles, state : {"reserved", "recorded"}]
TicketType == [state : {"none", "running", "assessed", "blocked"}, calls : Seq(CallType), obs : Seq(Observations)]
DispPcs == {"idle", "journal", "reserve", "enter", "launch", "running", "record", "assessed", "settle", "report", "block"}
DispType == [pc : DispPcs, key : SUBSET Intakes, role : AssessRoles, obs : Seq(Observations), tokens : 0..1]
RoutedType == [pc : {"none", "reserve", "launch", "running", "done"}, made : 0..WorkerCalls, tokens : 0..1]
TruthType == [launched : [Intakes -> [AssessRoles \cup {"worker"} -> Nat]], made : Nat, spent : Nat]

BudgetTypes == /\ budget \in BudgetType
               /\ lineage \in {"none", "running", "assessed", "blocked"}
               /\ ticket \in [Intakes -> TicketType]
               /\ disp \in [Dispatchers -> DispType]
               /\ routed \in [Intakes -> RoutedType]
               /\ truth \in TruthType

\* Who is at work holds the lock, alone, and works on one intake.
LockIsHeld == /\ holder = {d \in Dispatchers : disp[d].pc # "idle"}
              /\ \A d, e \in holder : d = e
              /\ \A d \in holder : \E k \in Intakes : disp[d].key = {k}

\* A call is outstanding from its reservation until its tokens are recorded.
Calling(d) == disp[d].pc \in {"enter", "launch", "running"}
WorkerCalling(k) == routed[k].pc \in {"launch", "running"}
Unmade(d) == disp[d].pc \in {"enter", "launch"}

\* At most one call is outstanding; before it is made the budget can pay for it, and
\* afterwards what it spent is all that the budget does not know yet.
Accounts ==
  /\ truth.made <= budget.calls
  /\ budget.calls > 0 => \E k \in Intakes : budget.calls + k.used <= k.maxCalls
  /\ budget.complete => /\ budget.tokens = truth.spent
                        /\ \A d \in Dispatchers : ~Calling(d)
                        /\ \A k \in Intakes : ~WorkerCalling(k)
  /\ \A d \in Dispatchers, k \in Intakes : ~(Calling(d) /\ WorkerCalling(k))
  /\ \A j, k \in Intakes : WorkerCalling(j) /\ WorkerCalling(k) => j = k
  /\ (\E d \in Dispatchers : Unmade(d)) \/ (\E k \in Intakes : routed[k].pc = "launch") =>
       budget.tokens = truth.spent /\ truth.spent < MaxTokens /\ truth.made < budget.calls
  /\ \A d \in Dispatchers : disp[d].pc = "running" => truth.spent = budget.tokens + disp[d].tokens
  /\ \A k \in Intakes : routed[k].pc = "running" => truth.spent = budget.tokens + routed[k].tokens

\* The first n roles were asked for an intake, each once, and no other.
Asked(k, n) == \A r \in AssessRoles : truth.launched[k][r] = IF \E i \in 1..n : r = Nth[i] THEN 1 ELSE 0

\* The first n calls of an intake have their receipts.
Receipts(k, n) == \A i \in 1..n : ticket[k].calls[i].state = "recorded"

\* When no other intake was ever looked at, the calls counted are those of this one.
Counted1(k, extra) ==
  (\A j \in Intakes \ {k} : ticket[j].state = "none") => budget.calls = Len(ticket[k].calls) + extra

TicketHolds(k) ==
  /\ Len(ticket[k].calls) <= 3
  /\ \A i \in DOMAIN ticket[k].calls : ticket[k].calls[i].role = Nth[i]
  /\ \A r \in AssessRoles : truth.launched[k][r] <= 1
  /\ ticket[k].state = "none" => ticket[k].calls = << >> /\ Asked(k, 0) /\ Counted1(k, 0)
  /\ ticket[k].state = "assessed" =>
       /\ Receipts(k, Len(ticket[k].calls)) /\ Asked(k, Len(ticket[k].calls))
       /\ Len(ticket[k].obs) = Len(ticket[k].calls)

\* Where a dispatcher stands in the assessment of intake k, of which it has n answers.
AtWork(d, k) ==
  LET n == Len(disp[d].obs)
      calls == Len(ticket[k].calls)
  IN  /\ disp[d].pc = "journal" => ticket[k].state = "none" /\ n = 0 /\ disp[d].role = "assessment"
      /\ disp[d].pc \in {"reserve", "enter", "launch", "running", "record", "assessed"} => ticket[k].state = "running"
      /\ disp[d].pc \in {"reserve", "enter"} => calls = n /\ n < 3 /\ Receipts(k, n) /\ Asked(k, n)
      /\ disp[d].pc \in {"launch", "running"} => calls = n + 1 /\ n < 3 /\ Receipts(k, n)
      /\ disp[d].pc \in {"reserve", "enter", "launch", "running"} => disp[d].role = Nth[n + 1]
      /\ disp[d].pc = "launch" => Asked(k, n)
      /\ disp[d].pc = "running" => Asked(k, n + 1)
      /\ disp[d].pc = "record" => calls = n /\ n > 0 /\ Receipts(k, n - 1) /\ Asked(k, n)
      /\ disp[d].pc = "assessed" => calls = n /\ Receipts(k, n) /\ Asked(k, n)
      /\ disp[d].pc \in {"reserve", "launch", "running", "record", "assessed"} => Counted1(k, 0)
      /\ disp[d].pc = "enter" => Counted1(k, 1)

\* What is routed was looked at by nobody who named a gap, and can pay its calls.
RouteHolds(k) ==
  /\ routed[k].pc = "none" => routed[k].made = 0
  /\ routed[k].pc = "none" /\ ticket[k].state = "assessed" => Counted1(k, 0)
  /\ routed[k].pc # "none" =>
       /\ ticket[k].state \in {"assessed", "blocked"}
       /\ \A o \in Range(ticket[k].obs) : ~o.gap /\ (o.verification = "human" => k.gated)
       /\ k.used + Len(ticket[k].calls) + WorkerCalls <= k.maxCalls
  /\ routed[k].pc \in {"reserve", "launch"} => routed[k].made < WorkerCalls
  /\ routed[k].pc \in {"reserve", "running"} => Counted1(k, routed[k].made)
  /\ routed[k].pc = "launch" => Counted1(k, routed[k].made + 1)

BudgetInv == /\ BudgetTypes /\ LockIsHeld /\ Accounts
             /\ \A k \in Intakes : TicketHolds(k) /\ RouteHolds(k)
             /\ \A d \in Dispatchers, k \in Intakes : disp[d].key = {k} => AtWork(d, k)

-----------------------------------------------------------------------------
(* The budget: parts of a step.                                             *)

\* A dispatcher at work holds the lock alone, and has one intake.
LEMMA OneDispatcher ==
  ASSUME BudgetInv, NEW d \in Dispatchers, disp[d].pc # "idle"
  PROVE  /\ holder = {d} /\ \A e \in Dispatchers \ {d} : disp[e].pc = "idle"
         /\ \E k \in Intakes : disp[d].key = {k} /\ Key(d) = k /\ AtWork(d, k)
<1>1. d \in holder
  BY DEF BudgetInv, LockIsHeld
<1>2. PICK k \in Intakes : disp[d].key = {k}
  BY <1>1 DEF BudgetInv, LockIsHeld
<1>3. Key(d) = k
  BY <1>2 DEF Key
<1>4. AtWork(d, k)
  BY <1>2 DEF BudgetInv
<1>5. holder = {d} /\ \A e \in Dispatchers \ {d} : disp[e].pc = "idle"
  BY <1>1 DEF BudgetInv, LockIsHeld
<1> QED BY <1>2, <1>3, <1>4, <1>5

\* It moves on with what it works with.
LEMMA ToMoves ==
  ASSUME BudgetTypes, NEW d \in Dispatchers, NEW pc \in DispPcs, To(d, pc)
  PROVE  \E x \in DispType : /\ x.pc = pc /\ x.key = disp[d].key /\ x.role = disp[d].role
                             /\ x.obs = disp[d].obs /\ x.tokens = disp[d].tokens
                             /\ disp' = [disp EXCEPT ![d] = x]
<1>1. disp[d] \in DispType /\ DOMAIN disp = Dispatchers
  BY DEF BudgetTypes
<1>2. PICK x : x = [disp[d] EXCEPT !.pc = pc]
  OBVIOUS
<1>3. /\ x \in DispType /\ x.pc = pc /\ x.key = disp[d].key /\ x.role = disp[d].role
      /\ x.obs = disp[d].obs /\ x.tokens = disp[d].tokens
  BY <1>1, <1>2 DEF DispType
<1>4. disp' = [disp EXCEPT ![d] = x]
  BY <1>1, <1>2 DEF To, DispType
<1> QED BY <1>3, <1>4

\* An idle dispatcher is one.
LEMMA IdleDispatcher == NoDispatcher \in DispType /\ NoDispatcher.pc = "idle"
BY DEF NoDispatcher, DispType, DispPcs, AssessRoles

\* What is left of a step of the dispatcher d, at work on intake k: the types of what
\* it wrote, the accounts, and what holds of d and k.
LEMMA DispatcherStep ==
  ASSUME BudgetInv, NEW d \in Dispatchers, NEW k \in Intakes, disp[d].pc # "idle", disp[d].key = {k},
         NEW x \in DispType, disp' = [disp EXCEPT ![d] = x],
         \/ x.pc = "idle" /\ holder' = {}
         \/ x.pc # "idle" /\ x.key = {k} /\ holder' = holder,
         budget' \in BudgetType, ticket' \in [Intakes -> TicketType], truth' \in TruthType,
         lineage' \in {"none", "running", "assessed", "blocked"}, routed' = routed,
         \A j \in Intakes \ {k} : ticket'[j] = ticket[j] /\ truth'.launched[j] = truth.launched[j],
         ticket'[k].state = "none" => ticket[k].state = "none" /\ budget'.calls = budget.calls,
         Accounts', TicketHolds(k)', RouteHolds(k)', AtWork(d, k)'
  PROVE  BudgetInv'
<1>1. /\ disp' \in [Dispatchers -> DispType] /\ disp'[d] = x
      /\ \A e \in Dispatchers \ {d} : disp'[e] = disp[e] /\ disp'[e].pc = "idle"
      /\ holder = {d}
  BY OneDispatcher DEF BudgetInv, BudgetTypes
<1>2. BudgetTypes'
  BY <1>1 DEF BudgetInv, BudgetTypes
<1>3. LockIsHeld'
  <2>1. holder' = {e \in Dispatchers : disp'[e].pc # "idle"}
    BY <1>1
  <2>2. \A e, f \in holder' : e = f
    BY <1>1
  <2>3. \A e \in holder' : e = d /\ x.key = {k}
    BY <1>1
  <2> QED BY <1>1, <2>1, <2>2, <2>3 DEF LockIsHeld
<1>4. ASSUME NEW j \in Intakes, j # k PROVE TicketHolds(j)' /\ RouteHolds(j)'
  <2>1. ticket'[j] = ticket[j] /\ truth'.launched[j] = truth.launched[j] /\ routed'[j] = routed[j]
    BY <1>4
  <2>2. TicketHolds(j) /\ RouteHolds(j)
    BY DEF BudgetInv
  <2>3. ASSUME NEW n, Counted1(j, n) PROVE Counted1(j, n)'
    <3>1. SUFFICES ASSUME \A i \in Intakes \ {j} : ticket'[i].state = "none"
                   PROVE  budget'.calls = Len(ticket'[j].calls) + n
      BY DEF Counted1
    <3>2. k \in Intakes \ {j}
      BY <1>4
    <3>3. ticket'[k].state = "none"
      BY <3>1, <3>2
    <3>4. budget'.calls = budget.calls /\ \A i \in Intakes \ {j} : ticket[i].state = "none"
      BY <3>1, <3>3
    <3> QED BY <2>1, <2>3, <3>4 DEF Counted1
  <2>4. TicketHolds(j)'
    BY <2>1, <2>2, <2>3 DEF TicketHolds, Asked, Receipts
  <2>5. RouteHolds(j)'
    BY <2>1, <2>2, <2>3 DEF RouteHolds
  <2> QED BY <2>4, <2>5
<1>5. ASSUME NEW e \in Dispatchers, NEW j \in Intakes, disp'[e].key = {j} PROVE AtWork(e, j)'
  <2>1. CASE disp'[e].pc = "idle"
    BY <2>1 DEF AtWork
  <2>2. CASE disp'[e].pc # "idle"
    <3>1. e = d /\ x.pc # "idle" /\ x.key = {k}
      BY <1>1, <2>2
    <3>2. j = k
      BY <1>1, <1>5, <3>1
    <3> QED BY <3>1, <3>2
  <2> QED BY <2>1, <2>2
<1> QED BY <1>2, <1>3, <1>4, <1>5 DEF BudgetInv

\* The accounts depend on the budget, the calls made and who is calling.
LEMMA AccountsKept ==
  ASSUME BudgetInv, NEW d \in Dispatchers, NEW x \in DispType, disp' = [disp EXCEPT ![d] = x],
         budget' = budget, truth' = truth, routed' = routed,
         x.pc \in {"enter", "launch"} => Unmade(d),
         x.pc = "running" => disp[d].pc = "running" /\ x.tokens = disp[d].tokens
  PROVE  Accounts'
<1>1. /\ disp'[d] = x /\ \A e \in Dispatchers \ {d} : disp'[e] = disp[e]
  BY DEF BudgetInv, BudgetTypes
<1>2. \A e \in Dispatchers : /\ Calling(e)' => Calling(e)
                             /\ Unmade(e)' => Unmade(e)
                             /\ disp'[e].pc = "running" => disp[e].pc = "running" /\ disp'[e].tokens = disp[e].tokens
  BY <1>1 DEF Calling, Unmade
<1>3. \A k \in Intakes : WorkerCalling(k)' <=> WorkerCalling(k)
  BY DEF WorkerCalling
<1> QED BY <1>2, <1>3 DEF BudgetInv, Accounts

\* An intake that is being assessed is not routed.
LEMMA Unrouted ==
  ASSUME BudgetInv, NEW k \in Intakes, ticket[k].state \in {"none", "running"}
  PROVE  routed[k].pc = "none" /\ routed[k].made = 0
BY DEF BudgetInv, RouteHolds

\* The next call, if there is one, is the next role's.
LEMMA NextRole ==
  ASSUME NEW k, NEW obs \in Seq(Observations), NextCall(k, obs) # "nothing"
  PROVE  Len(obs) < 3 /\ NextCall(k, obs) = Nth[Len(obs) + 1] /\ NextCall(k, obs) \in AssessRoles
<1>1. NextCall(k, obs) = Awaits(k, obs)
  BY DEF NextCall
<1>2. CASE obs = << >>
  BY <1>1, <1>2 DEF Awaits, Nth, AssessRoles
<1>3. CASE obs # << >>
  <2>1. CASE Challenged(k, obs) /\ Len(obs) = 1
    BY <1>1, <1>3, <2>1 DEF Awaits, Nth, AssessRoles
  <2>2. CASE ~(Challenged(k, obs) /\ Len(obs) = 1)
    <3>1. Disagree(obs) /\ Len(obs) = 2
      BY <1>1, <1>3, <2>2 DEF Awaits
    <3>2. Awaits(k, obs) = "reassessment"
      BY <1>3, <2>2, <3>1 DEF Awaits
    <3> QED BY <1>1, <3>1, <3>2 DEF Nth, AssessRoles
  <2> QED BY <2>1, <2>2
<1> QED BY <1>2, <1>3

-----------------------------------------------------------------------------
(* The budget: the steps of a dispatcher.                                   *)

\* The lock is taken for an intake that nobody looked at.
LEMMA AssessKeeps ==
  ASSUME BudgetInv, NEW d \in Dispatchers, NEW k \in Intakes, Assess(d, k) PROVE BudgetInv'
<1>1. PICK x : x = [NoDispatcher EXCEPT !.pc = "journal", !.key = {k}]
  OBVIOUS
<1>2. /\ disp[d].pc = "idle" /\ holder = {} /\ ticket[k].state = "none" /\ holder' = {d}
      /\ lineage' = "running" /\ disp' = [disp EXCEPT ![d] = x]
      /\ UNCHANGED <<budget, ticket, routed, truth>>
  BY <1>1 DEF Assess, Stands
<1>3. x \in DispType /\ x.pc = "journal" /\ x.key = {k} /\ x.obs = << >> /\ x.role = "assessment"
  <2>1. NoDispatcher \in DispType /\ {k} \in SUBSET Intakes /\ "journal" \in DispPcs
    BY IdleDispatcher DEF DispPcs
  <2>2. x \in DispType /\ x.pc = "journal" /\ x.key = {k} /\ x.obs = NoDispatcher.obs /\ x.role = NoDispatcher.role
    BY <1>1, <2>1 DEF DispType
  <2> QED BY <2>2 DEF NoDispatcher
<1>4. /\ disp' \in [Dispatchers -> DispType] /\ disp'[d] = x
      /\ \A e \in Dispatchers \ {d} : disp'[e] = disp[e]
      /\ \A e \in Dispatchers : disp[e].pc = "idle"
  BY <1>2, <1>3 DEF BudgetInv, BudgetTypes, LockIsHeld
<1>5. BudgetTypes'
  BY <1>2, <1>4 DEF BudgetInv, BudgetTypes
<1>6. LockIsHeld'
  BY <1>2, <1>3, <1>4 DEF LockIsHeld
<1>7. Accounts'
  BY <1>2, <1>3, AccountsKept
<1>8. ASSUME NEW j \in Intakes PROVE TicketHolds(j)' /\ RouteHolds(j)'
  BY <1>2 DEF BudgetInv, TicketHolds, RouteHolds, Counted1, Asked, Receipts
<1>9. ASSUME NEW e \in Dispatchers, NEW j \in Intakes, disp'[e].key = {j} PROVE AtWork(e, j)'
  <2>1. CASE e # d
    BY <1>4, <2>1 DEF AtWork
  <2>2. CASE e = d
    <3>1. j = k
      BY <1>3, <1>4, <1>9, <2>2
    <3> QED BY <1>2, <1>3, <1>4, <2>2, <3>1 DEF AtWork
  <2> QED BY <2>1, <2>2
<1> QED BY <1>5, <1>6, <1>7, <1>8, <1>9 DEF BudgetInv

\* The ticket says running before anything is reserved.
LEMMA JournalKeeps == ASSUME BudgetInv, NEW d \in Dispatchers, Journal(d) PROVE BudgetInv'
<1>1. disp[d].pc = "journal"
  BY DEF Journal, Stands
<1>2. PICK k \in Intakes : disp[d].key = {k} /\ Key(d) = k /\ AtWork(d, k)
  BY <1>1, OneDispatcher
<1>3. PICK t : t = [NoTicket EXCEPT !.state = "running"]
  OBVIOUS
<1>4. /\ ticket' = [ticket EXCEPT ![k] = t] /\ To(d, "reserve")
      /\ UNCHANGED <<budget, lineage, holder, routed, truth>>
  BY <1>2, <1>3 DEF Journal
<1>5. t \in TicketType /\ t.state = "running" /\ t.calls = << >>
  <2>1. NoTicket \in TicketType
    BY DEF NoTicket, TicketType
  <2>2. t \in TicketType /\ t.state = "running" /\ t.calls = NoTicket.calls
    BY <1>3, <2>1 DEF TicketType
  <2> QED BY <2>2 DEF NoTicket
<1>6. PICK x \in DispType : /\ x.pc = "reserve" /\ x.key = disp[d].key /\ x.role = disp[d].role
                            /\ x.obs = disp[d].obs /\ disp' = [disp EXCEPT ![d] = x]
  BY <1>4, ToMoves, "reserve" \in DispPcs DEF BudgetInv, DispPcs
<1>7. /\ ticket' \in [Intakes -> TicketType] /\ ticket'[k] = t /\ disp'[d] = x
      /\ \A j \in Intakes \ {k} : ticket'[j] = ticket[j]
  BY <1>4, <1>5, <1>6 DEF BudgetInv, BudgetTypes
<1>8. /\ ticket[k].state = "none" /\ ticket[k].calls = << >> /\ Asked(k, 0) /\ Counted1(k, 0)
      /\ Len(disp[d].obs) = 0 /\ disp[d].role = "assessment"
  BY <1>1, <1>2 DEF AtWork, BudgetInv, TicketHolds
<1>9. Accounts'
  BY <1>4, <1>6, AccountsKept
<1>10. Counted1(k, 0)' /\ Asked(k, 0)'
  BY <1>4, <1>5, <1>7, <1>8 DEF Counted1, Asked
<1>11. TicketHolds(k)'
  BY <1>4, <1>5, <1>7 DEF BudgetInv, TicketHolds
<1>12. RouteHolds(k)'
  BY <1>4, <1>5, <1>7, <1>8, Unrouted DEF RouteHolds
<1>13. AtWork(d, k)'
  BY <1>5, <1>6, <1>7, <1>8, <1>10 DEF AtWork, Receipts, Nth
<1> QED BY <1>1, <1>2, <1>4, <1>5, <1>6, <1>7, <1>9, <1>11, <1>12, <1>13, DispatcherStep DEF BudgetInv, BudgetTypes

\* A reservation is only made when the budget knows what was spent.
LEMMA Reserves ==
  ASSUME BudgetInv, NEW k \in Intakes, Affordable(k), budget'.calls = budget.calls + 1,
         budget'.complete = FALSE, budget'.tokens = budget.tokens, budget' \in BudgetType, truth' = truth
  PROVE  /\ truth'.made < budget'.calls /\ \E j \in Intakes : budget'.calls + j.used <= j.maxCalls
         /\ budget'.tokens = truth'.spent /\ truth'.spent < MaxTokens
         /\ \A d \in Dispatchers : ~Calling(d) /\ \A j \in Intakes : ~WorkerCalling(j)
<1>1. /\ budget \in BudgetType /\ truth.made \in Nat /\ k.used \in Nat /\ k.maxCalls \in Nat /\ MaxTokens \in Nat
  BY PolicyAssumption DEF BudgetInv, BudgetTypes, TruthType
<1>2. budget.calls \in Nat /\ budget.complete /\ budget.calls + k.used < k.maxCalls /\ budget.tokens < MaxTokens
  BY <1>1 DEF Affordable, BudgetType
<1>3. /\ budget.tokens = truth.spent /\ truth.made <= budget.calls
      /\ \A d \in Dispatchers : ~Calling(d) /\ \A j \in Intakes : ~WorkerCalling(j)
  BY <1>2 DEF BudgetInv, Accounts
<1>4. budget'.calls + k.used <= k.maxCalls
  BY <1>1, <1>2
<1> QED BY <1>1, <1>2, <1>3, <1>4

\* The budget counts a call before it is made.
LEMMA ReserveCallKeeps == ASSUME BudgetInv, NEW d \in Dispatchers, ReserveCall(d) PROVE BudgetInv'
<1>1. disp[d].pc = "reserve"
  BY DEF ReserveCall, Stands
<1>2. PICK k \in Intakes : disp[d].key = {k} /\ Key(d) = k /\ AtWork(d, k)
  BY <1>1, OneDispatcher
<1>3. /\ Affordable(k) /\ To(d, "enter") /\ UNCHANGED <<lineage, ticket, holder, routed, truth>>
      /\ ticket[k].calls = << >> => budget.attempts < MaxAttempts
      /\ budget' = [Reserved(budget) EXCEPT !.attempts = @ + (IF ticket[k].calls = << >> THEN 1 ELSE 0)]
  BY <1>2 DEF ReserveCall
<1>4. budget \in BudgetType /\ budget.attempts \in 0..MaxAttempts /\ budget.calls \in Nat /\ MaxAttempts \in Nat
  BY PolicyAssumption DEF BudgetInv, BudgetTypes, BudgetType
<1>5. /\ budget' \in BudgetType /\ budget'.calls = budget.calls + 1 /\ budget'.complete = FALSE
      /\ budget'.tokens = budget.tokens
  <2>1. PICK one : one = IF ticket[k].calls = << >> THEN 1 ELSE 0
    OBVIOUS
  <2>2. PICK b : b = [budget EXCEPT !.calls = budget.calls + 1, !.complete = FALSE]
    OBVIOUS
  <2>3. /\ b \in BudgetType /\ b.calls = budget.calls + 1 /\ b.complete = FALSE
        /\ b.tokens = budget.tokens /\ b.attempts = budget.attempts
    <3>1. b = [calls |-> budget.calls + 1, tokens |-> budget.tokens, complete |-> FALSE, attempts |-> budget.attempts]
      BY <1>4, <2>2 DEF BudgetType
    <3>2. budget.tokens \in Nat
      BY <1>4 DEF BudgetType
    <3>3. b \in BudgetType
      BY <1>4, <3>1, <3>2 DEF BudgetType
    <3> QED BY <3>1, <3>3
  <2>4. budget' = [b EXCEPT !.attempts = budget.attempts + one]
    BY <1>3, <2>1, <2>2, <2>3 DEF Reserved
  <2>5. budget.attempts + one \in 0..MaxAttempts
    BY <1>3, <1>4, <2>1
  <2> QED BY <2>3, <2>4, <2>5 DEF BudgetType
<1>6. PICK x \in DispType : /\ x.pc = "enter" /\ x.key = disp[d].key /\ x.role = disp[d].role
                            /\ x.obs = disp[d].obs /\ disp' = [disp EXCEPT ![d] = x]
  BY <1>3, ToMoves, "enter" \in DispPcs DEF BudgetInv, DispPcs
<1>7. /\ disp'[d] = x /\ \A e \in Dispatchers \ {d} : disp'[e] = disp[e] /\ disp'[e].pc = "idle"
  BY <1>1, <1>6, OneDispatcher DEF BudgetInv, BudgetTypes
<1>8. /\ truth'.made < budget'.calls /\ \E j \in Intakes : budget'.calls + j.used <= j.maxCalls
      /\ budget'.tokens = truth'.spent /\ truth'.spent < MaxTokens
      /\ \A j \in Intakes : ~WorkerCalling(j)
  BY <1>2, <1>3, <1>5, Reserves
<1>9. Accounts'
  <2>1. \A j \in Intakes : ~WorkerCalling(j)' /\ routed'[j].pc \notin {"launch", "running"}
    BY <1>3, <1>8 DEF WorkerCalling
  <2>2. \A e \in Dispatchers : disp'[e].pc # "running"
    BY <1>6, <1>7
  <2>3. truth'.made \in Nat /\ budget'.calls \in Nat
    BY <1>3, <1>5 DEF BudgetInv, BudgetTypes, TruthType, BudgetType
  <2> QED BY <1>5, <1>8, <2>1, <2>2, <2>3 DEF Accounts
<1>10. /\ ticket[k].state = "running" /\ Len(ticket[k].calls) = Len(disp[d].obs) /\ Len(disp[d].obs) < 3
       /\ Receipts(k, Len(disp[d].obs)) /\ Asked(k, Len(disp[d].obs))
       /\ disp[d].role = Nth[Len(disp[d].obs) + 1] /\ Counted1(k, 0)
  BY <1>1, <1>2 DEF AtWork
<1>11. Counted1(k, 1)'
  <2>1. Len(ticket[k].calls) \in Nat
    BY DEF BudgetInv, BudgetTypes, TicketType
  <2> QED BY <1>3, <1>4, <1>5, <1>10, <2>1 DEF Counted1
<1>12. TicketHolds(k)'
  BY <1>3, <1>10 DEF BudgetInv, TicketHolds
<1>13. RouteHolds(k)'
  BY <1>3, <1>10, Unrouted DEF RouteHolds
<1>14. AtWork(d, k)'
  BY <1>3, <1>6, <1>7, <1>10, <1>11 DEF AtWork, Receipts, Asked
<1> QED BY <1>1, <1>2, <1>3, <1>5, <1>6, <1>9, <1>10, <1>12, <1>13, <1>14, DispatcherStep DEF BudgetInv, BudgetTypes

\* A call that was counted is entered in the ticket.
LEMMA EnterCallKeeps == ASSUME BudgetInv, NEW d \in Dispatchers, EnterCall(d) PROVE BudgetInv'
<1>1. disp[d].pc = "enter"
  BY DEF EnterCall, Stands
<1>2. PICK k \in Intakes : disp[d].key = {k} /\ Key(d) = k /\ AtWork(d, k)
  BY <1>1, OneDispatcher
<1>3. /\ ticket[k].state = "running" /\ Len(ticket[k].calls) = Len(disp[d].obs) /\ Len(disp[d].obs) < 3
      /\ Receipts(k, Len(disp[d].obs)) /\ Asked(k, Len(disp[d].obs))
      /\ disp[d].role = Nth[Len(disp[d].obs) + 1] /\ Counted1(k, 1)
  BY <1>1, <1>2 DEF AtWork
<1>4. PICK c : c = [role |-> disp[d].role, state |-> "reserved"]
  OBVIOUS
<1>5. PICK s : s = Append(ticket[k].calls, c)
  OBVIOUS
<1>6. PICK t : t = [ticket[k] EXCEPT !.calls = s]
  OBVIOUS
<1>7. ticket[k] \in TicketType /\ disp[d] \in DispType /\ DOMAIN ticket = Intakes
  BY DEF BudgetInv, BudgetTypes
<1>8. /\ ticket' = [ticket EXCEPT ![k] = t] /\ To(d, "launch")
      /\ UNCHANGED <<budget, lineage, holder, routed, truth>>
  BY <1>2, <1>4, <1>5, <1>6, <1>7 DEF EnterCall, TicketType
<1>9. c \in CallType /\ c.role = Nth[Len(disp[d].obs) + 1]
  BY <1>3, <1>4, <1>7 DEF CallType, DispType
<1>10. /\ s \in Seq(CallType) /\ Len(s) = Len(disp[d].obs) + 1 /\ Len(disp[d].obs) \in Nat
       /\ DOMAIN s = 1..Len(s) /\ s[Len(disp[d].obs) + 1] = c
       /\ \A i \in 1..Len(disp[d].obs) : s[i] = ticket[k].calls[i]
  BY <1>3, <1>5, <1>7, <1>9 DEF TicketType, DispType
<1>11. t \in TicketType /\ t.state = "running" /\ t.calls = s
  BY <1>3, <1>6, <1>7, <1>10 DEF TicketType
<1>12. PICK x \in DispType : /\ x.pc = "launch" /\ x.key = disp[d].key /\ x.role = disp[d].role
                             /\ x.obs = disp[d].obs /\ disp' = [disp EXCEPT ![d] = x]
  BY <1>8, ToMoves, "launch" \in DispPcs DEF BudgetInv, DispPcs
<1>13. /\ ticket' \in [Intakes -> TicketType] /\ ticket'[k] = t /\ disp'[d] = x
       /\ \A j \in Intakes \ {k} : ticket'[j] = ticket[j]
  BY <1>8, <1>11, <1>12 DEF BudgetInv, BudgetTypes
<1>14. Accounts'
  BY <1>1, <1>8, <1>12, AccountsKept DEF Unmade
<1>15. Counted1(k, 0)'
  BY <1>3, <1>8, <1>10, <1>11, <1>13 DEF Counted1
<1>16. TicketHolds(k)'
  <2>1. \A i \in DOMAIN ticket[k].calls : ticket[k].calls[i].role = Nth[i]
    BY DEF BudgetInv, TicketHolds
  <2>2. DOMAIN ticket[k].calls = 1..Len(disp[d].obs)
    BY <1>3, <1>7 DEF TicketType
  <2>3. \A i \in DOMAIN s : s[i].role = Nth[i]
    BY <1>9, <1>10, <2>1, <2>2, SMTT(20)
  <2>4. \A r \in AssessRoles : truth'.launched[k][r] <= 1
    BY <1>8 DEF BudgetInv, TicketHolds
  <2>5. ticket'[k].calls = s /\ ticket'[k].state = "running" /\ Len(s) <= 3
    BY <1>3, <1>10, <1>11, <1>13
  <2> QED BY <2>3, <2>4, <2>5 DEF TicketHolds
<1>17. RouteHolds(k)'
  BY <1>3, <1>8, <1>11, <1>13, Unrouted DEF RouteHolds
<1>18. AtWork(d, k)'
  <2>1. ticket'[k].calls = s /\ ticket'[k].state = "running" /\ disp'[d].obs = disp[d].obs
        /\ disp'[d].pc = "launch" /\ disp'[d].role = Nth[Len(disp'[d].obs) + 1]
    BY <1>3, <1>11, <1>12, <1>13
  <2>2. Receipts(k, Len(disp[d].obs))'
    BY <1>3, <1>10, <2>1 DEF Receipts
  <2>3. Asked(k, Len(disp[d].obs))'
    BY <1>3, <1>8, <2>1 DEF Asked
  <2> QED BY <1>3, <1>10, <1>15, <2>1, <2>2, <2>3 DEF AtWork
<1> QED BY <1>1, <1>2, <1>3, <1>8, <1>11, <1>12, <1>13, <1>14, <1>16, <1>17, <1>18, DispatcherStep DEF BudgetInv, BudgetTypes

\* The call is made: the budget could pay for it.
LEMMA LaunchCallKeeps == ASSUME BudgetInv, NEW d \in Dispatchers, LaunchCall(d) PROVE BudgetInv'
<1>1. disp[d].pc = "launch"
  BY DEF LaunchCall, Stands
<1>2. PICK k \in Intakes : disp[d].key = {k} /\ Key(d) = k /\ AtWork(d, k)
  BY <1>1, OneDispatcher
<1>3. PICK t \in 0..1 : /\ disp' = [disp EXCEPT ![d].pc = "running", ![d].tokens = t]
                        /\ truth' = [truth EXCEPT !.launched[k][disp[d].role] = @ + 1, !.made = @ + 1, !.spent = @ + t]
  BY <1>2 DEF LaunchCall
<1>4. UNCHANGED <<budget, lineage, ticket, holder, routed>>
  BY DEF LaunchCall
<1>5. /\ ticket[k].state = "running" /\ Len(ticket[k].calls) = Len(disp[d].obs) + 1 /\ Len(disp[d].obs) < 3
      /\ Receipts(k, Len(disp[d].obs)) /\ Asked(k, Len(disp[d].obs))
      /\ disp[d].role = Nth[Len(disp[d].obs) + 1] /\ Counted1(k, 0)
  BY <1>1, <1>2 DEF AtWork
<1>6. /\ truth \in TruthType /\ disp[d] \in DispType /\ DOMAIN disp = Dispatchers /\ disp[d].role \in AssessRoles
      /\ Len(disp[d].obs) \in Nat /\ budget \in BudgetType
  BY DEF BudgetInv, BudgetTypes, DispType
<1>7. PICK x : x = [disp[d] EXCEPT !.pc = "running", !.tokens = t]
  OBVIOUS
<1>8. /\ x \in DispType /\ x.pc = "running" /\ x.tokens = t /\ x.obs = disp[d].obs /\ x.key = {k}
      /\ x.role = disp[d].role
  BY <1>2, <1>3, <1>6, <1>7 DEF DispType, DispPcs
<1>9. disp' = [disp EXCEPT ![d] = x]
  BY <1>3, <1>6, <1>7 DEF DispType
<1>10. disp'[d] = x /\ \A e \in Dispatchers \ {d} : disp'[e] = disp[e] /\ disp'[e].pc = "idle"
  BY <1>1, <1>6, <1>9, OneDispatcher
<1>11. PICK l : l = [truth.launched EXCEPT ![k][disp[d].role] = @ + 1]
  OBVIOUS
<1>12. /\ l \in [Intakes -> [AssessRoles \cup {"worker"} -> Nat]]
       /\ l[k][disp[d].role] = truth.launched[k][disp[d].role] + 1
       /\ \A r \in AssessRoles \ {disp[d].role} : l[k][r] = truth.launched[k][r]
       /\ \A j \in Intakes \ {k} : l[j] = truth.launched[j]
  <2>1. PICK row : row = [truth.launched[k] EXCEPT ![disp[d].role] = @ + 1]
    OBVIOUS
  <2>2. truth.launched[k] \in [AssessRoles \cup {"worker"} -> Nat] /\ truth.launched \in [Intakes -> [AssessRoles \cup {"worker"} -> Nat]]
    BY <1>6 DEF TruthType
  <2>3. /\ row \in [AssessRoles \cup {"worker"} -> Nat]
        /\ row[disp[d].role] = truth.launched[k][disp[d].role] + 1
        /\ \A r \in AssessRoles \ {disp[d].role} : row[r] = truth.launched[k][r]
    BY <1>6, <2>1, <2>2
  <2>4. l = [truth.launched EXCEPT ![k] = row]
    BY <1>11, <2>1
  <2>5. l \in [Intakes -> [AssessRoles \cup {"worker"} -> Nat]] /\ l[k] = row /\ \A j \in Intakes \ {k} : l[j] = truth.launched[j]
    BY <2>2, <2>3, <2>4
  <2> QED BY <2>3, <2>5
<1>13. /\ truth' \in TruthType /\ truth'.launched = l /\ truth'.made = truth.made + 1
       /\ truth'.spent = truth.spent + t
  <2>1. truth' = [launched |-> l, made |-> truth.made + 1, spent |-> truth.spent + t]
    BY <1>3, <1>6, <1>11 DEF TruthType
  <2>2. truth.made + 1 \in Nat /\ truth.spent + t \in Nat
    BY <1>3, <1>6 DEF TruthType
  <2> QED BY <1>12, <2>1, <2>2 DEF TruthType
<1>14. Asked(k, Len(disp[d].obs) + 1)'
  <2>1. PICK n \in 0..2 : n = Len(disp[d].obs)
    <3>1. PICK n : n = Len(disp[d].obs)
      OBVIOUS
    <3>2. n \in Nat /\ n < 3
      BY <1>5, <1>6, <3>1
    <3>3. n \in 0..2
      BY <3>2
    <3> QED BY <3>1, <3>3
  <2>2. /\ \A i \in 1..n : Nth[i] # Nth[n + 1]
        /\ \A i \in 1..(n + 1) : i \in 1..n \/ i = n + 1
        /\ 1..n \subseteq 1..(n + 1) /\ n + 1 \in 1..(n + 1)
    BY DEF Nth
  <2>3. ASSUME NEW r \in AssessRoles
        PROVE  l[k][r] = IF \E i \in 1..(n + 1) : r = Nth[i] THEN 1 ELSE 0
    <3>1. truth.launched[k][r] = IF \E i \in 1..n : r = Nth[i] THEN 1 ELSE 0
      BY <1>5, <2>1 DEF Asked
    <3>2. CASE r = Nth[n + 1]
      <4>1. truth.launched[k][r] = 0
        BY <2>2, <3>1, <3>2
      <4> QED BY <1>5, <1>12, <2>1, <2>2, <3>2, <4>1
    <3>3. CASE r # Nth[n + 1]
      <4>1. l[k][r] = truth.launched[k][r]
        BY <1>5, <1>12, <2>1, <3>3
      <4>2. (\E i \in 1..(n + 1) : r = Nth[i]) <=> (\E i \in 1..n : r = Nth[i])
        BY <2>2, <3>3
      <4> QED BY <3>1, <4>1, <4>2
    <3> QED BY <3>2, <3>3
  <2>4. truth'.launched[k] = l[k] /\ disp'[d].obs = disp[d].obs
    BY <1>8, <1>10, <1>13
  <2>5. \A r \in AssessRoles : truth'.launched[k][r] = IF \E i \in 1..(Len(disp'[d].obs) + 1) : r = Nth[i] THEN 1 ELSE 0
    BY <2>1, <2>3, <2>4
  <2> QED BY <2>5 DEF Asked
<1>15. Accounts'
  <2>1. /\ budget.tokens = truth.spent /\ truth.spent < MaxTokens /\ truth.made < budget.calls /\ ~budget.complete
        /\ \A j \in Intakes : ~WorkerCalling(j)
        /\ budget.calls > 0 => \E j \in Intakes : budget.calls + j.used <= j.maxCalls
    BY <1>1 DEF BudgetInv, Accounts, Unmade, Calling
  <2>2. \A j \in Intakes : ~WorkerCalling(j)' /\ routed'[j].pc \notin {"launch", "running"}
    BY <1>4, <2>1 DEF WorkerCalling
  <2>3. \A e \in Dispatchers : ~Unmade(e)' /\ (disp'[e].pc = "running" => e = d)
    BY <1>8, <1>10 DEF Unmade
  <2>4. truth'.spent = budget.tokens + disp'[d].tokens
    BY <1>8, <1>10, <1>13, <2>1
  <2>5. truth'.made <= budget'.calls
    BY <1>4, <1>6, <1>13, <2>1 DEF TruthType, BudgetType
  <2> QED BY <1>4, <2>1, <2>2, <2>3, <2>4, <2>5 DEF Accounts
<1>16. TicketHolds(k)'
  <2>1. \A r \in AssessRoles : truth'.launched[k][r] <= 1
    BY <1>14 DEF Asked
  <2> QED BY <1>4, <1>5, <2>1 DEF BudgetInv, TicketHolds
<1>17. RouteHolds(k)'
  BY <1>4, <1>5, Unrouted DEF RouteHolds
<1>18. AtWork(d, k)'
  <2>1. Receipts(k, Len(disp[d].obs))' /\ Counted1(k, 0)'
    BY <1>4, <1>5, <1>8, <1>10 DEF Receipts, Counted1
  <2> QED BY <1>4, <1>5, <1>8, <1>10, <1>14, <2>1 DEF AtWork
<1>19. \A j \in Intakes \ {k} : ticket'[j] = ticket[j] /\ truth'.launched[j] = truth.launched[j]
  BY <1>4, <1>12, <1>13
<1> QED BY <1>1, <1>2, <1>4, <1>5, <1>8, <1>9, <1>13, <1>15, <1>16, <1>17, <1>18, <1>19, DispatcherStep DEF BudgetInv, BudgetTypes

\* Recorded usage closes the account, or leaves it open for good.
LEMMA Recording ==
  ASSUME NEW b \in BudgetType, NEW t \in 0..1, NEW known \in BOOLEAN
  PROVE  /\ Recorded(b, t, known) \in BudgetType
         /\ Recorded(b, t, known).calls = b.calls
         /\ Recorded(b, t, known).complete <=> known
         /\ known => Recorded(b, t, known).tokens = b.tokens + t
<1>1. PICK tokens : tokens = b.tokens + (IF known THEN t ELSE 0)
  OBVIOUS
<1>2. b.tokens \in Nat /\ b.calls \in Nat /\ b.attempts \in 0..MaxAttempts
  BY DEF BudgetType
<1>3. tokens \in Nat /\ (known => tokens = b.tokens + t)
  BY <1>1, <1>2
<1>4. Recorded(b, t, known) = [calls |-> b.calls, tokens |-> tokens, complete |-> known, attempts |-> b.attempts]
  <2>1. Recorded(b, t, known) = [b EXCEPT !.tokens = tokens, !.complete = known]
    BY <1>1, <1>2 DEF Recorded, BudgetType
  <2> QED BY <2>1 DEF BudgetType
<1>5. [calls |-> b.calls, tokens |-> tokens, complete |-> known, attempts |-> b.attempts] \in BudgetType
  BY <1>2, <1>3 DEF BudgetType
<1> QED BY <1>3, <1>4, <1>5

\* The answer is there, and its tokens if they were seen.
LEMMA ReturnCallKeeps == ASSUME BudgetInv, NEW d \in Dispatchers, ReturnCall(d) PROVE BudgetInv'
<1>1. disp[d].pc = "running"
  BY DEF ReturnCall, Stands
<1>2. PICK k \in Intakes : disp[d].key = {k} /\ Key(d) = k /\ AtWork(d, k)
  BY <1>1, OneDispatcher
<1>3. PICK o \in Observations, known \in BOOLEAN :
        /\ budget' = Recorded(budget, disp[d].tokens, known)
        /\ disp' = [disp EXCEPT ![d].pc = "record", ![d].obs = Append(@, o)]
  BY DEF ReturnCall
<1>4. UNCHANGED <<lineage, ticket, holder, routed, truth>>
  BY DEF ReturnCall
<1>5. /\ ticket[k].state = "running" /\ Len(ticket[k].calls) = Len(disp[d].obs) + 1
      /\ Receipts(k, Len(disp[d].obs)) /\ Asked(k, Len(disp[d].obs) + 1) /\ Counted1(k, 0)
  BY <1>1, <1>2 DEF AtWork
<1>6. /\ disp[d] \in DispType /\ DOMAIN disp = Dispatchers /\ disp[d].obs \in Seq(Observations)
      /\ disp[d].tokens \in 0..1 /\ budget \in BudgetType
  BY DEF BudgetInv, BudgetTypes, DispType
<1>7. /\ budget' \in BudgetType /\ budget'.calls = budget.calls
      /\ budget'.complete => budget'.tokens = budget.tokens + disp[d].tokens
  BY <1>3, <1>6, Recording
<1>8. PICK x : x = [disp[d] EXCEPT !.pc = "record", !.obs = Append(disp[d].obs, o)]
  OBVIOUS
<1>9. Append(disp[d].obs, o) \in Seq(Observations) /\ Len(Append(disp[d].obs, o)) = Len(disp[d].obs) + 1
  BY <1>6
<1>10. x \in DispType /\ x.pc = "record" /\ x.obs = Append(disp[d].obs, o) /\ x.key = {k}
  BY <1>2, <1>6, <1>8, <1>9 DEF DispType, DispPcs
<1>11. disp' = [disp EXCEPT ![d] = x]
  BY <1>3, <1>6, <1>8 DEF DispType
<1>12. disp'[d] = x /\ \A e \in Dispatchers \ {d} : disp'[e] = disp[e] /\ disp'[e].pc = "idle"
  BY <1>1, <1>6, <1>11, OneDispatcher
<1>13. Accounts'
  <2>1. /\ truth.spent = budget.tokens + disp[d].tokens /\ truth.made <= budget.calls
        /\ \A j \in Intakes : ~WorkerCalling(j)
        /\ budget.calls > 0 => \E j \in Intakes : budget.calls + j.used <= j.maxCalls
    BY <1>1 DEF BudgetInv, Accounts, Calling
  <2>2. \A j \in Intakes : ~WorkerCalling(j)' /\ routed'[j].pc \notin {"launch", "running"}
    BY <1>4, <2>1 DEF WorkerCalling
  <2>3. \A e \in Dispatchers : disp'[e].pc \notin {"enter", "launch", "running"}
    BY <1>10, <1>12
  <2> QED BY <1>4, <1>7, <2>1, <2>2, <2>3 DEF Accounts, Calling, Unmade
<1>14. TicketHolds(k)'
  BY <1>4, <1>5 DEF BudgetInv, TicketHolds
<1>15. RouteHolds(k)'
  BY <1>4, <1>5, Unrouted DEF RouteHolds
<1>16. AtWork(d, k)'
  <2>1. PICK n \in Nat : n = Len(disp[d].obs)
    BY <1>6
  <2>2. /\ Len(disp'[d].obs) = n + 1 /\ n + 1 > 0 /\ (n + 1) - 1 = n /\ disp'[d].pc = "record"
    BY <1>9, <1>10, <1>12, <2>1
  <2>3. Receipts(k, n)' /\ Asked(k, n + 1)' /\ Counted1(k, 0)'
    BY <1>4, <1>5, <1>7, <2>1 DEF Receipts, Asked, Counted1
  <2> QED BY <1>4, <1>5, <2>1, <2>2, <2>3 DEF AtWork
<1> QED BY <1>1, <1>2, <1>4, <1>5, <1>7, <1>10, <1>11, <1>13, <1>14, <1>15, <1>16, DispatcherStep DEF BudgetInv, BudgetTypes

\* The last entry of a ticket gets its receipt, and keeps its role.
LEMMA ReceiptOfLast ==
  ASSUME NEW calls \in Seq(CallType), Len(calls) > 0,
         NEW s, s = Append(Front(calls), [Last(calls) EXCEPT !.state = "recorded"])
  PROVE  /\ s \in Seq(CallType) /\ Len(s) = Len(calls) /\ DOMAIN s = DOMAIN calls
         /\ \A i \in 1..(Len(calls) - 1) : s[i] = calls[i]
         /\ s[Len(calls)].state = "recorded"
         /\ \A i \in DOMAIN calls : s[i].role = calls[i].role
<1>1. PICK n \in Nat : n + 1 = Len(calls) /\ n = Len(calls) - 1
  BY Len(calls) \in Nat
<1>2. PICK f : f = Front(calls)
  OBVIOUS
<1>3. f \in Seq(CallType) /\ Len(f) = n /\ \A i \in 1..n : f[i] = calls[i]
  <2>1. f = [i \in 1..n |-> calls[i]]
    BY <1>1, <1>2 DEF Front
  <2>2. \A i \in 1..n : calls[i] \in CallType
    BY <1>1
  <2> QED BY <2>1, <2>2
<1>4. PICK c : c = [calls[n + 1] EXCEPT !.state = "recorded"]
  OBVIOUS
<1>5. calls[n + 1] \in CallType
  BY <1>1
<1>6. c \in CallType /\ c.state = "recorded" /\ c.role = calls[n + 1].role
  BY <1>4, <1>5 DEF CallType
<1>7. s = Append(f, c)
  BY <1>1, <1>2, <1>4 DEF Last
<1>8. s \in Seq(CallType) /\ Len(s) = n + 1 /\ s[n + 1] = c
  <2>1. /\ Append(f, c) \in Seq(CallType) /\ Len(Append(f, c)) = Len(f) + 1
        /\ Append(f, c)[Len(f) + 1] = c
    BY <1>3, <1>6
  <2> QED BY <1>3, <1>7, <2>1
<1>9. \A i \in 1..n : s[i] = calls[i]
  <2>1. \A i \in 1..n : Append(f, c)[i] = f[i]
    <3> HIDE <1>7
    <3> QED BY <1>1, <1>3, <1>6
  <2> QED BY <1>3, <1>7, <2>1
<1>10. \A i \in 1..(n + 1) : i \in 1..n \/ i = n + 1
  OBVIOUS
<1>11. DOMAIN s = 1..(n + 1) /\ DOMAIN calls = 1..(n + 1)
  <2>1. DOMAIN s = 1..Len(s) /\ DOMAIN calls = 1..Len(calls)
    BY <1>8
  <2> QED BY <1>1, <1>8, <2>1
<1>12. \A i \in 1..(n + 1) : s[i].role = calls[i].role
  BY <1>6, <1>8, <1>9, <1>10
<1> QED BY <1>1, <1>6, <1>8, <1>9, <1>11, <1>12

\* The receipt of the call is kept; the next call is the next role's.
LEMMA RecordCallKeeps == ASSUME BudgetInv, NEW d \in Dispatchers, RecordCall(d) PROVE BudgetInv'
<1>1. disp[d].pc = "record"
  BY DEF RecordCall, Stands
<1>2. PICK k \in Intakes : disp[d].key = {k} /\ Key(d) = k /\ AtWork(d, k)
  BY <1>1, OneDispatcher
<1>3. /\ ticket[k] \in TicketType /\ ticket[k].calls \in Seq(CallType) /\ DOMAIN ticket = Intakes
      /\ disp[d] \in DispType /\ DOMAIN disp = Dispatchers /\ disp[d].obs \in Seq(Observations)
  BY DEF BudgetInv, BudgetTypes, DispType, TicketType
<1>4. PICK n : n = Len(disp[d].obs)
  OBVIOUS
<1>5. /\ ticket[k].state = "running" /\ Len(ticket[k].calls) = n /\ n > 0 /\ n \in Nat
      /\ Receipts(k, n - 1) /\ Asked(k, n) /\ Counted1(k, 0)
  BY <1>1, <1>2, <1>3, <1>4 DEF AtWork
<1>6. PICK s : s = Append(Front(ticket[k].calls), [Last(ticket[k].calls) EXCEPT !.state = "recorded"])
  OBVIOUS
<1>7. /\ s \in Seq(CallType) /\ Len(s) = n /\ DOMAIN s = DOMAIN ticket[k].calls
      /\ \A i \in 1..(n - 1) : s[i] = ticket[k].calls[i]
      /\ s[n].state = "recorded" /\ \A i \in DOMAIN ticket[k].calls : s[i].role = ticket[k].calls[i].role
  BY <1>3, <1>5, <1>6, ReceiptOfLast
<1>8. PICK t : t = [ticket[k] EXCEPT !.calls = s]
  OBVIOUS
<1>9. t \in TicketType /\ t.state = "running" /\ t.calls = s
  BY <1>3, <1>5, <1>7, <1>8 DEF TicketType
<1>10. PICK next : next = NextCall(k, disp[d].obs)
  OBVIOUS
<1>11. next # "nothing" => n < 3 /\ next = Nth[n + 1] /\ next \in AssessRoles
  BY <1>3, <1>4, <1>10, NextRole
<1>12. PICK x : x = [disp[d] EXCEPT !.pc = IF next = "nothing" THEN "assessed" ELSE "reserve",
                                    !.role = IF next = "nothing" THEN disp[d].role ELSE next]
  OBVIOUS
<1>13. /\ x \in DispType /\ x.key = {k} /\ x.obs = disp[d].obs
       /\ \/ next = "nothing" /\ x.pc = "assessed"
          \/ next # "nothing" /\ x.pc = "reserve" /\ x.role = next
  BY <1>2, <1>3, <1>11, <1>12 DEF DispType, DispPcs
<1>14. /\ ticket' = [ticket EXCEPT ![k] = t]
       /\ UNCHANGED <<budget, lineage, holder, routed, truth>>
  BY <1>2, <1>3, <1>6, <1>8 DEF RecordCall, TicketType
<1>15. disp' = [disp EXCEPT ![d] = x]
  BY <1>2, <1>3, <1>10, <1>12 DEF RecordCall, DispType
<1>16. /\ ticket' \in [Intakes -> TicketType] /\ ticket'[k] = t /\ disp'[d] = x
       /\ \A j \in Intakes \ {k} : ticket'[j] = ticket[j]
  BY <1>3, <1>9, <1>13, <1>14, <1>15 DEF BudgetInv, BudgetTypes
<1>17. Accounts'
  BY <1>13, <1>14, <1>15, AccountsKept
<1>18. Counted1(k, 0)' /\ Asked(k, n)'
  BY <1>5, <1>7, <1>9, <1>14, <1>16 DEF Counted1, Asked
<1>19. Receipts(k, n)'
  <2>1. \A i \in 1..n : i \in 1..(n - 1) \/ i = n
    BY <1>5
  <2>2. \A i \in 1..n : s[i].state = "recorded"
    BY <1>5, <1>7, <2>1 DEF Receipts
  <2> QED BY <1>9, <1>16, <2>2 DEF Receipts
<1>20. TicketHolds(k)'
  <2>1. /\ Len(ticket[k].calls) <= 3 /\ \A i \in DOMAIN ticket[k].calls : ticket[k].calls[i].role = Nth[i]
        /\ \A r \in AssessRoles : truth.launched[k][r] <= 1
    BY DEF BudgetInv, TicketHolds
  <2>2. ticket'[k].calls = s /\ ticket'[k].state = "running" /\ Len(s) <= 3 /\ \A i \in DOMAIN s : s[i].role = Nth[i]
    BY <1>5, <1>7, <1>9, <1>16, <2>1
  <2> QED BY <1>14, <2>1, <2>2 DEF TicketHolds
<1>21. RouteHolds(k)'
  BY <1>5, <1>9, <1>14, <1>16, Unrouted DEF RouteHolds
<1>22. AtWork(d, k)'
  <2>1. Len(disp'[d].obs) = n /\ Len(ticket'[k].calls) = n /\ ticket'[k].state = "running"
    BY <1>4, <1>7, <1>9, <1>13, <1>16
  <2> QED BY <1>11, <1>13, <1>16, <1>18, <1>19, <2>1 DEF AtWork
<1> QED BY <1>1, <1>2, <1>5, <1>9, <1>13, <1>14, <1>15, <1>16, <1>17, <1>20, <1>21, <1>22, DispatcherStep DEF BudgetInv, BudgetTypes

\* An assessed ticket keeps the answers, one for each of its calls.
LEMMA AssessedKeeps == ASSUME BudgetInv, NEW d \in Dispatchers, Assessed(d) PROVE BudgetInv'
<1>1. disp[d].pc = "assessed"
  BY DEF Assessed, Stands
<1>2. PICK k \in Intakes : disp[d].key = {k} /\ Key(d) = k /\ AtWork(d, k)
  BY <1>1, OneDispatcher
<1>3. /\ ticket[k] \in TicketType /\ DOMAIN ticket = Intakes /\ disp[d].obs \in Seq(Observations)
  BY DEF BudgetInv, BudgetTypes, DispType
<1>4. /\ ticket[k].state = "running" /\ Len(ticket[k].calls) = Len(disp[d].obs)
      /\ Receipts(k, Len(ticket[k].calls)) /\ Asked(k, Len(ticket[k].calls)) /\ Counted1(k, 0)
  BY <1>1, <1>2 DEF AtWork
<1>5. PICK t : t = [ticket[k] EXCEPT !.state = "assessed", !.obs = disp[d].obs]
  OBVIOUS
<1>6. t \in TicketType /\ t.state = "assessed" /\ t.calls = ticket[k].calls /\ t.obs = disp[d].obs
  BY <1>3, <1>5 DEF TicketType
<1>7. /\ ticket' = [ticket EXCEPT ![k] = t] /\ To(d, "settle")
      /\ UNCHANGED <<budget, lineage, holder, routed, truth>>
  BY <1>2, <1>3, <1>5 DEF Assessed, TicketType
<1>8. PICK x \in DispType : x.pc = "settle" /\ x.key = disp[d].key /\ disp' = [disp EXCEPT ![d] = x]
  BY <1>7, ToMoves, "settle" \in DispPcs DEF BudgetInv, DispPcs
<1>9. /\ ticket' \in [Intakes -> TicketType] /\ ticket'[k] = t /\ disp'[d] = x
      /\ \A j \in Intakes \ {k} : ticket'[j] = ticket[j]
  BY <1>6, <1>7, <1>8 DEF BudgetInv, BudgetTypes
<1>10. Accounts'
  BY <1>7, <1>8, AccountsKept
<1>11. Counted1(k, 0)'
  BY <1>4, <1>6, <1>7, <1>9 DEF Counted1
<1>12. Asked(k, Len(ticket[k].calls))' /\ Receipts(k, Len(ticket[k].calls))'
  BY <1>4, <1>6, <1>7, <1>9 DEF Asked, Receipts
<1>13. TicketHolds(k)'
  BY <1>4, <1>6, <1>7, <1>9, <1>12 DEF BudgetInv, TicketHolds
<1>14. RouteHolds(k)'
  BY <1>4, <1>7, <1>11, Unrouted DEF RouteHolds
<1>15. AtWork(d, k)'
  BY <1>8, <1>9 DEF AtWork
<1> QED BY <1>1, <1>2, <1>6, <1>7, <1>8, <1>9, <1>10, <1>13, <1>14, <1>15, DispatcherStep DEF BudgetInv, BudgetTypes

\* An exception blocks the ticket, whatever its assessment came to.
LEMMA RaiseInAssessKeeps == ASSUME BudgetInv, NEW d \in Dispatchers, RaiseInAssess(d) PROVE BudgetInv'
<1>1. disp[d].pc \notin {"idle", "journal", "block"}
  BY DEF RaiseInAssess
<1>2. PICK k \in Intakes : disp[d].key = {k} /\ Key(d) = k /\ AtWork(d, k)
  BY <1>1, OneDispatcher
<1>3. ticket[k] \in TicketType /\ DOMAIN ticket = Intakes
  BY DEF BudgetInv, BudgetTypes
<1>4. PICK t : t = [ticket[k] EXCEPT !.state = "blocked"]
  OBVIOUS
<1>5. t \in TicketType /\ t.state = "blocked" /\ t.calls = ticket[k].calls /\ t.obs = ticket[k].obs
  BY <1>3, <1>4 DEF TicketType
<1>6. /\ ticket' = [ticket EXCEPT ![k] = t] /\ To(d, "block")
      /\ UNCHANGED <<budget, lineage, holder, routed, truth>>
  BY <1>2, <1>3, <1>4 DEF RaiseInAssess, TicketType
<1>7. PICK x \in DispType : x.pc = "block" /\ x.key = disp[d].key /\ disp' = [disp EXCEPT ![d] = x]
  BY <1>6, ToMoves, "block" \in DispPcs DEF BudgetInv, DispPcs
<1>8. /\ ticket' \in [Intakes -> TicketType] /\ ticket'[k] = t /\ disp'[d] = x
      /\ \A j \in Intakes \ {k} : ticket'[j] = ticket[j]
  BY <1>5, <1>6, <1>7 DEF BudgetInv, BudgetTypes
<1>9. Accounts'
  BY <1>6, <1>7, AccountsKept
<1>10. TicketHolds(k)'
  BY <1>5, <1>6, <1>8 DEF BudgetInv, TicketHolds
<1>11. RouteHolds(k)'
  <2>1. ASSUME NEW n, Counted1(k, n) PROVE Counted1(k, n)'
    BY <1>5, <1>6, <1>8, <2>1 DEF Counted1
  <2>2. RouteHolds(k)
    BY DEF BudgetInv
  <2> QED BY <1>5, <1>6, <1>8, <2>1, <2>2 DEF RouteHolds
<1>12. AtWork(d, k)'
  BY <1>7, <1>8 DEF AtWork
<1> QED BY <1>1, <1>2, <1>5, <1>6, <1>7, <1>8, <1>9, <1>10, <1>11, <1>12, DispatcherStep DEF BudgetInv, BudgetTypes

\* The claim is settled, the report made or the dispatcher gone: the ticket stays.
LEMMA LeavesKeeps ==
  ASSUME BudgetInv, NEW d \in Dispatchers, Settle(d) \/ Report(d) \/ BlockClaim(d) \/ DispatcherDies(d)
  PROVE  BudgetInv'
<1>1. disp[d].pc # "idle"
  BY DEF Settle, Report, BlockClaim, DispatcherDies, Stands
<1>2. PICK k \in Intakes : disp[d].key = {k} /\ Key(d) = k /\ AtWork(d, k)
  BY <1>1, OneDispatcher
<1>3. UNCHANGED <<budget, ticket, routed, truth>> /\ lineage' \in {"assessed", "blocked", lineage}
  BY DEF Settle, Report, BlockClaim, DispatcherDies
<1>4. \/ To(d, "report") /\ holder' = holder
      \/ disp' = [disp EXCEPT ![d] = NoDispatcher] /\ holder' = {}
  BY DEF Settle, Report, BlockClaim, DispatcherDies
<1>5. PICK x \in DispType : /\ disp' = [disp EXCEPT ![d] = x]
                            /\ \/ x.pc = "report" /\ x.key = disp[d].key /\ holder' = holder
                               \/ x.pc = "idle" /\ holder' = {}
  <2>1. CASE To(d, "report") /\ holder' = holder
    BY <2>1, ToMoves, "report" \in DispPcs DEF BudgetInv, DispPcs
  <2>2. CASE disp' = [disp EXCEPT ![d] = NoDispatcher] /\ holder' = {}
    BY <2>2, IdleDispatcher
  <2> QED BY <1>4, <2>1, <2>2
<1>6. disp'[d] = x
  BY <1>5 DEF BudgetInv, BudgetTypes
<1>7. Accounts'
  BY <1>3, <1>5, AccountsKept
<1>8. TicketHolds(k)' /\ RouteHolds(k)'
  BY <1>3 DEF BudgetInv, TicketHolds, RouteHolds, Counted1, Asked, Receipts
<1>9. AtWork(d, k)'
  BY <1>5, <1>6 DEF AtWork
<1>10. budget' \in BudgetType /\ ticket' \in [Intakes -> TicketType] /\ truth' \in TruthType
       /\ lineage' \in {"none", "running", "assessed", "blocked"}
  BY <1>3 DEF BudgetInv, BudgetTypes
<1> QED BY <1>1, <1>2, <1>3, <1>5, <1>7, <1>8, <1>9, <1>10, DispatcherStep

-----------------------------------------------------------------------------
(* The budget: the steps of a routed worker.                                *)

\* What is left of a step of the worker of intake k: the accounts, and what holds of k.
LEMMA WorkerStep ==
  ASSUME BudgetInv, NEW k \in Intakes, NEW y \in RoutedType, routed' = [routed EXCEPT ![k] = y],
         UNCHANGED <<lineage, ticket, holder, disp>>, budget' \in BudgetType, truth' \in TruthType,
         \A j \in Intakes, r \in AssessRoles : truth'.launched[j][r] = truth.launched[j][r],
         ticket[k].state # "none", budget'.calls # budget.calls => holder = {},
         Accounts', RouteHolds(k)',
         budget'.calls = budget.calls \/ ticket[k].state # "none"
  PROVE  BudgetInv'
<1>1. /\ routed' \in [Intakes -> RoutedType] /\ routed'[k] = y
      /\ \A j \in Intakes \ {k} : routed'[j] = routed[j]
  BY DEF BudgetInv, BudgetTypes
<1>2. BudgetTypes' /\ LockIsHeld'
  BY <1>1 DEF BudgetInv, BudgetTypes, LockIsHeld
<1>3. ASSUME NEW j \in Intakes \ {k}, NEW n, Counted1(j, n) PROVE Counted1(j, n)'
  <2>1. k \in Intakes \ {j} /\ ticket'[k].state # "none"
    OBVIOUS
  <2> QED BY <2>1 DEF Counted1
<1>4. ASSUME NEW j \in Intakes PROVE TicketHolds(j)' /\ RouteHolds(j)'
  <2>1. TicketHolds(j) /\ RouteHolds(j)
    BY DEF BudgetInv
  <2>2. CASE j # k
    <3>1. TicketHolds(j)'
      BY <1>3, <2>1, <2>2 DEF TicketHolds, Asked, Receipts
    <3>2. RouteHolds(j)'
      BY <1>1, <1>3, <2>1, <2>2 DEF RouteHolds
    <3> QED BY <3>1, <3>2
  <2>3. CASE j = k
    <3>1. TicketHolds(j)'
      BY <2>1, <2>3 DEF TicketHolds, Asked, Receipts
    <3> QED BY <2>3, <3>1
  <2> QED BY <2>2, <2>3
<1>5. ASSUME NEW d \in Dispatchers, NEW j \in Intakes, disp'[d].key = {j} PROVE AtWork(d, j)'
  <2>1. AtWork(d, j)
    BY <1>5 DEF BudgetInv
  <2>2. CASE budget'.calls = budget.calls
    <3>1. \A n : Counted1(j, n)' <=> Counted1(j, n)
      BY <2>2 DEF Counted1
    <3> QED BY <2>1, <3>1 DEF AtWork, Asked, Receipts
  <2>3. CASE holder = {}
    BY <2>3 DEF BudgetInv, LockIsHeld, AtWork
  <2> QED BY <2>2, <2>3
<1> QED BY <1>2, <1>4, <1>5 DEF BudgetInv

\* A worker that goes on keeps its count.
LEMMA WorkerMoves ==
  ASSUME BudgetTypes, NEW k \in Intakes, NEW pc \in {"none", "reserve", "launch", "running", "done"}, WorkerTo(k, pc)
  PROVE  \E y \in RoutedType : /\ y.pc = pc /\ y.made = routed[k].made /\ y.tokens = routed[k].tokens
                               /\ routed' = [routed EXCEPT ![k] = y]
                               /\ routed'[k] = y /\ \A j \in Intakes \ {k} : routed'[j] = routed[j]
<1>1. routed[k] \in RoutedType /\ DOMAIN routed = Intakes
  BY DEF BudgetTypes
<1>2. PICK y : y = [routed[k] EXCEPT !.pc = pc]
  OBVIOUS
<1>3. y \in RoutedType /\ y.pc = pc /\ y.made = routed[k].made /\ y.tokens = routed[k].tokens
  BY <1>1, <1>2 DEF RoutedType
<1>4. routed' = [routed EXCEPT ![k] = y]
  BY <1>1, <1>2 DEF WorkerTo, RoutedType
<1> QED BY <1>1, <1>3, <1>4

\* The accounts of a step after which k is the only worker that may be calling.
LEMMA AccountsAside ==
  ASSUME BudgetInv, NEW k \in Intakes, NEW y \in RoutedType,
         routed'[k] = y, \A j \in Intakes \ {k} : routed'[j] = routed[j],
         UNCHANGED <<disp, budget, truth>>, y.pc \in {"reserve", "done"}
  PROVE  Accounts'
<1>1. \A j \in Intakes : WorkerCalling(j)' => WorkerCalling(j) /\ routed'[j] = routed[j]
  BY DEF WorkerCalling
<1>2. \A d \in Dispatchers : (Calling(d)' <=> Calling(d)) /\ (Unmade(d)' <=> Unmade(d))
  BY DEF Calling, Unmade
<1>3. \A j \in Intakes : routed'[j].pc \in {"launch", "running"} => routed'[j] = routed[j]
  BY <1>1 DEF WorkerCalling
<1> QED BY <1>1, <1>2, <1>3 DEF BudgetInv, Accounts

\* What is routed was assessed, soundly, and can pay for its worker.
LEMMA RouteWorkerKeeps == ASSUME BudgetInv, NEW k \in Intakes, RouteWorker(k) PROVE BudgetInv'
<1>1. /\ routed[k].pc = "none" /\ ticket[k].state = "assessed" /\ RouteReady(k, ticket[k].obs)
      /\ WorkerTo(k, "reserve") /\ UNCHANGED <<budget, truth, lineage, ticket, holder, disp>>
  BY DEF RouteWorker, WorkerAt, WorkerStays
<1>2. PICK y \in RoutedType : /\ y.pc = "reserve" /\ y.made = routed[k].made /\ routed' = [routed EXCEPT ![k] = y]
                              /\ routed'[k] = y /\ \A j \in Intakes \ {k} : routed'[j] = routed[j]
  BY <1>1, WorkerMoves DEF BudgetInv
<1>3. /\ routed[k].made = 0 /\ Counted1(k, 0) /\ Len(ticket[k].obs) = Len(ticket[k].calls)
  BY <1>1 DEF BudgetInv, RouteHolds, TicketHolds
<1>4. /\ ticket[k].obs # << >> /\ ~ObservedBlockers(k, ticket[k].obs) /\ ~Unfunded(k, ticket[k].obs)
      /\ Awaits(k, ticket[k].obs) = "nothing"
  BY <1>1 DEF RouteReady, Blocked
<1>5. \A o \in Range(ticket[k].obs) : ~o.gap /\ (o.verification = "human" => k.gated)
  BY <1>4 DEF ObservedBlockers
<1>6. k.used + Len(ticket[k].calls) + WorkerCalls <= k.maxCalls
  <2>1. RequiredCalls(k, ticket[k].obs) = Len(ticket[k].obs) + WorkerCalls + 0
    BY <1>4 DEF RequiredCalls
  <2>2. PICK n : n = Len(ticket[k].calls)
    OBVIOUS
  <2>3. n \in Nat /\ k.used \in Nat /\ k.maxCalls \in Nat
    BY <2>2, PolicyAssumption DEF BudgetInv, BudgetTypes, TicketType
  <2>4. ~(k.used + (n + WorkerCalls + 0) > k.maxCalls)
    BY <1>3, <1>4, <2>1, <2>2 DEF Unfunded
  <2>5. k.used + n + WorkerCalls <= k.maxCalls
    BY <2>3, <2>4 DEF WorkerCalls
  <2> QED BY <2>2, <2>5
<1>7. Accounts'
  BY <1>1, <1>2, AccountsAside
<1>8. RouteHolds(k)'
  <2>1. Counted1(k, 0)'
    BY <1>1, <1>3 DEF Counted1
  <2> QED BY <1>1, <1>2, <1>3, <1>5, <1>6, <2>1 DEF RouteHolds, WorkerCalls
<1>9. budget' \in BudgetType /\ truth' \in TruthType
  BY <1>1 DEF BudgetInv, BudgetTypes
<1> QED BY <1>1, <1>2, <1>7, <1>8, <1>9, WorkerStep

\* A worker's call is counted like any other.
LEMMA WorkerReservesKeeps == ASSUME BudgetInv, NEW k \in Intakes, WorkerReserves(k) PROVE BudgetInv'
<1>1. /\ routed[k].pc = "reserve" /\ holder = {} /\ Affordable(k) /\ budget' = Reserved(budget)
      /\ WorkerTo(k, "launch") /\ UNCHANGED <<truth, lineage, ticket, holder, disp>>
  BY DEF WorkerReserves, WorkerAt, WorkerStays
<1>2. PICK y \in RoutedType : /\ y.pc = "launch" /\ y.made = routed[k].made /\ routed' = [routed EXCEPT ![k] = y]
                              /\ routed'[k] = y /\ \A j \in Intakes \ {k} : routed'[j] = routed[j]
  BY <1>1, WorkerMoves DEF BudgetInv
<1>3. budget \in BudgetType /\ budget.calls \in Nat
  BY DEF BudgetInv, BudgetTypes, BudgetType
<1>4. budget' = [calls |-> budget.calls + 1, tokens |-> budget.tokens, complete |-> FALSE, attempts |-> budget.attempts]
  BY <1>1, <1>3 DEF Reserved, BudgetType
<1>5. budget' \in BudgetType /\ budget'.calls = budget.calls + 1 /\ budget'.complete = FALSE
      /\ budget'.tokens = budget.tokens
  BY <1>3, <1>4 DEF BudgetType
<1>6. /\ truth'.made < budget'.calls /\ \E j \in Intakes : budget'.calls + j.used <= j.maxCalls
      /\ budget'.tokens = truth'.spent /\ truth'.spent < MaxTokens
      /\ \A d \in Dispatchers : ~Calling(d)
      /\ \A j \in Intakes : ~WorkerCalling(j)
  <2>1. \A d \in Dispatchers : disp[d].pc = "idle"
    BY <1>1 DEF BudgetInv, LockIsHeld
  <2>2. /\ truth'.made < budget'.calls /\ \E j \in Intakes : budget'.calls + j.used <= j.maxCalls
        /\ budget'.tokens = truth'.spent /\ truth'.spent < MaxTokens
        /\ \A d \in Dispatchers : ~Calling(d) /\ \A j \in Intakes : ~WorkerCalling(j)
    BY <1>1, <1>5, Reserves
  <2>3. \A j \in Intakes : ~WorkerCalling(j)
    BY <1>1, <1>3 DEF Affordable, BudgetInv, Accounts
  <2> QED BY <2>1, <2>2, <2>3 DEF Calling
<1>7. Accounts'
  <2>1. \A d \in Dispatchers : disp'[d].pc \notin {"enter", "launch", "running"}
    BY <1>1, <1>6 DEF Calling
  <2>2. \A j \in Intakes : routed'[j].pc \in {"launch", "running"} => j = k
    BY <1>2, <1>6 DEF WorkerCalling
  <2>3. \A j \in Intakes : routed'[j].pc # "running"
    BY <1>2, <2>2
  <2>4. truth'.made \in Nat /\ budget'.calls \in Nat
    BY <1>1, <1>5 DEF BudgetInv, BudgetTypes, TruthType, BudgetType
  <2> QED BY <1>5, <1>6, <2>1, <2>2, <2>3, <2>4 DEF Accounts, Calling, WorkerCalling, Unmade
<1>8. RouteHolds(k)'
  <2>1. RouteHolds(k) /\ Counted1(k, routed[k].made) /\ routed[k].made \in Nat
    BY <1>1 DEF BudgetInv, BudgetTypes, RoutedType, RouteHolds
  <2>2. Len(ticket[k].calls) \in Nat
    BY DEF BudgetInv, BudgetTypes, TicketType
  <2>3. Counted1(k, routed[k].made + 1)'
    <3>1. ASSUME \A j \in Intakes \ {k} : ticket[j].state = "none"
          PROVE  budget'.calls = Len(ticket[k].calls) + (routed[k].made + 1)
      <4>1. budget.calls = Len(ticket[k].calls) + routed[k].made
        BY <2>1, <3>1 DEF Counted1
      <4>2. \A n, c, m \in Nat : c = n + m => c + 1 = n + (m + 1)
        OBVIOUS
      <4> QED BY <1>3, <1>5, <2>1, <2>2, <4>1, <4>2
    <3>2. ticket' = ticket /\ routed'[k].made = routed[k].made
      BY <1>1, <1>2
    <3> QED BY <3>1, <3>2 DEF Counted1
  <2> QED BY <1>1, <1>2, <2>1, <2>3 DEF RouteHolds
<1>9. truth' \in TruthType /\ ticket[k].state # "none"
  BY <1>1 DEF BudgetInv, BudgetTypes, RouteHolds
<1>10. UNCHANGED <<lineage, ticket, holder, disp>> /\ truth' = truth
  BY <1>1
<1> QED BY <1>1, <1>2, <1>5, <1>7, <1>8, <1>9, <1>10, WorkerStep

\* Its call is made only when the budget could pay for it.
LEMMA WorkerLaunchesKeeps == ASSUME BudgetInv, NEW k \in Intakes, WorkerLaunches(k) PROVE BudgetInv'
<1>1. routed[k].pc = "launch" /\ UNCHANGED <<budget, lineage, ticket, holder, disp>>
  BY DEF WorkerLaunches, WorkerAt, WorkerStays
<1>2. PICK t \in 0..1 :
        /\ routed' = [routed EXCEPT ![k].pc = "running", ![k].made = @ + 1, ![k].tokens = t]
        /\ truth' = [truth EXCEPT !.launched[k]["worker"] = @ + 1, !.made = @ + 1, !.spent = @ + t]
  BY DEF WorkerLaunches
<1>3. /\ routed[k] \in RoutedType /\ DOMAIN routed = Intakes /\ truth \in TruthType /\ budget \in BudgetType
      /\ routed[k].made \in Nat /\ routed[k].made < WorkerCalls
  BY <1>1 DEF BudgetInv, BudgetTypes, RoutedType, RouteHolds
<1>4. PICK y : y = [routed[k] EXCEPT !.pc = "running", !.made = routed[k].made + 1, !.tokens = t]
  OBVIOUS
<1>5. y \in RoutedType /\ y.pc = "running" /\ y.made = routed[k].made + 1 /\ y.tokens = t
  <2>1. routed[k].made + 1 \in 0..WorkerCalls
    BY <1>3 DEF WorkerCalls
  <2> QED BY <1>2, <1>3, <1>4, <2>1 DEF RoutedType
<1>6. /\ routed' = [routed EXCEPT ![k] = y] /\ routed'[k] = y /\ \A j \in Intakes \ {k} : routed'[j] = routed[j]
  BY <1>2, <1>3, <1>4 DEF RoutedType
<1>7. PICK row : row = [truth.launched[k] EXCEPT !["worker"] = @ + 1]
  OBVIOUS
<1>8. PICK l : l = [truth.launched EXCEPT ![k] = row]
  OBVIOUS
<1>9. /\ truth.launched \in [Intakes -> [AssessRoles \cup {"worker"} -> Nat]]
      /\ truth.launched[k] \in [AssessRoles \cup {"worker"} -> Nat]
  BY <1>3 DEF TruthType
<1>10. row \in [AssessRoles \cup {"worker"} -> Nat] /\ \A r \in AssessRoles : row[r] = truth.launched[k][r]
  BY <1>7, <1>9 DEF AssessRoles
<1>11. /\ l \in [Intakes -> [AssessRoles \cup {"worker"} -> Nat]]
       /\ \A j \in Intakes, r \in AssessRoles : l[j][r] = truth.launched[j][r]
  BY <1>8, <1>9, <1>10
<1>12. truth' = [launched |-> l, made |-> truth.made + 1, spent |-> truth.spent + t]
  BY <1>2, <1>3, <1>7, <1>8 DEF TruthType
<1>13. truth' \in TruthType /\ truth'.launched = l /\ truth'.made = truth.made + 1 /\ truth'.spent = truth.spent + t
  <2>1. truth.made + 1 \in Nat /\ truth.spent + t \in Nat
    BY <1>3 DEF TruthType
  <2> QED BY <1>11, <1>12, <2>1 DEF TruthType
<1>14. Accounts'
  <2>1. /\ budget.tokens = truth.spent /\ truth.made < budget.calls /\ ~budget.complete
        /\ \A d \in Dispatchers : ~Calling(d) /\ \A j \in Intakes : WorkerCalling(j) => j = k
    BY <1>1 DEF BudgetInv, Accounts, WorkerCalling
  <2>2. /\ budget.calls > 0 => \E j \in Intakes : budget.calls + j.used <= j.maxCalls
        /\ \A d \in Dispatchers : ~Calling(d)
        /\ \A j \in Intakes : WorkerCalling(j) => j = k
    BY <1>1 DEF BudgetInv, Accounts, WorkerCalling
  <2>3. \A d \in Dispatchers : disp'[d].pc \notin {"enter", "launch", "running"}
    BY <1>1, <2>2 DEF Calling
  <2>4. \A j \in Intakes : routed'[j].pc # "launch" /\ (routed'[j].pc = "running" => j = k)
    BY <1>5, <1>6, <2>2 DEF WorkerCalling
  <2>5. truth'.made <= budget'.calls /\ truth'.spent = budget'.tokens + routed'[k].tokens
    BY <1>1, <1>3, <1>5, <1>6, <1>13, <2>1 DEF TruthType, BudgetType
  <2> QED BY <1>1, <2>1, <2>2, <2>3, <2>4, <2>5 DEF Accounts, Calling, WorkerCalling, Unmade
<1>15. RouteHolds(k)'
  <2>1. RouteHolds(k) /\ Counted1(k, y.made)
    BY <1>1, <1>5 DEF BudgetInv, RouteHolds
  <2>2. Counted1(k, y.made)'
    <3>1. (\A j \in Intakes \ {k} : ticket[j].state = "none") => budget.calls = Len(ticket[k].calls) + y.made
      BY <2>1 DEF Counted1
    <3> QED BY <1>1, <1>4, <1>5, <3>1 DEF Counted1
  <2> QED BY <1>1, <1>5, <1>6, <2>1, <2>2 DEF RouteHolds
<1>16. ticket[k].state # "none" /\ budget' \in BudgetType
  BY <1>1, <1>3 DEF BudgetInv, RouteHolds
<1> QED BY <1>1, <1>5, <1>6, <1>11, <1>13, <1>14, <1>15, <1>16, WorkerStep

\* Its tokens are recorded, or the account stays open for good.
LEMMA WorkerRecordsKeeps == ASSUME BudgetInv, NEW k \in Intakes, WorkerRecords(k) PROVE BudgetInv'
<1>1. routed[k].pc = "running" /\ UNCHANGED <<truth, lineage, ticket, holder, disp>>
  BY DEF WorkerRecords, WorkerAt, WorkerStays
<1>2. PICK known \in BOOLEAN :
        /\ budget' = Recorded(budget, routed[k].tokens, known)
        /\ WorkerTo(k, IF known /\ routed[k].made < WorkerCalls THEN "reserve" ELSE "done")
  BY DEF WorkerRecords
<1>3. budget \in BudgetType /\ routed[k] \in RoutedType /\ routed[k].tokens \in 0..1 /\ truth \in TruthType
  BY DEF BudgetInv, BudgetTypes, RoutedType
<1>4. /\ budget' \in BudgetType /\ budget'.calls = budget.calls
      /\ budget'.complete => budget'.tokens = budget.tokens + routed[k].tokens
  BY <1>2, <1>3, Recording
<1>5. PICK y \in RoutedType :
        /\ y.pc \in {"reserve", "done"} /\ y.made = routed[k].made /\ routed' = [routed EXCEPT ![k] = y]
        /\ y.pc = "reserve" => routed[k].made < WorkerCalls
        /\ routed'[k] = y /\ \A j \in Intakes \ {k} : routed'[j] = routed[j]
  <2>1. CASE known /\ routed[k].made < WorkerCalls
    BY <1>2, <2>1, WorkerMoves DEF BudgetInv
  <2>2. CASE ~(known /\ routed[k].made < WorkerCalls)
    BY <1>2, <2>2, WorkerMoves DEF BudgetInv
  <2> QED BY <2>1, <2>2
<1>6. Accounts'
  <2>1. /\ truth.spent = budget.tokens + routed[k].tokens /\ truth.made <= budget.calls
        /\ budget.calls > 0 => \E j \in Intakes : budget.calls + j.used <= j.maxCalls
        /\ \A d \in Dispatchers : ~Calling(d)
        /\ \A j \in Intakes : WorkerCalling(j) => j = k
    BY <1>1 DEF BudgetInv, Accounts, WorkerCalling
  <2>2. \A d \in Dispatchers : disp'[d].pc \notin {"enter", "launch", "running"}
    BY <1>1, <2>1 DEF Calling
  <2>3. \A j \in Intakes : routed'[j].pc \notin {"launch", "running"}
    BY <1>5, <2>1 DEF WorkerCalling
  <2> QED BY <1>1, <1>4, <2>1, <2>2, <2>3 DEF Accounts, Calling, WorkerCalling, Unmade
<1>7. RouteHolds(k)'
  <2>1. RouteHolds(k) /\ Counted1(k, routed[k].made)
    BY <1>1 DEF BudgetInv, RouteHolds
  <2>2. Counted1(k, routed[k].made)'
    <3>1. PICK n : n = routed[k].made
      OBVIOUS
    <3>2. (\A j \in Intakes \ {k} : ticket[j].state = "none") => budget.calls = Len(ticket[k].calls) + n
      BY <2>1, <3>1 DEF Counted1
    <3>3. routed'[k].made = n
      BY <1>5, <3>1
    <3> QED BY <1>1, <1>4, <3>2, <3>3 DEF Counted1
  <2> QED BY <1>1, <1>5, <2>1, <2>2 DEF RouteHolds
<1>8. ticket[k].state # "none" /\ truth' \in TruthType
  BY <1>1, <1>3 DEF BudgetInv, RouteHolds
<1> QED BY <1>1, <1>4, <1>5, <1>6, <1>7, <1>8, WorkerStep

\* A worker that stops calls nobody any more.
LEMMA WorkerStopsKeeps == ASSUME BudgetInv, NEW k \in Intakes, WorkerStops(k) PROVE BudgetInv'
<1>1. /\ routed[k].pc \notin {"none", "done"} /\ WorkerTo(k, "done")
      /\ UNCHANGED <<budget, truth, lineage, ticket, holder, disp>>
  BY DEF WorkerStops, WorkerStays
<1>2. PICK y \in RoutedType : /\ y.pc = "done" /\ y.made = routed[k].made /\ routed' = [routed EXCEPT ![k] = y]
                              /\ routed'[k] = y /\ \A j \in Intakes \ {k} : routed'[j] = routed[j]
  BY <1>1, WorkerMoves DEF BudgetInv
<1>3. Accounts'
  BY <1>1, <1>2, AccountsAside
<1>4. RouteHolds(k)'
  BY <1>1, <1>2 DEF BudgetInv, RouteHolds
<1>5. ticket[k].state # "none" /\ budget' \in BudgetType /\ truth' \in TruthType
  BY <1>1 DEF BudgetInv, BudgetTypes, RouteHolds
<1> QED BY <1>1, <1>2, <1>3, <1>4, <1>5, WorkerStep

-----------------------------------------------------------------------------
(* The budget: the invariant and what follows from it.                      *)

\* In the beginning nothing is spent, and nobody is at work.
LEMMA BudgetStarts == BudgetInit => BudgetInv
<1> SUFFICES ASSUME BudgetInit PROVE BudgetInv
    OBVIOUS
<1>1. /\ budget = [calls |-> 0, tokens |-> 0, complete |-> TRUE, attempts |-> 0]
      /\ lineage = "none" /\ ticket = [k \in Intakes |-> NoTicket] /\ holder = {}
      /\ disp = [d \in Dispatchers |-> NoDispatcher] /\ routed = [k \in Intakes |-> NoRouted]
      /\ truth = [launched |-> [k \in Intakes |-> [r \in AssessRoles \cup {"worker"} |-> 0]], made |-> 0, spent |-> 0]
  BY DEF BudgetInit
<1>2. budget \in BudgetType
  BY <1>1, PolicyAssumption DEF BudgetType
<1>3. ticket \in [Intakes -> TicketType] /\ \A k \in Intakes : ticket[k] = NoTicket
  BY <1>1 DEF NoTicket, TicketType
<1>4. disp \in [Dispatchers -> DispType] /\ \A d \in Dispatchers : disp[d].pc = "idle"
  BY <1>1, IdleDispatcher
<1>5. routed \in [Intakes -> RoutedType] /\ \A k \in Intakes : routed[k].pc = "none" /\ routed[k].made = 0
  BY <1>1 DEF NoRouted, RoutedType, WorkerCalls
<1>6. truth \in TruthType /\ \A k \in Intakes, r \in AssessRoles : truth.launched[k][r] = 0
  BY <1>1 DEF TruthType
<1>7. BudgetTypes /\ LockIsHeld
  BY <1>1, <1>2, <1>3, <1>4, <1>5, <1>6 DEF BudgetTypes, LockIsHeld
<1>8. Accounts
  BY <1>1, <1>4, <1>5 DEF Accounts, Calling, WorkerCalling, Unmade
<1>9. ASSUME NEW k \in Intakes PROVE TicketHolds(k) /\ RouteHolds(k)
  <2>1. ticket[k].state = "none" /\ ticket[k].calls = << >> /\ Len(ticket[k].calls) = 0
    BY <1>3 DEF NoTicket
  <2>2. Counted1(k, 0)
    BY <1>1, <2>1 DEF Counted1
  <2>3. Asked(k, 0)
    BY <1>6 DEF Asked
  <2>4. \A i \in DOMAIN ticket[k].calls : ticket[k].calls[i].role = Nth[i]
    BY <2>1
  <2>5. TicketHolds(k)
    BY <1>6, <2>1, <2>2, <2>3, <2>4 DEF TicketHolds
  <2> QED BY <1>5, <2>1, <2>5 DEF RouteHolds
<1>10. \A d \in Dispatchers, k \in Intakes : AtWork(d, k)
  BY <1>4 DEF AtWork
<1> QED BY <1>7, <1>8, <1>9, <1>10 DEF BudgetInv

\* Every step of a dispatcher and of a worker keeps the invariant.
LEMMA BudgetSteps == BudgetInv /\ [BudgetNext]_budgetVars => BudgetInv'
<1> SUFFICES ASSUME BudgetInv, [BudgetNext]_budgetVars PROVE BudgetInv'
    OBVIOUS
<1>1. ASSUME NEW d \in Dispatchers, Assessing(d) PROVE BudgetInv'
  BY <1>1, AssessKeeps, JournalKeeps, ReserveCallKeeps, EnterCallKeeps, LaunchCallKeeps, ReturnCallKeeps,
     RecordCallKeeps, AssessedKeeps, RaiseInAssessKeeps, LeavesKeeps DEF Assessing
<1>2. ASSUME NEW k \in Intakes, Working(k) PROVE BudgetInv'
  BY <1>2, RouteWorkerKeeps, WorkerReservesKeeps, WorkerLaunchesKeeps, WorkerRecordsKeeps, WorkerStopsKeeps DEF Working
<1>3. CASE UNCHANGED budgetVars
  <2>1. BudgetTypes' /\ LockIsHeld' /\ Accounts'
    BY <1>3 DEF budgetVars, BudgetInv, BudgetTypes, LockIsHeld, Accounts, Calling, WorkerCalling, Unmade
  <2>2. \A k \in Intakes : TicketHolds(k)' /\ RouteHolds(k)'
    BY <1>3 DEF budgetVars, BudgetInv, TicketHolds, RouteHolds, Counted1, Asked, Receipts
  <2>3. \A d \in Dispatchers, k \in Intakes : disp'[d].key = {k} => AtWork(d, k)'
    BY <1>3 DEF budgetVars, BudgetInv, AtWork, Counted1, Asked, Receipts
  <2> QED BY <2>1, <2>2, <2>3 DEF BudgetInv
<1> QED BY <1>1, <1>2, <1>3 DEF BudgetNext

\* The invariant holds in every state of the budget, its dispatchers and its workers.
THEOREM BudgetInvariant == BudgetSpec => []BudgetInv
BY BudgetStarts, BudgetSteps, PTL DEF BudgetSpec

\* Who holds the lock is one, or nobody.
LEMMA BudgetTyped == BudgetInv => BudgetTypeOK
<1> SUFFICES ASSUME BudgetInv PROVE BudgetTypeOK
    OBVIOUS
<1>1. Cardinality(holder) <= 1
  <2>1. CASE holder = {}
    BY <2>1, FS_EmptySet
  <2>2. CASE holder # {}
    <3>1. PICK d \in holder : TRUE
      BY <2>2
    <3>2. holder = {d}
      BY <3>1 DEF BudgetInv, LockIsHeld
    <3> QED BY <3>2, FS_Singleton
  <2> QED BY <2>1, <2>2
<1>2. budget \in BudgetType /\ lineage \in {"none", "running", "assessed", "blocked"}
      /\ \A k \in Intakes : ticket[k] \in TicketType /\ routed[k] \in RoutedType
  BY DEF BudgetInv, BudgetTypes
<1> QED BY <1>1, <1>2 DEF BudgetInv, LockIsHeld, BudgetTypeOK, Stands, BudgetType, TicketType, CallType, RoutedType

\* For any number of intakes, dispatchers and workers and any limits, whoever dies: no
\* call is made that was not counted before, the count keeps to the limits, and known
\* usage is true usage.
THEOREM BudgetIsKept == BudgetSpec => []BudgetHolds
<1>1. BudgetInv => BudgetHolds
  BY BudgetTyped DEF BudgetInv, Accounts, BudgetHolds
<1> QED BY <1>1, BudgetInvariant, PTL

\* What the tickets and the routes of the invariant say of an assessment.
LEMMA SoundFromInvariant == BudgetInv => AssessedSoundly
<1> SUFFICES ASSUME BudgetInv, NEW k \in Intakes PROVE AssessedOnce(k) /\ RoutedIsSound(k)
    BY DEF AssessedSoundly
<1>1. TicketHolds(k) /\ RouteHolds(k) /\ ticket[k] \in TicketType /\ ticket[k].calls \in Seq(CallType)
      /\ routed[k] \in RoutedType /\ budget.calls \in Nat /\ k.used \in Nat /\ k.maxCalls \in Nat
  BY PolicyAssumption DEF BudgetInv, BudgetTypes, TicketType, BudgetType
<1>2. PICK n \in Nat : n = Len(ticket[k].calls)
  BY <1>1
<1>3. DOMAIN ticket[k].calls = 1..n
  BY <1>1, <1>2
<1>4. AssessedOnce(k)
  <2>1. ASSUME ticket[k].state = "assessed"
        PROVE  /\ \A i \in DOMAIN ticket[k].calls : ticket[k].calls[i].state = "recorded"
               /\ \A r \in AssessRoles : truth.launched[k][r] = 1 <=> \E i \in DOMAIN ticket[k].calls : ticket[k].calls[i].role = r
    <3>1. Receipts(k, n) /\ Asked(k, n) /\ \A i \in 1..n : ticket[k].calls[i].role = Nth[i]
      BY <1>1, <1>2, <1>3, <2>1 DEF TicketHolds
    <3> QED BY <1>3, <3>1 DEF Receipts, Asked
  <2> QED BY <1>1, <2>1 DEF AssessedOnce, TicketHolds
<1>5. RoutedIsSound(k)
  <2>1. ASSUME routed[k].pc = "reserve", \A j \in Intakes \ {k} : ticket[j].state = "none"
        PROVE  budget.calls + k.used < k.maxCalls
    <3>1. /\ budget.calls = n + routed[k].made /\ routed[k].made < WorkerCalls /\ routed[k].made \in Nat
          /\ k.used + n + WorkerCalls <= k.maxCalls
      BY <1>1, <1>2, <2>1 DEF RouteHolds, Counted1, RoutedType
    <3>2. \A calls, made, used, max \in Nat :
            calls = n + made /\ made < 5 /\ used + n + 5 <= max => calls + used < max
      OBVIOUS
    <3> QED BY <1>1, <1>2, <3>1, <3>2 DEF WorkerCalls
  <2>2. routed[k].pc # "none" => \A o \in Range(ticket[k].obs) : ~o.gap /\ (o.verification = "human" => k.gated)
    BY <1>1 DEF RouteHolds
  <2> QED BY <2>1, <2>2 DEF RoutedIsSound, WorkerAt
<1> QED BY <1>4, <1>5

\* No role is asked twice for an intake, an assessed ticket has every receipt, and
\* what is routed is sound and can pay its worker.
THEOREM AssessmentsAreSound == BudgetSpec => []AssessedSoundly
BY BudgetInvariant, SoundFromInvariant, PTL

\* Only a launch spends, and a launch was affordable.
LEMMA SpendingSteps ==
  BudgetInv /\ [BudgetNext]_budgetVars => (truth.spent >= MaxTokens => truth'.spent = truth.spent)
<1> SUFFICES ASSUME BudgetInv, [BudgetNext]_budgetVars, truth.spent >= MaxTokens PROVE truth'.spent = truth.spent
    OBVIOUS
<1>1. /\ \A d \in Dispatchers : disp[d].pc # "launch"
      /\ \A k \in Intakes : routed[k].pc # "launch"
  <2>1. truth.spent \in Nat /\ MaxTokens \in Nat
    BY PolicyAssumption DEF BudgetInv, BudgetTypes, TruthType
  <2>2. ~(truth.spent < MaxTokens)
    BY <2>1
  <2> QED BY <2>2 DEF BudgetInv, Accounts, Unmade
<1>2. ASSUME NEW d \in Dispatchers, Assessing(d) PROVE truth' = truth
  BY <1>1, <1>2 DEF Assessing, Assess, Journal, ReserveCall, EnterCall, LaunchCall, ReturnCall, RecordCall, Assessed,
     Settle, Report, RaiseInAssess, BlockClaim, DispatcherDies, Stands
<1>3. ASSUME NEW k \in Intakes, Working(k) PROVE truth' = truth
  BY <1>1, <1>3 DEF Working, RouteWorker, WorkerReserves, WorkerLaunches, WorkerRecords, WorkerStops, WorkerAt
<1>4. CASE UNCHANGED budgetVars
  BY <1>4 DEF budgetVars
<1> QED BY <1>2, <1>3, <1>4 DEF BudgetNext

\* Once the limit of tokens is spent, known or not, nobody spends any more.
THEOREM NothingIsOverspent == BudgetSpec => SpendingStops
<1>1. BudgetInv /\ [BudgetNext]_budgetVars => [truth.spent >= MaxTokens => truth'.spent = truth.spent]_budgetVars
  BY SpendingSteps
<1> QED BY <1>1, BudgetInvariant, PTL DEF BudgetSpec, SpendingStops

-----------------------------------------------------------------------------
(* The supervised handoff: the inductive invariant.                         *)

Results == UNION {RoleResults[role] : role \in Roles}
Bindings == [session : Sessions, item : Items, generation : Nat, claim : Nat,
             context : Nat, rework : Nat, revision : Nat, role : Roles]
Envelopes == [binding : Bindings, invocation : Sessions, result : Results]

\* The fields of an item, and those of them that count.
IsItem(it) ==
  /\ it = [state |-> it.state, claim |-> it.claim, claims |-> it.claims, context |-> it.context,
           rework |-> it.rework, run |-> it.run, runContext |-> it.runContext,
           generation |-> it.generation, accepted |-> it.accepted, pending |-> it.pending]
  /\ it.claims \in Nat /\ it.context \in Nat /\ it.rework \in Nat /\ it.generation \in Nat

IsErrand(x) ==
  x = [pc |-> x.pc, item |-> x.item, seen |-> x.seen, binding |-> x.binding, envelope |-> x.envelope]

HandoffTypes == /\ store = [i \in Items |-> store[i]] /\ \A i \in Items : IsItem(store[i])
                /\ session = [s \in Sessions |-> session[s]] /\ \A s \in Sessions : IsErrand(session[s])
                /\ head \in Nat /\ returns \subseteq Envelopes

\* A binding reserves, of an item as it was read, a role without a result, and its
\* run is resumed under the item's contract.
ReservesRole(b, it) ==
  /\ b.context = it.context /\ b.rework = it.rework
  /\ b.role \in Roles \ DOMAIN it.run
  /\ DOMAIN it.run # {} => it.runContext = it.context

\* An item has at most one reservation, of its generation, for the item it was.
PendingOf(i, it) ==
  /\ \A p, q \in it.pending : p = q
  /\ \A p \in it.pending : /\ p.binding \in Bindings /\ p.binding.item = i
                           /\ p.binding.generation = it.generation
                           /\ ReservesRole(p.binding, p.source)

\* The receipts of a reservation and of a role since the last rework are at most
\* one each; those since then are of the roles of the run, of its contract, and
\* hold the verdicts the run was judged by.
ReceiptsOf(i, it) ==
  /\ it.accepted \subseteq Envelopes
  /\ \A e \in it.accepted : e.binding.item = i /\ e.binding.rework <= it.rework
  /\ \A e, f \in it.accepted : e.binding = f.binding => e = f
  /\ \A e, f \in it.accepted :
       e.binding.rework = it.rework /\ f.binding.rework = it.rework /\ e.binding.role = f.binding.role => e = f
  /\ \A e \in it.accepted : e.binding.rework = it.rework =>
       /\ e.binding.role \in DOMAIN it.run /\ e.binding.context = it.runContext
       /\ it.run[e.binding.role].review = e.result.review

RunOf(it) ==
  /\ DOMAIN it.run \subseteq Roles
  /\ \A role \in DOMAIN it.run :
       /\ "review" \in DOMAIN it.run[role]
       /\ \E e \in it.accepted : e.binding.role = role /\ e.binding.rework = it.rework
  /\ it.state = "done" => DOMAIN it.run = Roles /\ \A g \in Gates : it.run[g].review = "pass"

ItemOk(i, it) == IsItem(it) /\ PendingOf(i, it) /\ ReceiptsOf(i, it) /\ RunOf(it)

\* What a session carries: what it read, and what it made of it.
Prepares(x) ==
  /\ x.item \in Items
  /\ \E it \in x.seen, b \in x.binding :
       /\ x.seen = {it} /\ IsItem(it) /\ x.binding = {b} /\ b \in Bindings
       /\ b.item = x.item /\ b.generation = it.generation + 1 /\ ReservesRole(b, it)
Dispatches(x) == \E b \in x.binding : x.binding = {b} /\ b \in Bindings
Ingests(x) ==
  /\ x.item \in Items
  /\ \E it \in x.seen, e \in x.envelope : \E p \in it.pending :
       /\ x.seen = {it} /\ IsItem(it) /\ it.pending = {p}
       /\ x.envelope = {e} /\ e \in Envelopes /\ e.binding.item = x.item
       /\ p.binding = e.binding /\ p.binding.generation = it.generation
       /\ Source(it) = p.source /\ it.accepted = p.receipts
Saved(x, items) == x.item \in Items /\ \A e \in x.envelope : e.binding.item = x.item /\ e \in items[x.item].accepted

AtHand(x, items) == /\ x.pc = "prepare" => Prepares(x)
                    /\ x.pc = "dispatch" => Dispatches(x)
                    /\ x.pc = "ingest" => Ingests(x)
                    /\ x.pc = "saved" => Saved(x, items)

HandoffInv ==
  /\ HandoffTypes
  /\ \A i \in Items : ItemOk(i, store[i])
  /\ \A i, j \in Items : store[i].pending # {} /\ store[j].pending # {} => i = j
  /\ \A s \in Sessions : AtHand(session[s], store)
  /\ \A e \in told : e.binding.item \in Items /\ e \in store[e.binding.item].accepted
-----------------------------------------------------------------------------
(* The operators of the handoff.                                            *)

\* A set of natural numbers that is not empty has a least element.
LEMMA LeastNumber == ASSUME NEW T \in SUBSET Nat, T # {} PROVE \E x \in T : \A y \in T : x <= y
<1> DEFINE R == OpToRel(<, Nat)
<1>1. IsWellFoundedOn(R, Nat)
  BY NatLessThanWellFounded
<1>2. \A y, x \in T : <<y, x>> \in R <=> y < x
  <2>1. \A y, x \in Nat : <<y, x>> \in Nat \X Nat /\ <<y, x>>[1] = y /\ <<y, x>>[2] = x
    OBVIOUS
  <2> QED BY <2>1 DEF OpToRel
<1> HIDE DEF R
<1>3. PICK x \in T : \A y \in T : ~(<<y, x>> \in R)
  BY <1>1, WFMin
<1>4. \A y \in T : ~(y < x) /\ y \in Nat /\ x \in Nat
  BY <1>2, <1>3
<1> QED BY <1>3, <1>4

\* The eligible role is one of the eligible roles: the first in the order.
LEMMA FirstEligible ==
  ASSUME NEW it, EligibleRoles(it) # {} PROVE EligibleRole(it) \in EligibleRoles(it)
<1> DEFINE T == {k \in DOMAIN RoleOrder : RoleOrder[k] \in EligibleRoles(it)}
           First(k) == /\ RoleOrder[k] \in EligibleRoles(it)
                       /\ \A j \in 1..(k - 1) : RoleOrder[j] \notin EligibleRoles(it)
<1>1. DOMAIN RoleOrder = 1..Len(RoleOrder) /\ Len(RoleOrder) \in Nat
  BY RolesAssumption
<1>2. EligibleRoles(it) \subseteq Range(RoleOrder)
  BY RolesAssumption DEF EligibleRoles
<1>3. T \subseteq Nat /\ T # {}
  BY <1>1, <1>2 DEF Range
<1>4. PICK k \in T : \A y \in T : k <= y
  BY <1>3, LeastNumber
<1>5. First(k) /\ k \in DOMAIN RoleOrder
  <2>1. k \in 1..Len(RoleOrder) /\ RoleOrder[k] \in EligibleRoles(it)
    BY <1>1
  <2>2. ASSUME NEW j \in 1..(k - 1), RoleOrder[j] \in EligibleRoles(it) PROVE FALSE
    <3>1. j \in 1..Len(RoleOrder) /\ j < k
      BY <2>1, <1>1
    <3>2. j \in T
      BY <3>1, <2>2, <1>1
    <3>3. k <= j
      BY <3>2, <1>4
    <3> QED BY <3>1, <3>3, <2>1
  <2> QED BY <2>1, <2>2, <1>1
<1>6. EligibleRole(it) = RoleOrder[CHOOSE n \in DOMAIN RoleOrder : First(n)]
  BY DEF EligibleRole
<1> HIDE DEF First
<1>7. First(CHOOSE n \in DOMAIN RoleOrder : First(n))
  BY <1>5
<1> QED BY <1>6, <1>7 DEF First

\* The one element of a set.
LEMMA OnlyOne == ASSUME NEW x PROVE Only({x}) = x
BY DEF Only

\* What applying one result does to the run it is applied to: the role has that
\* result, whatever its status becomes, and no other verdict changes.
LEMMA AppliedOne ==
  ASSUME NEW run, NEW e, "review" \in DOMAIN e.result,
         \A q \in DOMAIN run : "review" \in DOMAIN run[q]
  PROVE  LET new == AppliedResults(run, OneResult(e))
             role == e.binding.role
         IN  /\ DOMAIN new = DOMAIN run \cup {role}
             /\ new[role].review = e.result.review
             /\ \A q \in DOMAIN run \ {role} : new[q].review = run[q].review
             /\ \A q \in DOMAIN new : "review" \in DOMAIN new[q]
<1> DEFINE one == OneResult(e)
           role == e.binding.role
           r == e.result
           staged == [q \in DOMAIN run \cup DOMAIN one |-> IF q \in DOMAIN one THEN one[q] ELSE run[q]]
           new == AppliedResults(run, one)
<1>1. DOMAIN one = {role} /\ one[role] = r
  BY DEF OneResult
<1>2. /\ DOMAIN staged = DOMAIN run \cup {role}
      /\ staged[role] = r
      /\ \A q \in DOMAIN run \ {role} : staged[q] = run[q]
  BY <1>1
<1> HIDE DEF staged, one
<1> DEFINE judged == Judged(staged)
<1> HIDE DEF judged
<1>3. new = [q \in DOMAIN staged |-> [staged[q] EXCEPT !.status = judged[q].status, !.gen = judged[q].gen]]
  BY DEF AppliedResults, Replaced, judged, staged
<1> HIDE DEF new
<1>4. \A q \in DOMAIN staged : "review" \in DOMAIN staged[q]
  BY <1>2
<1>5. \A q \in DOMAIN staged : DOMAIN new[q] = DOMAIN staged[q] /\ new[q].review = staged[q].review
  BY <1>3, <1>4
<1>6. DOMAIN new = DOMAIN staged
  BY <1>3
<1>7. /\ DOMAIN new = DOMAIN run \cup {role}
      /\ new[role].review = r.review
      /\ \A q \in DOMAIN run \ {role} : new[q].review = run[q].review
      /\ \A q \in DOMAIN new : "review" \in DOMAIN new[q]
  BY <1>2, <1>4, <1>5, <1>6
<1> QED BY <1>7 DEF new, one

\* The counters of an item are natural numbers, and so is the next of each.
LEMMA Counts ==
  ASSUME NEW it, IsItem(it)
  PROVE  /\ it.claims \in Nat /\ it.context \in Nat /\ it.rework \in Nat /\ it.generation \in Nat
         /\ it.claims + 1 \in Nat /\ it.context + 1 \in Nat
<1>1. it.claims \in Nat /\ it.context \in Nat /\ it.rework \in Nat /\ it.generation \in Nat
  BY DEF IsItem
<1> QED BY <1>1

\* What the source of an item says of it.
LEMMA SourceFields ==
  ASSUME NEW it, IsItem(it)
  PROVE  LET src == Source(it)
         IN  /\ src.state = it.state /\ src.claim = it.claim /\ src.claims = it.claims
             /\ src.context = it.context /\ src.rework = it.rework
             /\ src.run = it.run /\ src.runContext = it.runContext
<1> DEFINE src == Source(it)
<1>1. src = [it EXCEPT !.generation = 0, !.accepted = {}, !.pending = {}]
  BY DEF Source
<1> HIDE DEF src
<1>2. /\ src.state = it.state /\ src.claim = it.claim /\ src.claims = it.claims
             /\ src.context = it.context /\ src.rework = it.rework
             /\ src.run = it.run /\ src.runContext = it.runContext
  BY <1>1 DEF IsItem
<1> QED BY <1>2 DEF src

\* Two items of one source that agree on their handoff state are the same.
LEMMA SameItem ==
  ASSUME NEW it, NEW jt, IsItem(it), IsItem(jt), Source(it) = Source(jt),
         it.generation = jt.generation, it.accepted = jt.accepted, it.pending = jt.pending
  PROVE  it = jt
<1>1. /\ it.state = jt.state /\ it.claim = jt.claim /\ it.claims = jt.claims
      /\ it.context = jt.context /\ it.rework = jt.rework
      /\ it.run = jt.run /\ it.runContext = jt.runContext
  BY SourceFields
<1> QED BY <1>1 DEF IsItem

\* A result is sent with its verdict.
LEMMA ResultHasVerdict == ASSUME NEW r \in Results PROVE "review" \in DOMAIN r
<1>1. r = [Sent(r.status, r.full, r.extra, r.review, r.own) EXCEPT !.gen = r.gen]
  BY ResultsAssumption DEF Results
<1> QED BY <1>1 DEF Sent
-----------------------------------------------------------------------------
(* What a step leaves as it was.                                            *)

\* An item whose handoff state, run and rework are kept stays as it should be.
LEMMA ItemKept ==
  ASSUME NEW i, NEW it, NEW jt, ItemOk(i, it), IsItem(jt),
         jt.pending = it.pending, jt.generation = it.generation, jt.accepted = it.accepted,
         jt.rework = it.rework, jt.run = it.run, jt.runContext = it.runContext,
         jt.state = "done" => it.state = "done"
  PROVE  ItemOk(i, jt)
<1>1. PendingOf(i, jt)
  BY DEF ItemOk, PendingOf
<1>2. ReceiptsOf(i, jt)
  BY DEF ItemOk, ReceiptsOf
<1>3. RunOf(jt)
  BY DEF ItemOk, RunOf
<1> QED BY <1>1, <1>2, <1>3 DEF ItemOk

\* The parts of the invariant about the store, after one item changed, and what a
\* session has at hand: receipts are only added.
LEMMA StoreSteps ==
  ASSUME HandoffInv, NEW i \in Items, NEW it, store' = [store EXCEPT ![i] = it],
         ItemOk(i, it), store[i].accepted \subseteq it.accepted,
         it.pending # {} => store[i].pending # {} \/ NoOtherPending(i)
  PROVE  /\ store' = [j \in Items |-> store'[j]]
         /\ \A j \in Items : ItemOk(j, store'[j])
         /\ \A j, k \in Items : store'[j].pending # {} /\ store'[k].pending # {} => j = k
         /\ \A x : AtHand(x, store) => AtHand(x, store')
         /\ \A e \in told : e.binding.item \in Items /\ e \in store'[e.binding.item].accepted
<1>1. store = [j \in Items |-> store[j]]
  BY DEF HandoffInv, HandoffTypes
<1>2. store'[i] = it /\ \A j \in Items \ {i} : store'[j] = store[j]
  BY <1>1
<1>3. store' = [j \in Items |-> store'[j]]
  BY <1>1
<1>4. \A j \in Items : ItemOk(j, store'[j])
  BY <1>2 DEF HandoffInv
<1>5. \A j, k \in Items : store'[j].pending # {} /\ store'[k].pending # {} => j = k
  BY <1>2 DEF HandoffInv, NoOtherPending
<1>6. \A j \in Items : store[j].accepted \subseteq store'[j].accepted
  BY <1>2
<1>7. ASSUME NEW x, AtHand(x, store) PROVE AtHand(x, store')
  BY <1>6, <1>7 DEF AtHand, Saved
<1>8. \A e \in told : e.binding.item \in Items /\ e \in store'[e.binding.item].accepted
  BY <1>6 DEF HandoffInv
<1> QED BY <1>3, <1>4, <1>5, <1>7, <1>8

\* The parts about the sessions, after one of them went on.
LEMMA SessionSteps ==
  ASSUME HandoffInv, NEW s \in Sessions, NEW x, session' = [session EXCEPT ![s] = x],
         IsErrand(x), AtHand(x, store'), \A y : AtHand(y, store) => AtHand(y, store')
  PROVE  /\ session' = [t \in Sessions |-> session'[t]]
         /\ \A t \in Sessions : IsErrand(session'[t])
         /\ \A t \in Sessions : AtHand(session'[t], store')
<1>1. session = [t \in Sessions |-> session[t]]
  BY DEF HandoffInv, HandoffTypes
<1>2. session'[s] = x /\ \A t \in Sessions \ {s} : session'[t] = session[t]
  BY <1>1
<1> QED BY <1>1, <1>2 DEF HandoffInv, HandoffTypes

\* A session that is idle carries nothing.
LEMMA IdleSession == ASSUME NEW items PROVE IsErrand(NoErrand) /\ AtHand(NoErrand, items)
BY DEF NoErrand, IsErrand, AtHand

\* A step that changes one item and no session.
LEMMA ItemStep ==
  ASSUME HandoffInv, NEW i \in Items, NEW it, store' = [store EXCEPT ![i] = it],
         ItemOk(i, it), store[i].accepted \subseteq it.accepted,
         it.pending # {} => store[i].pending # {} \/ NoOtherPending(i),
         UNCHANGED <<head, session, returns, told>>
  PROVE  HandoffInv'
<1>1. /\ store' = [j \in Items |-> store'[j]]
      /\ \A j \in Items : ItemOk(j, store'[j])
      /\ \A j, k \in Items : store'[j].pending # {} /\ store'[k].pending # {} => j = k
      /\ \A x : AtHand(x, store) => AtHand(x, store')
      /\ \A e \in told : e.binding.item \in Items /\ e \in store'[e.binding.item].accepted
  BY StoreSteps
<1>2. \A j \in Items : IsItem(store'[j])
  BY <1>1 DEF ItemOk
<1>3. HandoffTypes'
  BY <1>1, <1>2 DEF HandoffInv, HandoffTypes
<1> QED BY <1>1, <1>3 DEF HandoffInv

\* A step of one session that leaves the store as it is.
LEMMA SessionStep ==
  ASSUME HandoffInv, NEW s \in Sessions, NEW x, session' = [session EXCEPT ![s] = x],
         IsErrand(x), AtHand(x, store), UNCHANGED <<store, head>>,
         returns' \subseteq Envelopes,
         \A e \in told' : e.binding.item \in Items /\ e \in store[e.binding.item].accepted
  PROVE  HandoffInv'
<1>1. /\ session' = [t \in Sessions |-> session'[t]]
      /\ \A t \in Sessions : IsErrand(session'[t])
      /\ \A t \in Sessions : AtHand(session'[t], store')
  BY SessionSteps
<1>2. HandoffTypes'
  BY <1>1 DEF HandoffInv, HandoffTypes
<1> QED BY <1>1, <1>2 DEF HandoffInv
\* A step that changes one item and one session.
LEMMA BothStep ==
  ASSUME HandoffInv, NEW i \in Items, NEW it, store' = [store EXCEPT ![i] = it],
         ItemOk(i, it), store[i].accepted \subseteq it.accepted,
         it.pending # {} => store[i].pending # {} \/ NoOtherPending(i),
         NEW s \in Sessions, NEW x, session' = [session EXCEPT ![s] = x],
         IsErrand(x), AtHand(x, store'), UNCHANGED <<head, returns, told>>
  PROVE  HandoffInv'
<1>1. /\ store' = [j \in Items |-> store'[j]]
      /\ \A j \in Items : ItemOk(j, store'[j])
      /\ \A j, k \in Items : store'[j].pending # {} /\ store'[k].pending # {} => j = k
      /\ \A y : AtHand(y, store) => AtHand(y, store')
      /\ \A e \in told : e.binding.item \in Items /\ e \in store'[e.binding.item].accepted
  BY StoreSteps
<1>2. /\ session' = [t \in Sessions |-> session'[t]]
      /\ \A t \in Sessions : IsErrand(session'[t])
      /\ \A t \in Sessions : AtHand(session'[t], store')
  BY <1>1, SessionSteps
<1>3. \A j \in Items : IsItem(store'[j])
  BY <1>1 DEF ItemOk
<1>4. HandoffTypes'
  BY <1>1, <1>2, <1>3 DEF HandoffInv, HandoffTypes
<1> QED BY <1>1, <1>2, <1>4 DEF HandoffInv
-----------------------------------------------------------------------------
(* Every step keeps the invariant.                                          *)

\* prepare_handoff, when the item has a valid reservation.
LEMMA PrepareAgainKeeps ==
  ASSUME HandoffInv, NEW s \in Sessions, NEW i \in Items, PrepareAgain(s, i) PROVE HandoffInv'
<1>1. PICK p \in store[i].pending :
        session' = [session EXCEPT ![s] = [NoErrand EXCEPT !.pc = "dispatch", !.item = i, !.binding = {p.binding}]]
  BY DEF PrepareAgain
<1>2. PICK x : x = [NoErrand EXCEPT !.pc = "dispatch", !.item = i, !.binding = {p.binding}]
  OBVIOUS
<1>3. x = [pc |-> "dispatch", item |-> i, seen |-> {}, binding |-> {p.binding}, envelope |-> {}]
  BY <1>2 DEF NoErrand
<1>4. p.binding \in Bindings
  BY DEF HandoffInv, ItemOk, PendingOf
<1>5. session' = [session EXCEPT ![s] = x]
  BY <1>1, <1>2
<1>6. IsErrand(x) /\ AtHand(x, store)
  BY <1>3, <1>4 DEF IsErrand, AtHand, Dispatches
<1>7. UNCHANGED <<store, head, returns, told>>
  BY DEF PrepareAgain
<1>8. returns' \subseteq Envelopes /\ \A e \in told' : e.binding.item \in Items /\ e \in store[e.binding.item].accepted
  BY <1>7 DEF HandoffInv, HandoffTypes
<1> QED BY <1>5, <1>6, <1>7, <1>8, SessionStep

\* A binding made for an item as it was read reserves a role of it.
LEMMA BindingReserves ==
  ASSUME HandoffInv, NEW s \in Sessions, NEW i \in Items, NEW it, IsItem(it),
         Resumable(it), EligibleRoles(it) # {}
  PROVE  LET b == Binding(s, i, it)
         IN  b \in Bindings /\ b.item = i /\ b.generation = it.generation + 1 /\ ReservesRole(b, it)
<1> DEFINE role == EligibleRole(it)
<1>1. role \in Roles \ DOMAIN it.run
  BY FirstEligible DEF EligibleRoles
<1>2. DOMAIN it.run # {} => it.runContext = it.context
  <2>1. it.run = << >> => DOMAIN it.run = {}
    OBVIOUS
  <2> QED BY <2>1 DEF Resumable
<1>3. head \in Nat /\ it.claims \in Nat /\ it.context \in Nat /\ it.rework \in Nat /\ it.generation \in Nat
  BY DEF HandoffInv, HandoffTypes, IsItem
<1> HIDE DEF role
<1>4. Binding(s, i, it) = [session |-> s, item |-> i, generation |-> it.generation + 1, claim |-> it.claims,
                           context |-> it.context, rework |-> it.rework, revision |-> head, role |-> role]
  BY DEF Binding, role
<1> QED BY <1>1, <1>2, <1>3, <1>4 DEF Bindings, ReservesRole

\* prepare_handoff, up to the lock.
LEMMA StagePrepareKeeps ==
  ASSUME HandoffInv, NEW s \in Sessions, NEW i \in Items, StagePrepare(s, i) PROVE HandoffInv'
<1> DEFINE it == store[i]
           b == Binding(s, i, it)
<1>1. PICK x : x = [NoErrand EXCEPT !.pc = "prepare", !.item = i, !.seen = {it}, !.binding = {b}]
  OBVIOUS
<1>2. session' = [session EXCEPT ![s] = x] /\ Resumable(it) /\ EligibleRoles(it) # {}
  BY <1>1 DEF StagePrepare
<1>3. IsItem(it)
  BY DEF HandoffInv, HandoffTypes
<1>4. b \in Bindings /\ b.item = i /\ b.generation = it.generation + 1 /\ ReservesRole(b, it)
  BY <1>2, <1>3, BindingReserves
<1> HIDE DEF b, it
<1>5. x = [pc |-> "prepare", item |-> i, seen |-> {it}, binding |-> {b}, envelope |-> {}]
  BY <1>1 DEF NoErrand
<1>6. IsErrand(x) /\ AtHand(x, store)
  BY <1>3, <1>4, <1>5 DEF IsErrand, AtHand, Prepares
<1>7. UNCHANGED <<store, head, returns, told>>
  BY DEF StagePrepare
<1>8. returns' \subseteq Envelopes /\ \A e \in told' : e.binding.item \in Items /\ e \in store[e.binding.item].accepted
  BY <1>7 DEF HandoffInv, HandoffTypes
<1> QED BY <1>2, <1>6, <1>7, <1>8, SessionStep
\* prepare_handoff, under the lock.
LEMMA ReserveKeeps == ASSUME HandoffInv, NEW s \in Sessions, Reserve(s) PROVE HandoffInv'
<1> DEFINE i == session[s].item
           it == store[i]
<1>1. PICK b \in Bindings :
        /\ i \in Items /\ session[s].binding = {b} /\ IsErrand(session[s]) /\ IsItem(it)
        /\ \A jt : session[s].seen = {jt} =>
             b.item = i /\ b.generation = jt.generation + 1 /\ ReservesRole(b, jt)
  <2>1. Prepares(session[s]) /\ IsErrand(session[s])
    BY DEF HandoffInv, HandoffTypes, AtHand, Reserve, In
  <2> QED BY <2>1 DEF Prepares, HandoffInv, HandoffTypes
<1>2. Only(session[s].binding) = b
  BY <1>1, OnlyOne
<1>3. UNCHANGED <<head, returns, told>> /\ NoOtherPending(i)
  BY DEF Reserve
<1>4. \/ \E p \in it.pending :
           /\ session' = [session EXCEPT ![s].pc = "dispatch", ![s].seen = {}, ![s].binding = {p.binding}]
           /\ UNCHANGED store
      \/ /\ {it} = session[s].seen
         /\ store' = [store EXCEPT ![i].generation = b.generation,
                                   ![i].pending = {[binding |-> b, source |-> Source(it), receipts |-> it.accepted]}]
         /\ session' = [session EXCEPT ![s].pc = "dispatch", ![s].seen = {}]
  BY <1>2 DEF Reserve
<1>5. ASSUME NEW p \in it.pending, UNCHANGED store,
             session' = [session EXCEPT ![s].pc = "dispatch", ![s].seen = {}, ![s].binding = {p.binding}]
      PROVE  HandoffInv'
  <2>1. p.binding \in Bindings
    BY <1>1 DEF HandoffInv, ItemOk, PendingOf
  <2>2. PICK x : x = [session[s] EXCEPT !.pc = "dispatch", !.seen = {}, !.binding = {p.binding}]
    OBVIOUS
  <2>3. session' = [session EXCEPT ![s] = x]
    BY <1>5, <2>2 DEF HandoffInv, HandoffTypes
  <2>4. IsErrand(x) /\ x.pc = "dispatch" /\ x.binding = {p.binding}
    BY <1>1, <2>2 DEF IsErrand
  <2>5. AtHand(x, store)
    BY <2>1, <2>4 DEF AtHand, Dispatches
  <2>6. returns' \subseteq Envelopes /\ \A e \in told' : e.binding.item \in Items /\ e \in store[e.binding.item].accepted
    BY <1>3 DEF HandoffInv, HandoffTypes
  <2> QED BY <1>3, <1>5, <2>3, <2>4, <2>5, <2>6, SessionStep
<1>6. ASSUME {it} = session[s].seen,
             store' = [store EXCEPT ![i].generation = b.generation,
                                    ![i].pending = {[binding |-> b, source |-> Source(it), receipts |-> it.accepted]}],
             session' = [session EXCEPT ![s].pc = "dispatch", ![s].seen = {}]
      PROVE  HandoffInv'
  <2>1. b.item = i /\ b.generation = it.generation + 1 /\ ReservesRole(b, it)
    BY <1>1, <1>6
  <2>2. PICK p : p = [binding |-> b, source |-> Source(it), receipts |-> it.accepted]
    OBVIOUS
  <2>3. PICK jt : jt = [it EXCEPT !.generation = b.generation, !.pending = {p}]
    OBVIOUS
  <2>4. store' = [store EXCEPT ![i] = jt]
    BY <1>6, <2>2, <2>3 DEF HandoffInv, HandoffTypes
  <2>5. IsItem(jt) /\ jt.generation = b.generation /\ jt.pending = {p} /\ jt.accepted = it.accepted
        /\ jt.rework = it.rework /\ jt.run = it.run /\ jt.runContext = it.runContext /\ jt.state = it.state
    <3>1. jt = [state |-> it.state, claim |-> it.claim, claims |-> it.claims, context |-> it.context,
                rework |-> it.rework, run |-> it.run, runContext |-> it.runContext,
                generation |-> b.generation, accepted |-> it.accepted, pending |-> {p}]
      BY <1>1, <2>3 DEF IsItem
    <3>2. b.generation \in Nat
      BY <1>1 DEF Bindings
    <3> QED BY <1>1, <3>1, <3>2 DEF IsItem
  <2>6. ItemOk(i, it)
    BY <1>1 DEF HandoffInv
  <2>7. ReservesRole(b, Source(it))
    BY <1>1, <2>1, SourceFields DEF ReservesRole
  <2>8. PendingOf(i, jt)
    BY <2>1, <2>2, <2>5, <2>7 DEF PendingOf
  <2>9. ReceiptsOf(i, jt)
    BY <2>5, <2>6 DEF ItemOk, ReceiptsOf
  <2>10. RunOf(jt)
    <3>1. RunOf(it)
      BY <2>6 DEF ItemOk
    <3> QED BY <2>5, <3>1 DEF RunOf
  <2>11. ItemOk(i, jt)
    BY <2>5, <2>8, <2>9, <2>10 DEF ItemOk
  <2>12. PICK x : x = [session[s] EXCEPT !.pc = "dispatch", !.seen = {}]
    OBVIOUS
  <2>13. session' = [session EXCEPT ![s] = x]
    BY <1>6, <2>12 DEF HandoffInv, HandoffTypes
  <2>14. IsErrand(x) /\ x.pc = "dispatch" /\ x.binding = {b}
    BY <1>1, <2>12 DEF IsErrand
  <2>15. AtHand(x, store')
    BY <2>14 DEF AtHand, Dispatches
  <2> QED BY <1>1, <1>3, <2>4, <2>5, <2>11, <2>13, <2>14, <2>15, BothStep
<1> QED BY <1>4, <1>5, <1>6

\* The supervisor's app.
LEMMA DispatchKeeps == ASSUME HandoffInv, NEW s \in Sessions, Dispatch(s) PROVE HandoffInv'
<1>1. PICK b \in Bindings : session[s].binding = {b}
  BY DEF Dispatch, In, HandoffInv, AtHand, Dispatches
<1>2. Only(session[s].binding) = b
  BY <1>1, OnlyOne
<1>3. PICK r \in RoleResults[b.role] : returns' = returns \cup {[binding |-> b, invocation |-> s, result |-> r]}
  BY <1>2 DEF Dispatch
<1>4. r \in Results
  BY DEF Results, Bindings
<1>5. returns' \subseteq Envelopes
  BY <1>3, <1>4 DEF HandoffInv, HandoffTypes, Envelopes
<1>6. UNCHANGED <<store, head, told>> /\ session' = [session EXCEPT ![s] = NoErrand]
  BY DEF Dispatch, EndSession
<1>7. \A e \in told' : e.binding.item \in Items /\ e \in store[e.binding.item].accepted
  BY <1>6 DEF HandoffInv
<1> QED BY <1>5, <1>6, <1>7, IdleSession, SessionStep

\* ingest_handoff of an envelope that was accepted before.
LEMMA AcknowledgeKeeps ==
  ASSUME HandoffInv, NEW s \in Sessions, NEW e \in returns, Acknowledge(s, e) PROVE HandoffInv'
<1>1. e.binding.item \in Items
  BY DEF HandoffInv, HandoffTypes, Envelopes, Bindings
<1>2. /\ told' = told \cup {e} /\ e \in store[e.binding.item].accepted
      /\ UNCHANGED <<store, head, session, returns>>
  BY DEF Acknowledge
<1>3. HandoffTypes'
  BY <1>2 DEF HandoffInv, HandoffTypes
<1> QED BY <1>1, <1>2, <1>3 DEF HandoffInv

\* ingest_handoff, up to the lock.
LEMMA StageIngestKeeps ==
  ASSUME HandoffInv, NEW s \in Sessions, NEW e \in returns, StageIngest(s, e) PROVE HandoffInv'
<1> DEFINE i == e.binding.item
           it == store[i]
<1>1. e \in Envelopes /\ i \in Items
  BY DEF HandoffInv, HandoffTypes, Envelopes, Bindings
<1>2. PICK p \in it.pending : p.binding = e.binding /\ StillValid(it, p)
  BY DEF StageIngest
<1>3. it.pending = {p} /\ p.binding.generation = it.generation /\ IsItem(it)
  BY <1>1 DEF HandoffInv, ItemOk, PendingOf
<1>4. PICK x : x = [NoErrand EXCEPT !.pc = "ingest", !.item = i, !.seen = {it}, !.envelope = {e}]
  OBVIOUS
<1>5. x = [pc |-> "ingest", item |-> i, seen |-> {it}, binding |-> {}, envelope |-> {e}]
  BY <1>4 DEF NoErrand
<1>6. session' = [session EXCEPT ![s] = x] /\ UNCHANGED <<store, head, returns, told>>
  BY <1>4 DEF StageIngest
<1>7. Source(it) = p.source /\ it.accepted = p.receipts
  BY <1>2 DEF StillValid
<1> HIDE DEF it
<1>8. IsErrand(x) /\ AtHand(x, store)
  BY <1>1, <1>2, <1>3, <1>5, <1>7 DEF IsErrand, AtHand, Ingests
<1>9. returns' \subseteq Envelopes /\ \A f \in told' : f.binding.item \in Items /\ f \in store[f.binding.item].accepted
  BY <1>6 DEF HandoffInv, HandoffTypes
<1> QED BY <1>6, <1>8, <1>9, SessionStep
\* What the import of a result makes of an item.
LEMMA ImportedFields ==
  ASSUME NEW it, IsItem(it), NEW e
  PROVE  LET new == Imported(it, e)
             run == AppliedResults(it.run, OneResult(e))
         IN  /\ IsItem(new)
             /\ new.run = run /\ new.runContext = it.context /\ new.pending = {}
             /\ new.accepted = it.accepted \cup {e}
             /\ new.context = it.context /\ new.claims = it.claims /\ new.rework = it.rework
             /\ new.generation = it.generation
             /\ new.state = "done" => RunStatus(run) = "complete"
<1> DEFINE run == AppliedResults(it.run, OneResult(e))
           state == CASE RunStatus(run) = "running" -> "ready"
                      [] RunStatus(run) = "complete" /\ (\E g \in Gates : Satisfies(g, run[g])) -> "done"
                      [] OTHER -> "blocked"
<1>1. state = "done" => RunStatus(run) = "complete"
  <2>1. CASE RunStatus(run) = "running"
    BY <2>1
  <2>2. CASE RunStatus(run) = "complete"
    BY <2>2
  <2>3. CASE RunStatus(run) # "running" /\ RunStatus(run) # "complete"
    BY <2>3
  <2> QED BY <2>1, <2>2, <2>3
<1>2. Imported(it, e) = [it EXCEPT !.run = run, !.runContext = it.context, !.pending = {}, !.accepted = @ \cup {e},
                                   !.state = state, !.claim = IF state = "ready" THEN {} ELSE @]
  BY DEF Imported
<1> HIDE DEF run, state
<1>3. PICK new : new = [it EXCEPT !.run = run, !.runContext = it.context, !.pending = {}, !.accepted = @ \cup {e},
                                  !.state = state, !.claim = IF state = "ready" THEN {} ELSE @]
  OBVIOUS
<1>4. /\ IsItem(new)
      /\ new.run = run /\ new.runContext = it.context /\ new.pending = {}
      /\ new.accepted = it.accepted \cup {e}
      /\ new.context = it.context /\ new.claims = it.claims /\ new.rework = it.rework
      /\ new.generation = it.generation /\ new.state = state
  BY <1>3 DEF IsItem
<1> QED BY <1>1, <1>2, <1>3, <1>4 DEF run

\* The import of a result that was reserved, and was not accepted before, keeps an
\* item as it should be.
LEMMA ImportedOk ==
  ASSUME NEW i \in Items, NEW it, ItemOk(i, it), NEW e \in Envelopes, NEW p \in it.pending,
         p.binding = e.binding, Source(it) = p.source, e.binding.item = i,
         \A a \in it.accepted : a.binding # e.binding
  PROVE  ItemOk(i, Imported(it, e))
<1> DEFINE run == AppliedResults(it.run, OneResult(e))
           role == e.binding.role
<1>1. PICK new : new = Imported(it, e)
  OBVIOUS
<1>2. /\ IsItem(it) /\ IsItem(new)
      /\ new.run = run /\ new.runContext = it.context /\ new.pending = {}
      /\ new.accepted = it.accepted \cup {e}
      /\ new.context = it.context /\ new.claims = it.claims /\ new.rework = it.rework
      /\ new.generation = it.generation
      /\ new.state = "done" => RunStatus(run) = "complete"
  BY <1>1, ImportedFields DEF ItemOk
<1>3. "review" \in DOMAIN e.result /\ \A q \in DOMAIN it.run : "review" \in DOMAIN it.run[q]
  BY ResultHasVerdict DEF Envelopes, ItemOk, RunOf
<1>4. /\ DOMAIN run = DOMAIN it.run \cup {role}
      /\ run[role].review = e.result.review
      /\ \A q \in DOMAIN it.run \ {role} : run[q].review = it.run[q].review
      /\ \A q \in DOMAIN run : "review" \in DOMAIN run[q]
  BY <1>3, AppliedOne
<1>5. /\ e.binding.context = it.context /\ e.binding.rework = it.rework
      /\ role \in Roles \ DOMAIN it.run
      /\ DOMAIN it.run # {} => it.runContext = it.context
  <2>1. ReservesRole(e.binding, Source(it))
    BY DEF ItemOk, PendingOf
  <2> QED BY <1>2, <2>1, SourceFields DEF ReservesRole
<1> HIDE DEF run
<1>6. PendingOf(i, new)
  BY <1>2 DEF PendingOf
<1>7. ReceiptsOf(i, new)
  <2>1. \A a \in it.accepted : a.binding.rework = it.rework =>
          a.binding.role \in DOMAIN it.run /\ a.binding.context = it.runContext
          /\ it.run[a.binding.role].review = a.result.review
    BY DEF ItemOk, ReceiptsOf
  <2>2. new.accepted \subseteq Envelopes
    BY <1>2 DEF ItemOk, ReceiptsOf
  <2>3. \A a \in new.accepted : a.binding.item = i /\ a.binding.rework <= new.rework
    <3>1. it.rework <= it.rework
      BY <1>2 DEF IsItem
    <3> QED BY <1>2, <1>5, <3>1 DEF ItemOk, ReceiptsOf
  <2>4. \A a, f \in new.accepted : a.binding = f.binding => a = f
    BY <1>2 DEF ItemOk, ReceiptsOf
  <2>5. \A a, f \in new.accepted : a.binding.rework = new.rework /\ f.binding.rework = new.rework
                                   /\ a.binding.role = f.binding.role => a = f
    BY <1>2, <1>5, <2>1 DEF ItemOk, ReceiptsOf
  <2>6. \A a \in new.accepted : a.binding.rework = new.rework =>
          /\ a.binding.role \in DOMAIN new.run /\ a.binding.context = new.runContext
          /\ new.run[a.binding.role].review = a.result.review
    <3>1. ASSUME NEW a \in it.accepted, a.binding.rework = it.rework
          PROVE  /\ a.binding.role \in DOMAIN run /\ a.binding.context = it.context
                 /\ run[a.binding.role].review = a.result.review
      BY <3>1, <2>1, <1>4, <1>5
    <3>2. /\ e.binding.role \in DOMAIN run /\ e.binding.context = it.context
          /\ run[e.binding.role].review = e.result.review
      BY <1>4, <1>5
    <3> QED BY <1>2, <3>1, <3>2
  <2> QED BY <2>2, <2>3, <2>4, <2>5, <2>6 DEF ReceiptsOf
<1>8. RunOf(new)
  <2>1. DOMAIN new.run \subseteq Roles
    BY <1>2, <1>4, <1>5 DEF ItemOk, RunOf
  <2>2. \A q \in DOMAIN new.run : /\ "review" \in DOMAIN new.run[q]
                                  /\ \E a \in new.accepted : a.binding.role = q /\ a.binding.rework = new.rework
    BY <1>2, <1>4, <1>5 DEF ItemOk, RunOf
  <2>3. ASSUME new.state = "done" PROVE DOMAIN new.run = Roles /\ \A g \in Gates : new.run[g].review = "pass"
    <3>1. RunStatus(run) = "complete"
      BY <1>2, <2>3
    <3>2. DOMAIN run = Completed(run) /\ DOMAIN run = Roles
      BY <3>1 DEF RunStatus
    <3>3. \A g \in Gates : Satisfies(g, run[g])
      BY <3>2, RolesAssumption DEF Completed
    <3> QED BY <1>2, <3>2, <3>3 DEF Satisfies
  <2> QED BY <2>1, <2>2, <2>3 DEF RunOf
<1> QED BY <1>1, <1>2, <1>6, <1>7, <1>8 DEF ItemOk

\* What a session read is what the item still is, when it may publish.
LEMMA SeenStands ==
  ASSUME NEW i \in Items, NEW it, ItemOk(i, it), NEW jt, IsItem(jt), NEW p, jt.pending = {p},
         p.binding.generation = jt.generation, Source(jt) = p.source, jt.accepted = p.receipts,
         it.pending = jt.pending, \E q \in it.pending : StillValid(it, q)
  PROVE  it = jt
<1>1. StillValid(it, p) /\ p \in it.pending
  OBVIOUS
<1>2. it.generation = jt.generation
  BY <1>1 DEF ItemOk, PendingOf
<1>3. Source(it) = Source(jt) /\ it.accepted = jt.accepted
  BY <1>1 DEF StillValid
<1> QED BY <1>2, <1>3, SameItem DEF ItemOk

\* ingest_handoff, under the lock.
LEMMA PublishKeeps == ASSUME HandoffInv, NEW s \in Sessions, Publish(s) PROVE HandoffInv'
<1> DEFINE i == session[s].item
<1>1. PICK jt, e, p :
        /\ e \in Envelopes /\ p \in jt.pending /\ i \in Items /\ IsErrand(session[s])
        /\ session[s].seen = {jt} /\ IsItem(jt) /\ jt.pending = {p}
        /\ session[s].envelope = {e} /\ e.binding.item = i
        /\ p.binding = e.binding /\ p.binding.generation = jt.generation
        /\ Source(jt) = p.source /\ jt.accepted = p.receipts
  <2>1. Ingests(session[s]) /\ IsErrand(session[s])
    BY DEF HandoffInv, HandoffTypes, AtHand, Publish, In
  <2> QED BY <2>1 DEF Ingests
<1>2. Only(session[s].seen) = jt /\ Only(session[s].envelope) = e
  BY <1>1, OnlyOne
<1>3. UNCHANGED <<head, returns>>
  BY DEF Publish
<1>4. CASE \E a \in store[i].accepted : a.binding = e.binding
  <2>1. /\ e \in store[i].accepted /\ told' = told \cup {e} /\ UNCHANGED store
        /\ session' = [session EXCEPT ![s] = NoErrand]
    BY <1>2, <1>4 DEF Publish, EndSession
  <2>2. returns' \subseteq Envelopes /\ \A f \in told' : f.binding.item \in Items /\ f \in store[f.binding.item].accepted
    BY <1>1, <1>3, <2>1 DEF HandoffInv, HandoffTypes
  <2> QED BY <1>3, <2>1, <2>2, IdleSession, SessionStep
<1>5. CASE ~\E a \in store[i].accepted : a.binding = e.binding
  <2>1. /\ store[i].pending = jt.pending
        /\ \E q \in store[i].pending : StillValid(store[i], q)
        /\ store' = [store EXCEPT ![i] = Imported(jt, e)]
        /\ session' = [session EXCEPT ![s].pc = "saved"]
        /\ UNCHANGED told
    BY <1>2, <1>5 DEF Publish
  <2>2. ItemOk(i, store[i])
    BY <1>1 DEF HandoffInv
  <2>3. store[i] = jt
    BY <1>1, <2>1, <2>2, SeenStands
  <2>4. PICK new : new = Imported(jt, e)
    OBVIOUS
  <2>5. ItemOk(i, new)
    BY <1>1, <1>5, <2>2, <2>3, <2>4, ImportedOk
  <2>6. new.accepted = jt.accepted \cup {e} /\ new.pending = {}
    BY <1>1, <2>4, ImportedFields
  <2>7. PICK x : x = [session[s] EXCEPT !.pc = "saved"]
    OBVIOUS
  <2>8. session' = [session EXCEPT ![s] = x]
    BY <2>1, <2>7 DEF HandoffInv, HandoffTypes
  <2>9. IsErrand(x) /\ x.pc = "saved" /\ x.item = i /\ x.envelope = {e}
    BY <1>1, <2>7 DEF IsErrand
  <2>10. store' = [store EXCEPT ![i] = new] /\ store'[i] = new
    BY <1>1, <2>1, <2>4 DEF HandoffInv, HandoffTypes
  <2>11. AtHand(x, store')
    BY <1>1, <2>6, <2>9, <2>10 DEF AtHand, Saved
  <2> QED BY <1>1, <1>3, <2>1, <2>3, <2>5, <2>6, <2>8, <2>9, <2>10, <2>11, BothStep
<1> QED BY <1>4, <1>5

\* The receipt is returned to the supervisor.
LEMMA ReturnReceiptKeeps == ASSUME HandoffInv, NEW s \in Sessions, ReturnReceipt(s) PROVE HandoffInv'
<1>1. /\ told' = told \cup session[s].envelope /\ UNCHANGED <<store, head, returns>>
      /\ session' = [session EXCEPT ![s] = NoErrand]
  BY DEF ReturnReceipt, EndSession
<1>2. Saved(session[s], store)
  BY DEF ReturnReceipt, In, HandoffInv, AtHand
<1>3. returns' \subseteq Envelopes /\ \A e \in told' : e.binding.item \in Items /\ e \in store[e.binding.item].accepted
  BY <1>1, <1>2 DEF HandoffInv, HandoffTypes, Saved
<1> QED BY <1>1, <1>3, IdleSession, SessionStep

\* A refusal, or a death.
LEMMA RefuseKeeps == ASSUME HandoffInv, NEW s \in Sessions, Refuse(s) PROVE HandoffInv'
<1>1. UNCHANGED <<store, head, returns, told>> /\ session' = [session EXCEPT ![s] = NoErrand]
  BY DEF Refuse, EndSession
<1>2. returns' \subseteq Envelopes /\ \A e \in told' : e.binding.item \in Items /\ e \in store[e.binding.item].accepted
  BY <1>1 DEF HandoffInv, HandoffTypes
<1> QED BY <1>1, <1>2, IdleSession, SessionStep
\* A claim, a recovery and an edit leave the handoff state, the run and the rework
\* of an item as they are.
LEMMA UpdateKeeps ==
  ASSUME HandoffInv, NEW i \in Items, UNCHANGED <<head, session, returns, told>>,
         \/ \E by : store' = [store EXCEPT ![i].state = "running", ![i].claim = {by}, ![i].claims = @ + 1]
         \/ store' = [store EXCEPT ![i].state = "ready", ![i].claim = {}]
         \/ store' = [store EXCEPT ![i].context = @ + 1]
  PROVE  HandoffInv'
<1> DEFINE it == store[i]
<1>1. ItemOk(i, it) /\ IsItem(it)
  BY DEF HandoffInv, HandoffTypes
<1>2. ASSUME NEW jt, IsItem(jt), store' = [store EXCEPT ![i] = jt],
             jt.pending = it.pending, jt.generation = it.generation, jt.accepted = it.accepted,
             jt.rework = it.rework, jt.run = it.run, jt.runContext = it.runContext,
             jt.state = "done" => it.state = "done"
      PROVE  HandoffInv'
  <2>1. ItemOk(i, jt)
    BY <1>1, <1>2, ItemKept
  <2> QED BY <1>2, <2>1, ItemStep
<1>3. ASSUME NEW by, store' = [store EXCEPT ![i].state = "running", ![i].claim = {by}, ![i].claims = @ + 1]
      PROVE  HandoffInv'
  <2>1. PICK jt : jt = [it EXCEPT !.state = "running", !.claim = {by}, !.claims = @ + 1]
    OBVIOUS
  <2>2. jt = [state |-> "running", claim |-> {by}, claims |-> it.claims + 1, context |-> it.context,
              rework |-> it.rework, run |-> it.run, runContext |-> it.runContext,
              generation |-> it.generation, accepted |-> it.accepted, pending |-> it.pending]
    BY <1>1, <2>1 DEF IsItem
  <2>3. IsItem(jt)
    <3>1. jt.claims \in Nat /\ jt.context \in Nat /\ jt.rework \in Nat /\ jt.generation \in Nat
      BY <1>1, <2>2, Counts
    <3> HIDE DEF it
    <3> QED BY <2>2, <3>1 DEF IsItem
  <2>4. store' = [store EXCEPT ![i] = jt]
    BY <1>3, <2>1 DEF HandoffInv, HandoffTypes
  <2> QED BY <1>2, <2>2, <2>3, <2>4
<1>4. ASSUME store' = [store EXCEPT ![i].state = "ready", ![i].claim = {}] PROVE HandoffInv'
  <2>1. PICK jt : jt = [it EXCEPT !.state = "ready", !.claim = {}]
    OBVIOUS
  <2>2. jt = [state |-> "ready", claim |-> {}, claims |-> it.claims, context |-> it.context,
              rework |-> it.rework, run |-> it.run, runContext |-> it.runContext,
              generation |-> it.generation, accepted |-> it.accepted, pending |-> it.pending]
    BY <1>1, <2>1 DEF IsItem
  <2>3. IsItem(jt)
    BY <1>1, <2>2 DEF IsItem
  <2>4. store' = [store EXCEPT ![i] = jt]
    BY <1>4, <2>1 DEF HandoffInv, HandoffTypes
  <2> QED BY <1>2, <2>2, <2>3, <2>4
<1>5. ASSUME store' = [store EXCEPT ![i].context = @ + 1] PROVE HandoffInv'
  <2>1. PICK jt : jt = [it EXCEPT !.context = @ + 1]
    OBVIOUS
  <2>2. jt = [state |-> it.state, claim |-> it.claim, claims |-> it.claims, context |-> it.context + 1,
              rework |-> it.rework, run |-> it.run, runContext |-> it.runContext,
              generation |-> it.generation, accepted |-> it.accepted, pending |-> it.pending]
    BY <1>1, <2>1 DEF IsItem
  <2>3. IsItem(jt)
    <3>1. jt.claims \in Nat /\ jt.context \in Nat /\ jt.rework \in Nat /\ jt.generation \in Nat
      BY <1>1, <2>2, Counts
    <3> HIDE DEF it
    <3> QED BY <2>2, <3>1 DEF IsItem
  <2>4. store' = [store EXCEPT ![i] = jt]
    BY <1>5, <2>1 DEF HandoffInv, HandoffTypes
  <2> QED BY <1>2, <2>2, <2>3, <2>4
<1> QED BY <1>3, <1>4, <1>5

\* A rework starts a run without results; the receipts of the last one are of a
\* rework that is over.
LEMMA ReworkKeeps == ASSUME HandoffInv, NEW i \in Items, ReworkItem(i) PROVE HandoffInv'
<1> DEFINE it == store[i]
<1>1. ItemOk(i, it) /\ IsItem(it)
  BY DEF HandoffInv, HandoffTypes
<1>2. PICK jt : jt = [it EXCEPT !.state = "ready", !.claim = {}, !.rework = 1, !.run = << >>]
  OBVIOUS
<1>3. jt = [state |-> "ready", claim |-> {}, claims |-> it.claims, context |-> it.context,
            rework |-> 1, run |-> << >>, runContext |-> it.runContext,
            generation |-> it.generation, accepted |-> it.accepted, pending |-> it.pending]
  BY <1>1, <1>2 DEF IsItem
<1>4. /\ store' = [store EXCEPT ![i] = jt] /\ it.rework = 0
      /\ UNCHANGED <<head, session, returns, told>>
  BY <1>2 DEF ReworkItem, HandoffInv, HandoffTypes
<1>5. IsItem(jt)
  BY <1>1, <1>3 DEF IsItem
<1>6. \A e \in it.accepted : e.binding.rework \in Nat /\ e.binding.rework <= 0
  BY <1>1, <1>4 DEF ItemOk, ReceiptsOf, Envelopes, Bindings
<1>7. PendingOf(i, jt)
  BY <1>1, <1>3 DEF ItemOk, PendingOf
<1>8. \A e \in it.accepted : e.binding.rework <= 1 /\ e.binding.rework # 1
  BY <1>6
<1>9. ReceiptsOf(i, jt)
  BY <1>1, <1>3, <1>8 DEF ItemOk, ReceiptsOf
<1>10. DOMAIN jt.run = {}
  BY <1>3
<1>11. RunOf(jt)
  BY <1>3, <1>10 DEF RunOf
<1> QED BY <1>3, <1>4, <1>5, <1>7, <1>9, <1>11, ItemStep DEF ItemOk

\* The invariant holds at first.
LEMMA HandoffStarts == HandoffInit => HandoffInv
<1> SUFFICES ASSUME HandoffInit PROVE HandoffInv
  OBVIOUS
<1>1. store = [i \in Items |-> NewItem] /\ head = 0 /\ session = [s \in Sessions |-> NoErrand]
      /\ returns = {} /\ told = {}
  BY DEF HandoffInit
<1>2. IsItem(NewItem) /\ NewItem.pending = {} /\ NewItem.accepted = {} /\ NewItem.state = "ready"
  BY DEF NewItem, IsItem
<1>3. DOMAIN NewItem.run = {}
  BY DEF NewItem
<1>4. ASSUME NEW i PROVE ItemOk(i, NewItem)
  BY <1>2, <1>3 DEF ItemOk, PendingOf, ReceiptsOf, RunOf
<1>5. HandoffTypes
  BY <1>1, <1>2, IdleSession DEF HandoffTypes
<1>6. \A i, j \in Items : store[i].pending # {} /\ store[j].pending # {} => i = j
  BY <1>1, <1>2
<1>7. \A s \in Sessions : AtHand(session[s], store)
  BY <1>1, IdleSession
<1> QED BY <1>1, <1>4, <1>5, <1>6, <1>7 DEF HandoffInv

\* And it is kept by every step.
LEMMA HandoffSteps == HandoffInv /\ [HandoffNext]_handoffVars => HandoffInv'
<1> SUFFICES ASSUME HandoffInv, [HandoffNext]_handoffVars PROVE HandoffInv'
  OBVIOUS
<1>1. ASSUME NEW s \in Sessions, NEW i \in Items, PrepareAgain(s, i) \/ StagePrepare(s, i) PROVE HandoffInv'
  BY <1>1, PrepareAgainKeeps, StagePrepareKeeps
<1>2. ASSUME NEW s \in Sessions, NEW e \in returns, Acknowledge(s, e) \/ StageIngest(s, e) PROVE HandoffInv'
  BY <1>2, AcknowledgeKeeps, StageIngestKeeps
<1>3. ASSUME NEW s \in Sessions, Reserve(s) \/ Dispatch(s) \/ Publish(s) \/ ReturnReceipt(s) \/ Refuse(s)
      PROVE  HandoffInv'
  BY <1>3, ReserveKeeps, DispatchKeeps, PublishKeeps, ReturnReceiptKeeps, RefuseKeeps
<1>4. ASSUME NEW i \in Items, NEW by, ClaimItem(i, by) PROVE HandoffInv'
  BY <1>4, UpdateKeeps DEF ClaimItem
<1>5. ASSUME NEW i \in Items, RecoverItem(i) \/ EditItem(i) PROVE HandoffInv'
  BY <1>5, UpdateKeeps DEF RecoverItem, EditItem
<1>6. ASSUME NEW i \in Items, ReworkItem(i) PROVE HandoffInv'
  BY <1>6, ReworkKeeps
<1>7. ASSUME MoveHead PROVE HandoffInv'
  <2>1. UNCHANGED <<store, session, returns, told>> /\ head' = head + 1 /\ head \in Nat
    BY <1>7 DEF MoveHead, HandoffInv, HandoffTypes
  <2>2. head' \in Nat
    BY <2>1
  <2> QED BY <2>1, <2>2 DEF HandoffInv, HandoffTypes
<1>8. ASSUME UNCHANGED handoffVars PROVE HandoffInv'
  BY <1>8 DEF HandoffInv, HandoffTypes, handoffVars
<1> QED BY <1>1, <1>2, <1>3, <1>4, <1>5, <1>6, <1>7, <1>8 DEF HandoffNext
-----------------------------------------------------------------------------
(* What the sessions keep.                                                  *)

\* What is true of every reachable state of the handoff: the inductive invariant.
THEOREM HandoffInvariant == HandoffSpec => []HandoffInv
BY HandoffStarts, HandoffSteps, PTL DEF HandoffSpec

\* The receipts of the roles, as the invariant has them.
LEMMA ReceiptsFromInvariant == HandoffInv => ReceiptsHold
<1> SUFFICES ASSUME HandoffInv PROVE ReceiptsHold
  OBVIOUS
<1>1. Cardinality({i \in Items : store[i].pending # {}}) <= 1
  <2> DEFINE S == {i \in Items : store[i].pending # {}}
  <2>1. \A i, j \in S : i = j
    BY DEF HandoffInv
  <2>2. CASE S = {}
    BY <2>2, FS_EmptySet
  <2>3. CASE S # {}
    <3>1. PICK i : S = {i}
      BY <2>1, <2>3
    <3> HIDE DEF S
    <3>2. Cardinality(S) = 1
      BY <3>1, FS_Singleton
    <3> QED BY <3>2 DEF S
  <2> QED BY <2>2, <2>3
<1>2. \A i \in Items : \A p \in store[i].pending : p.binding.item = i /\ p.binding.generation = store[i].generation
  BY DEF HandoffInv, ItemOk, PendingOf
<1>3. \A e \in told : e \in store[e.binding.item].accepted
  BY DEF HandoffInv
<1>4. \A e, f \in told : e.binding = f.binding => e = f
  BY DEF HandoffInv, ItemOk, ReceiptsOf
<1>5. ASSUME NEW i \in Items, NEW role \in Roles
      PROVE  Cardinality({e \in store[i].accepted : e.binding.role = role /\ e.binding.rework = store[i].rework})
               = IF role \in DOMAIN store[i].run THEN 1 ELSE 0
  <2> DEFINE S == {e \in store[i].accepted : e.binding.role = role /\ e.binding.rework = store[i].rework}
  <2>1. ReceiptsOf(i, store[i]) /\ RunOf(store[i])
    BY DEF HandoffInv, ItemOk
  <2>2. \A e, f \in S : e = f
    BY <2>1 DEF ReceiptsOf
  <2>3. S # {} <=> role \in DOMAIN store[i].run
    BY <2>1 DEF ReceiptsOf, RunOf
  <2>4. CASE S = {}
    BY <2>3, <2>4, FS_EmptySet
  <2>5. CASE S # {}
    <3>1. PICK e : S = {e}
      BY <2>2, <2>5
    <3>2. Cardinality({e}) = 1
      BY FS_Singleton
    <3> HIDE DEF S
    <3>3. Cardinality(S) = IF role \in DOMAIN store[i].run THEN 1 ELSE 0
      BY <2>3, <2>5, <3>1, <3>2
    <3> QED BY <3>3 DEF S
  <2> QED BY <2>4, <2>5
<1> QED BY <1>1, <1>2, <1>3, <1>4, <1>5 DEF ReceiptsHold

\* One reservation is unresolved across the store; of a reservation one result is
\* acknowledged, and it is on record; a run holds the result of a role exactly if
\* one of it was accepted since the last rework - however many sessions prepare,
\* import and die beside each other (prepare_handoff, ingest_handoff).
THEOREM ReceiptsAreKept == HandoffSpec => []ReceiptsHold
BY HandoffInvariant, ReceiptsFromInvariant, PTL

\* A done item, as the invariant has it.
LEMMA DoneFromInvariant == HandoffInv => DoneUnderOneContract
<1> SUFFICES ASSUME HandoffInv, NEW i \in Items, store[i].state = "done"
             PROVE  LET used == {e \in store[i].accepted : e.binding.rework = store[i].rework}
                    IN  /\ {e.binding.role : e \in used} = Roles
                        /\ \A e, f \in used : e.binding.context = f.binding.context
                        /\ \A e \in used : e.binding.role \in Gates => e.result.review = "pass"
  BY DEF DoneUnderOneContract
<1> DEFINE used == {e \in store[i].accepted : e.binding.rework = store[i].rework}
           it == store[i]
<1>1. ReceiptsOf(i, it) /\ RunOf(it)
  BY DEF HandoffInv, ItemOk
<1>2. DOMAIN it.run = Roles /\ \A g \in Gates : it.run[g].review = "pass"
  BY <1>1 DEF RunOf
<1>3. \A e \in used : /\ e.binding.role \in Roles /\ e.binding.context = it.runContext
                      /\ it.run[e.binding.role].review = e.result.review
  BY <1>1, <1>2 DEF ReceiptsOf
<1>4. \A role \in Roles : \E e \in used : e.binding.role = role
  BY <1>1, <1>2 DEF RunOf
<1> QED BY <1>2, <1>3, <1>4

\* A done item was done by all its roles under one contract, and every gate passed,
\* whatever was claimed, recovered, reworked and edited meanwhile.
THEOREM DoneIsUnderOneContract == HandoffSpec => []DoneUnderOneContract
BY HandoffInvariant, DoneFromInvariant, PTL

\* No step takes back what others did to an item.
LEMMA OverwritingSteps ==
  HandoffInv /\ [HandoffNext]_handoffVars =>
    [\A i \in Items : /\ store'[i].context >= store[i].context /\ store'[i].claims >= store[i].claims
                      /\ store'[i].rework >= store[i].rework /\ store'[i].generation >= store[i].generation
                      /\ store[i].accepted \subseteq store'[i].accepted]_handoffVars
<1> DEFINE Kept(it, jt) == /\ jt.context >= it.context /\ jt.claims >= it.claims
                           /\ jt.rework >= it.rework /\ jt.generation >= it.generation
                           /\ it.accepted \subseteq jt.accepted
<1> SUFFICES ASSUME HandoffInv, [HandoffNext]_handoffVars
             PROVE  \A i \in Items : Kept(store[i], store'[i])
  OBVIOUS
<1>1. \A i \in Items : IsItem(store[i])
  BY DEF HandoffInv, HandoffTypes
<1>2. \A i \in Items : Kept(store[i], store[i])
  BY <1>1, Counts
<1>3. ASSUME UNCHANGED store PROVE \A i \in Items : Kept(store[i], store'[i])
  BY <1>2, <1>3
<1>4. ASSUME NEW i \in Items, NEW jt, store' = [store EXCEPT ![i] = jt], Kept(store[i], jt)
      PROVE  \A j \in Items : Kept(store[j], store'[j])
  <2>1. store'[i] = jt /\ \A j \in Items \ {i} : store'[j] = store[j]
    BY <1>4 DEF HandoffInv, HandoffTypes
  <2> HIDE DEF Kept
  <2> QED BY <1>2, <1>4, <2>1
<1>5. ASSUME NEW s \in Sessions, Reserve(s), ~UNCHANGED store PROVE \A i \in Items : Kept(store[i], store'[i])
  <2> DEFINE i == session[s].item
  <2>1. PICK b : session[s].binding = {b} /\ i \in Items
                 /\ \A jt : session[s].seen = {jt} => b.generation = jt.generation + 1
    <3>1. session[s].pc = "prepare" /\ AtHand(session[s], store)
      BY <1>5 DEF Reserve, In, HandoffInv
    <3> QED BY <3>1 DEF AtHand, Prepares
  <2>2. Only(session[s].binding) = b
    BY <2>1, OnlyOne
  <2>3. PICK p : /\ {store[i]} = session[s].seen
                 /\ store' = [store EXCEPT ![i].generation = b.generation, ![i].pending = {p}]
    BY <1>5, <2>2 DEF Reserve
  <2>4. PICK jt : jt = [store[i] EXCEPT !.generation = b.generation, !.pending = {p}]
    OBVIOUS
  <2>5. store' = [store EXCEPT ![i] = jt]
    BY <2>3, <2>4 DEF HandoffInv, HandoffTypes
  <2>6. /\ jt.context = store[i].context /\ jt.claims = store[i].claims /\ jt.rework = store[i].rework
        /\ jt.generation = b.generation /\ jt.accepted = store[i].accepted
    BY <1>1, <2>1, <2>4 DEF IsItem
  <2>7. b.generation = store[i].generation + 1
    BY <2>1, <2>3
  <2>8. /\ store[i].context \in Nat /\ store[i].claims \in Nat /\ store[i].rework \in Nat
        /\ store[i].generation \in Nat
    BY <1>1, <2>1 DEF IsItem
  <2>9. Kept(store[i], jt)
    BY <2>6, <2>7, <2>8
  <2> QED BY <1>4, <2>1, <2>5, <2>9
<1>6. ASSUME NEW s \in Sessions, Publish(s), ~UNCHANGED store PROVE \A i \in Items : Kept(store[i], store'[i])
  <2> DEFINE i == session[s].item
  <2>1. PICK jt, e, p :
          /\ p \in jt.pending /\ i \in Items
          /\ session[s].seen = {jt} /\ IsItem(jt) /\ jt.pending = {p}
          /\ session[s].envelope = {e}
          /\ p.binding.generation = jt.generation
          /\ Source(jt) = p.source /\ jt.accepted = p.receipts
    <3>1. Ingests(session[s])
      BY <1>6 DEF HandoffInv, AtHand, Publish, In
    <3> QED BY <3>1 DEF Ingests
  <2>2. Only(session[s].seen) = jt /\ Only(session[s].envelope) = e
    BY <2>1, OnlyOne
  <2>3. /\ store[i].pending = jt.pending
        /\ \E q \in store[i].pending : StillValid(store[i], q)
        /\ store' = [store EXCEPT ![i] = Imported(jt, e)]
    BY <1>6, <2>2 DEF Publish
  <2>4. ItemOk(i, store[i])
    BY <2>1 DEF HandoffInv
  <2>5. store[i] = jt
    BY <2>1, <2>3, <2>4, SeenStands
  <2>6. PICK new : new = Imported(jt, e)
    OBVIOUS
  <2>7. /\ new.context = jt.context /\ new.claims = jt.claims /\ new.rework = jt.rework
        /\ new.generation = jt.generation /\ jt.accepted \subseteq new.accepted
    BY <2>1, <2>6, ImportedFields
  <2>8. Kept(store[i], new)
    BY <2>1, <2>5, <2>7 DEF IsItem
  <2> QED BY <1>4, <2>1, <2>3, <2>6, <2>8
<1>7. ASSUME NEW i \in Items, NEW by, ClaimItem(i, by) PROVE \A j \in Items : Kept(store[j], store'[j])
  <2>1. PICK jt : jt = [store[i] EXCEPT !.state = "running", !.claim = {by}, !.claims = @ + 1]
    OBVIOUS
  <2>2. store' = [store EXCEPT ![i] = jt]
    BY <1>7, <2>1 DEF ClaimItem, HandoffInv, HandoffTypes
  <2>3. /\ jt.context = store[i].context /\ jt.claims = store[i].claims + 1 /\ jt.rework = store[i].rework
        /\ jt.generation = store[i].generation /\ jt.accepted = store[i].accepted
    BY <1>1, <2>1 DEF IsItem
  <2>4. Kept(store[i], jt)
    BY <1>1, <2>3, Counts
  <2> QED BY <1>4, <2>2, <2>4
<1>8. ASSUME NEW i \in Items, RecoverItem(i) PROVE \A j \in Items : Kept(store[j], store'[j])
  <2>1. PICK jt : jt = [store[i] EXCEPT !.state = "ready", !.claim = {}]
    OBVIOUS
  <2>2. store' = [store EXCEPT ![i] = jt]
    BY <1>8, <2>1 DEF RecoverItem, HandoffInv, HandoffTypes
  <2>3. /\ jt.context = store[i].context /\ jt.claims = store[i].claims /\ jt.rework = store[i].rework
        /\ jt.generation = store[i].generation /\ jt.accepted = store[i].accepted
    BY <1>1, <2>1 DEF IsItem
  <2>4. Kept(store[i], jt)
    BY <1>1, <2>3, Counts
  <2> QED BY <1>4, <2>2, <2>4
<1>9. ASSUME NEW i \in Items, ReworkItem(i) PROVE \A j \in Items : Kept(store[j], store'[j])
  <2>1. PICK jt : jt = [store[i] EXCEPT !.state = "ready", !.claim = {}, !.rework = 1, !.run = << >>]
    OBVIOUS
  <2>2. store' = [store EXCEPT ![i] = jt] /\ store[i].rework = 0
    BY <1>9, <2>1 DEF ReworkItem, HandoffInv, HandoffTypes
  <2>3. /\ jt.context = store[i].context /\ jt.claims = store[i].claims /\ jt.rework = 1
        /\ jt.generation = store[i].generation /\ jt.accepted = store[i].accepted
    BY <1>1, <2>1 DEF IsItem
  <2>4. Kept(store[i], jt)
    BY <1>1, <2>2, <2>3, Counts
  <2> QED BY <1>4, <2>2, <2>4
<1>10. ASSUME NEW i \in Items, EditItem(i) PROVE \A j \in Items : Kept(store[j], store'[j])
  <2>1. PICK jt : jt = [store[i] EXCEPT !.context = @ + 1]
    OBVIOUS
  <2>2. store' = [store EXCEPT ![i] = jt]
    BY <1>10, <2>1 DEF EditItem, HandoffInv, HandoffTypes
  <2>3. /\ jt.context = store[i].context + 1 /\ jt.claims = store[i].claims /\ jt.rework = store[i].rework
        /\ jt.generation = store[i].generation /\ jt.accepted = store[i].accepted
    BY <1>1, <2>1 DEF IsItem
  <2>4. Kept(store[i], jt)
    BY <1>1, <2>3, Counts
  <2> QED BY <1>4, <2>2, <2>4
<1>11. ASSUME NEW s \in Sessions, NEW i \in Items, PrepareAgain(s, i) \/ StagePrepare(s, i) PROVE UNCHANGED store
  BY <1>11 DEF PrepareAgain, StagePrepare
<1>12. ASSUME NEW s \in Sessions, NEW e \in returns, Acknowledge(s, e) \/ StageIngest(s, e) PROVE UNCHANGED store
  BY <1>12 DEF Acknowledge, StageIngest
<1>13. ASSUME NEW s \in Sessions, Dispatch(s) \/ ReturnReceipt(s) \/ Refuse(s) PROVE UNCHANGED store
  BY <1>13 DEF Dispatch, ReturnReceipt, Refuse
<1>14. MoveHead \/ UNCHANGED handoffVars => UNCHANGED store
  BY DEF MoveHead, handoffVars
<1> HIDE DEF Kept
<1> QED BY <1>3, <1>5, <1>6, <1>7, <1>8, <1>9, <1>10, <1>11, <1>12, <1>13, <1>14 DEF HandoffNext

\* What others did to an item while a session staged its own change is never undone:
\* the compare under the lock refuses what was read before it (save_handoff_item).
THEOREM NothingOverwritten == HandoffSpec => NothingIsOverwritten
BY HandoffInvariant, OverwritingSteps, PTL DEF HandoffSpec, NothingIsOverwritten
-----------------------------------------------------------------------------
(* The results of a run: how they are judged.                               *)

\* The runs that the judgement of a staged run goes through.
Runs(staged, n, f) == f = [k \in 0..n |-> IF k = 0 THEN staged ELSE JudgedOne(f[k - 1], RoleOrder[k])]

\* There is such a sequence of runs of each length.
LEMMA RunsExist == ASSUME NEW staged PROVE \A n \in Nat : \E f : Runs(staged, n, f)
<1> DEFINE T == {n \in Nat : ~\E f : Runs(staged, n, f)}
<1> SUFFICES ASSUME T # {} PROVE FALSE
  OBVIOUS
<1>1. PICK n \in T : \A m \in T : n <= m
  BY LeastNumber
<1>2. CASE n = 0
  <2> DEFINE f == [k \in 0..0 |-> staged]
  <2>1. f = [k \in 0..0 |-> IF k = 0 THEN staged ELSE JudgedOne(f[k - 1], RoleOrder[k])]
    OBVIOUS
  <2> QED BY <1>2, <2>1 DEF Runs
<1>3. CASE n # 0
  <2>1. n - 1 \in Nat /\ n - 1 \notin T
    BY <1>1, <1>3
  <2>2. PICK f : Runs(staged, n - 1, f)
    BY <2>1
  <2> DEFINE g == [k \in 0..n |-> IF k = n THEN JudgedOne(f[n - 1], RoleOrder[n]) ELSE f[k]]
  <2>3. \A k \in 0..(n - 1) : f[k] = IF k = 0 THEN staged ELSE JudgedOne(f[k - 1], RoleOrder[k])
    BY <2>2 DEF Runs
  <2>4. \A k \in 0..n : g[k] = IF k = 0 THEN staged ELSE JudgedOne(g[k - 1], RoleOrder[k])
    <3> TAKE k \in 0..n
    <3>1. CASE k = n
      <4>1. n - 1 \in 0..n /\ n - 1 # n /\ k # 0
        BY <1>3, <2>1, <3>1
      <4> QED BY <3>1, <4>1
    <3>2. CASE k # n
      <4>1. k \in 0..(n - 1) /\ (k # 0 => k - 1 \in 0..n /\ k - 1 # n)
        BY <2>1, <3>2
      <4>2. g[k] = f[k] /\ (k # 0 => g[k - 1] = f[k - 1])
        BY <3>2, <4>1
      <4> QED BY <2>3, <4>1, <4>2
    <3> QED BY <3>1, <3>2
  <2>5. Runs(staged, n, g)
    <3> HIDE DEF g
    <3>1. g = [k \in 0..n |-> g[k]]
      BY DEF g
    <3> QED BY <2>4, <3>1 DEF Runs
  <2> QED BY <2>5
<1> QED BY <1>2, <1>3

\* The judged run is the last of them.
LEMMA JudgedIsLast ==
  ASSUME NEW staged PROVE \E f : Runs(staged, Len(RoleOrder), f) /\ Judged(staged) = f[Len(RoleOrder)]
<1> DEFINE N == Len(RoleOrder)
           g == CHOOSE f : Runs(staged, N, f)
<1>1. Judged(staged) = g[N]
  BY DEF Judged, Runs
<1>2. N \in Nat
  BY RolesAssumption
<1>3. \E f : Runs(staged, N, f)
  BY <1>2, RunsExist
<1>4. Runs(staged, N, g)
  BY <1>3
<1> QED BY <1>1, <1>4

\* One result at a time, dependencies first, comes to the same as all at once: each
\* result is normalized against the judged run itself.
LEMMA JudgedIs ==
  ASSUME NEW staged, DOMAIN staged \subseteq Roles
  PROVE  LET judged == Judged(staged)
         IN  /\ DOMAIN judged = DOMAIN staged
             /\ \A role \in DOMAIN staged : judged[role] = Normalized(role, staged[role], judged)
<1> DEFINE N == Len(RoleOrder)
<1>1. PICK f : Runs(staged, N, f) /\ Judged(staged) = f[N]
  BY JudgedIsLast
<1>2. N \in Nat /\ DOMAIN RoleOrder = 1..N
  BY RolesAssumption
<1>3. /\ f[0] = staged
      /\ \A n \in 1..N : f[n] = JudgedOne(f[n - 1], RoleOrder[n])
  BY <1>1, <1>2 DEF Runs
<1> DEFINE At(n, i) == IF i <= n THEN Normalized(RoleOrder[i], staged[RoleOrder[i]], f[i - 1])
                                 ELSE staged[RoleOrder[i]]
           Fits(n) == /\ DOMAIN f[n] = DOMAIN staged
                      /\ \A i \in 1..N : RoleOrder[i] \in DOMAIN staged => f[n][RoleOrder[i]] = At(n, i)
           T == {n \in 0..N : ~Fits(n)}
<1>4. ASSUME NEW n \in 1..N, Fits(n - 1) PROVE Fits(n)
  <2> DEFINE role == RoleOrder[n]
             run == f[n - 1]
  <2>1. f[n] = IF role \in DOMAIN run THEN [run EXCEPT ![role] = Normalized(role, run[role], run)] ELSE run
    BY <1>3 DEF JudgedOne
  <2>2. DOMAIN f[n] = DOMAIN staged
    BY <1>4, <2>1
  <2>3. ASSUME NEW i \in 1..N, RoleOrder[i] \in DOMAIN staged PROVE f[n][RoleOrder[i]] = At(n, i)
    <3>1. run[RoleOrder[i]] = At(n - 1, i)
      BY <1>4, <2>3
    <3>2. CASE i = n
      <4>1. ~(n <= n - 1)
        BY <1>2
      <4>2. run[role] = staged[role]
        BY <3>1, <3>2, <4>1
      <4>3. f[n][role] = Normalized(role, run[role], run)
        BY <1>4, <2>1, <2>3, <3>2
      <4> QED BY <3>2, <4>2, <4>3
    <3>3. CASE i # n
      <4>1. RoleOrder[i] # role
        BY <1>2, <3>3, RolesAssumption
      <4>2. f[n][RoleOrder[i]] = run[RoleOrder[i]]
        BY <1>4, <2>1, <2>3, <4>1
      <4>3. i <= n - 1 <=> i <= n
        BY <1>2, <3>3
      <4> QED BY <3>1, <4>2, <4>3
    <3> QED BY <3>2, <3>3
  <2> QED BY <2>2, <2>3
<1>5. Fits(0)
  BY <1>2, <1>3
<1>6. \A n \in 0..N : Fits(n)
  <2> SUFFICES ASSUME T # {} PROVE FALSE
    BY DEF T
  <2> HIDE DEF Fits
  <2>1. T \subseteq Nat
    BY <1>2
  <2>2. PICK n \in T : \A m \in T : n <= m
    BY <2>1, LeastNumber
  <2>3. n \in 1..N
    BY <1>2, <1>5, <2>2
  <2>4. n - 1 \in 0..N /\ n - 1 \notin T
    BY <1>2, <2>2, <2>3
  <2> QED BY <1>4, <2>2, <2>3, <2>4
<1>7. ASSUME NEW i \in 1..N, NEW c \in Consumes[RoleOrder[i]]
      PROVE  c \in Completed(f[i - 1]) <=> c \in Completed(f[N])
  <2>1. PICK j \in 1..(i - 1) : c = RoleOrder[j]
    BY <1>2, RolesAssumption
  <2>2. j \in 1..N /\ i - 1 \in 0..N /\ j <= i - 1 /\ j <= N /\ N \in 0..N
    BY <1>2
  <2>3. Fits(i - 1) /\ Fits(N)
    BY <1>6, <2>2
  <2>4. CASE c \in DOMAIN staged
    <3>1. f[i - 1][c] = f[N][c]
      BY <2>1, <2>2, <2>3, <2>4
    <3> QED BY <2>3, <3>1 DEF Completed
  <2>5. CASE c \notin DOMAIN staged
    BY <2>3, <2>5 DEF Completed
  <2> QED BY <2>4, <2>5
<1>8. ASSUME NEW role \in DOMAIN staged PROVE f[N][role] = Normalized(role, staged[role], f[N])
  <2>1. PICK i \in 1..N : role = RoleOrder[i]
    BY <1>2, RolesAssumption DEF Range
  <2>2. f[N][role] = Normalized(role, staged[role], f[i - 1])
    <3>1. Fits(N) /\ i <= N
      BY <1>2, <1>6
    <3> QED BY <2>1, <3>1
  <2>3. Unblocked(role, f[i - 1]) <=> Unblocked(role, f[N])
    BY <1>7, <2>1 DEF Unblocked
  <2>4. GeneratedIssues(role, staged[role], f[i - 1]) = GeneratedIssues(role, staged[role], f[N])
    BY <2>3 DEF GeneratedIssues
  <2> QED BY <2>2, <2>4 DEF Normalized
<1>9. DOMAIN f[N] = DOMAIN staged
  BY <1>2, <1>6
<1> QED BY <1>1, <1>8, <1>9
-----------------------------------------------------------------------------
(* The raw commands: the inductive invariant.                               *)

\* A result as a run holds it.
Stored(r) == /\ r = [status |-> r.status, full |-> r.full, extra |-> r.extra, review |-> r.review,
                     own |-> r.own, gen |-> r.gen]
             /\ r.full \in BOOLEAN /\ r.extra \in BOOLEAN /\ r.own \in BOOLEAN

\* What the run makes of a result says what was reported: a result that may not complete
\* never does, as any issue it has is there for good, and one in order is complete or
\* waits for the roles it consumes.
Kept(role, r, s) == r.full = s.full /\ r.extra = s.extra /\ r.review = s.review /\ r.own = s.own
Unfinished(s) == s.status \in Statuses \ {"complete"} /\ (s.status = "incomplete" => s.gen = {})
Faithful(role, r, s) ==
  /\ Unfinished(s) => /\ r.status \in Statuses \ {"complete"}
                      /\ r.status = "incomplete" /\ r.gen # {} => s.extra \/ (role \in Gates /\ s.review = "none")
  /\ s.status = "complete" /\ InOrder(role, s) => r.status = "complete" \/ (r.status = "incomplete" /\ r.gen # {})
RawInv ==
  /\ DOMAIN rawRun = DOMAIN reported /\ DOMAIN reported \subseteq Roles
  /\ \A role \in DOMAIN reported :
       /\ Stored(rawRun[role]) /\ Kept(role, rawRun[role], reported[role]) /\ Faithful(role, rawRun[role], reported[role])
       /\ reported[role] \in RawResults
       /\ rawRun[role].gen = {} => ~reported[role].extra
       /\ reported[role].status = "complete" /\ InOrder(role, reported[role]) /\ Unblocked(role, rawRun)
            => Satisfies(role, rawRun[role])

\* Normalizing a result keeps what was reported, ...
LEMMA NormalizedKeeps ==
  ASSUME NEW role, NEW r, NEW run, Stored(r)
  PROVE  LET n == Normalized(role, r, run)
         IN  Stored(n) /\ n.full = r.full /\ n.extra = r.extra /\ n.review = r.review /\ n.own = r.own
<1> DEFINE n == Normalized(role, r, run)
<1>1. \E status, gen : n = [r EXCEPT !.gen = gen, !.status = status]
  BY DEF Normalized
<1>2. PICK status, gen : n = [r EXCEPT !.gen = gen, !.status = status]
  BY <1>1
<1> HIDE DEF n
<1>3. n = [status |-> status, full |-> r.full, extra |-> r.extra, review |-> r.review, own |-> r.own, gen |-> gen]
  BY <1>2 DEF Stored
<1>4. Stored(n) /\ n.full = r.full /\ n.extra = r.extra /\ n.review = r.review /\ n.own = r.own
  BY <1>3 DEF Stored
<1> QED BY <1>4 DEF n

\* ... says nothing that was not, and drops no issue that is there for good.
LEMMA NormalizedIsFaithful ==
  ASSUME NEW role, NEW r, NEW s, NEW run, Stored(r), Kept(role, r, s), Faithful(role, r, s)
  PROVE  LET n == Normalized(role, r, run)
         IN  /\ Faithful(role, n, s)
             /\ n.gen = {} => ~s.extra
             /\ s.status = "complete" /\ InOrder(role, s) /\ Unblocked(role, run) => Satisfies(role, n)
<1> DEFINE n == Normalized(role, r, run)
           issues == GeneratedIssues(role, r, run)
           held == IF r.status = "complete" /\ issues \cap {"output", "dependency"} # {} THEN "incomplete" ELSE r.status
           judged == CASE role \in Gates /\ r.review = "fail" -> "blocked"
                       [] role \in Gates /\ held = "complete" /\ r.review # "pass" -> "incomplete"
                       [] OTHER -> held
           restored == judged = "incomplete" /\ r.gen # {} /\ issues = {} /\ ~r.own /\ r.full
<1>1. n.gen = issues /\ n.status = IF restored THEN "complete" ELSE IF judged \in Statuses THEN judged ELSE "incomplete"
  BY DEF Normalized, Stored
<1>2. Kept(role, n, s)
  BY NormalizedKeeps DEF Kept
<1>3. /\ "unexpected" \in issues <=> s.extra
      /\ "review" \in issues <=> role \in Gates /\ s.review = "none"
      /\ "output" \in issues <=> r.status = "complete" /\ ~s.full
      /\ "dependency" \in issues <=> r.status = "complete" /\ ~Unblocked(role, run)
      /\ "status" \in issues <=> r.status \notin Statuses
      /\ issues \subseteq {"unexpected", "review", "output", "dependency", "status"}
  BY DEF GeneratedIssues, Kept
<1>s. {"complete", "incomplete", "blocked"} \subseteq Statuses
  BY DEF Statuses
<1> HIDE DEF n, issues
<1>4. ASSUME Unfinished(s)
      PROVE  /\ n.status \in Statuses \ {"complete"}
             /\ n.status = "incomplete" /\ n.gen # {} => s.extra \/ (role \in Gates /\ s.review = "none")
  <2>1. /\ r.status \in Statuses \ {"complete"}
        /\ r.status = "incomplete" /\ r.gen # {} => s.extra \/ (role \in Gates /\ s.review = "none")
    BY <1>4 DEF Faithful
  <2>2. held = r.status /\ judged \in {r.status, "blocked"}
    BY <2>1
  <2>3. ~restored
    <3>1. CASE judged = "incomplete"
      BY <1>3, <2>1, <2>2, <3>1
    <3> QED BY <3>1
  <2>4. n.status = judged
    BY <1>1, <1>s, <2>1, <2>2, <2>3
  <2>5. "output" \notin issues /\ "dependency" \notin issues /\ "status" \notin issues
    BY <1>3, <2>1
  <2>6. n.gen # {} => s.extra \/ (role \in Gates /\ s.review = "none")
    BY <1>1, <1>3, <2>5
  <2> QED BY <1>s, <2>1, <2>2, <2>4, <2>6
<1>5. ASSUME s.status = "complete", InOrder(role, s)
      PROVE  /\ n.status = "complete" \/ (n.status = "incomplete" /\ n.gen # {})
             /\ Unblocked(role, run) => Satisfies(role, n)
  <2>1. s.full /\ ~s.own /\ ~s.extra /\ (role \in Gates => s.review = "pass")
    BY <1>5 DEF InOrder
  <2>2. r.full /\ ~r.own /\ (role \in Gates => r.review = "pass")
    BY <2>1 DEF Kept
  <2>3. r.status = "complete" \/ (r.status = "incomplete" /\ r.gen # {})
    BY <1>5 DEF Faithful
  <2>4. issues = IF r.status = "complete" /\ ~Unblocked(role, run) THEN {"dependency"} ELSE {}
    BY <1>3, <1>s, <2>1, <2>3
  <2>5. judged = held
    BY <2>2
  <2>6. CASE issues = {}
    BY <1>1, <1>2, <1>s, <2>1, <2>2, <2>3, <2>5, <2>6 DEF Satisfies, Kept
  <2>7. CASE issues = {"dependency"}
    BY <1>1, <1>s, <2>4, <2>5, <2>7
  <2> QED BY <2>4, <2>6, <2>7
<1>6. n.gen = {} => ~s.extra
  BY <1>1, <1>3
<1> QED BY <1>4, <1>5, <1>6 DEF Faithful, n

\* A batch of reports is judged as it was sent, and so is what was there before.
LEMMA BatchKeeps ==
  ASSUME RawInv, NEW batch \in SUBSET Roles, ApplyBatch(batch) PROVE RawInv'
<1>1. PICK results \in [batch -> RawResults] :
        rawRun' = AppliedResults(rawRun, results) /\ reported' = Replaced(reported, results)
  BY DEF ApplyBatch
<1> DEFINE staged == Replaced(rawRun, results)
           judged == Judged(staged)
<1>2. rawRun' = [role \in DOMAIN staged |-> [staged[role] EXCEPT !.status = judged[role].status, !.gen = judged[role].gen]]
  BY <1>1 DEF AppliedResults
<1>3. /\ DOMAIN staged = DOMAIN rawRun \cup batch
      /\ DOMAIN reported' = DOMAIN staged
      /\ DOMAIN staged \subseteq Roles
  BY <1>1 DEF RawInv, Replaced
<1>4. \A role \in DOMAIN staged :
        /\ role \in batch => staged[role] = results[role] /\ reported'[role] = results[role]
        /\ role \notin batch => /\ role \in DOMAIN reported
                                /\ staged[role] = rawRun[role] /\ reported'[role] = reported[role]
  BY <1>1, <1>3 DEF RawInv, Replaced
<1> HIDE DEF staged
<1>5. /\ DOMAIN judged = DOMAIN staged
      /\ \A role \in DOMAIN staged : judged[role] = Normalized(role, staged[role], judged)
  BY <1>3, JudgedIs
<1> HIDE DEF judged
<1>6. ASSUME NEW role \in DOMAIN staged
      PROVE  /\ Stored(staged[role]) /\ Kept(role, staged[role], reported'[role])
             /\ Faithful(role, staged[role], reported'[role]) /\ reported'[role] \in RawResults
  <2>1. CASE role \in batch
    <3>1. results[role] \in RawResults
      BY <2>1
    <3> DEFINE s == results[role]
    <3>2. /\ s = [Sent(s.status, s.full, s.extra, s.review, s.own) EXCEPT !.gen = s.gen]
          /\ s.full \in BOOLEAN /\ s.extra \in BOOLEAN /\ s.own \in BOOLEAN
      BY <3>1, RawResultsAssumption
    <3> HIDE DEF s
    <3>3. Stored(s)
      BY <3>2 DEF Sent, Stored
    <3>4. Kept(role, s, s) /\ Faithful(role, s, s)
      BY DEF Kept, Faithful, Unfinished
    <3> QED BY <1>4, <2>1, <3>1, <3>3, <3>4 DEF s
  <2>2. CASE role \notin batch
    BY <1>4, <2>2 DEF RawInv
  <2> QED BY <2>1, <2>2
<1>7. ASSUME NEW role \in DOMAIN staged PROVE rawRun'[role] = judged[role]
  <2> DEFINE r == staged[role]
             n == Normalized(role, r, judged)
  <2>1. Stored(r) /\ Stored(n) /\ n.full = r.full /\ n.extra = r.extra /\ n.review = r.review /\ n.own = r.own
    BY <1>6, NormalizedKeeps
  <2>2. rawRun'[role] = [r EXCEPT !.status = n.status, !.gen = n.gen]
    BY <1>2, <1>5
  <2> HIDE DEF r, n
  <2>3. [r EXCEPT !.status = n.status, !.gen = n.gen] = n
    BY <2>1 DEF Stored
  <2> QED BY <1>5, <2>2, <2>3 DEF r, n
<1>8. DOMAIN rawRun' = DOMAIN staged
  BY <1>2
<1>9. \A role : Unblocked(role, rawRun') <=> Unblocked(role, judged)
  <2>1. Completed(rawRun') = Completed(judged)
    BY <1>5, <1>7, <1>8 DEF Completed
  <2> QED BY <2>1 DEF Unblocked
<1>10. ASSUME NEW role \in DOMAIN staged
       PROVE  /\ Stored(rawRun'[role]) /\ Kept(role, rawRun'[role], reported'[role])
              /\ Faithful(role, rawRun'[role], reported'[role])
              /\ rawRun'[role].gen = {} => ~reported'[role].extra
              /\ reported'[role].status = "complete" /\ InOrder(role, reported'[role]) /\ Unblocked(role, rawRun')
                   => Satisfies(role, rawRun'[role])
  <2>1. rawRun'[role] = Normalized(role, staged[role], judged)
    BY <1>5, <1>7
  <2>2. Stored(rawRun'[role]) /\ Kept(role, rawRun'[role], reported'[role])
    BY <1>6, <2>1, NormalizedKeeps DEF Kept
  <2> QED BY <1>6, <1>9, <2>1, <2>2, NormalizedIsFaithful
<1> QED BY <1>3, <1>6, <1>8, <1>10 DEF RawInv

\* The run judges each result as it was last reported.
THEOREM RawInvariant == RawSpec => []RawInv
<1>1. RawInit => RawInv
  BY DEF RawInit, RawInv
<1>2. RawInv /\ [RawNext]_rawVars => RawInv'
  <2> SUFFICES ASSUME RawInv, [RawNext]_rawVars PROVE RawInv'
    OBVIOUS
  <2>1. CASE RawNext
    BY <2>1, BatchKeeps DEF RawNext
  <2>2. CASE UNCHANGED rawVars
    BY <2>2 DEF rawVars, RawInv, Unblocked, Completed
  <2> QED BY <2>1, <2>2
<1> QED BY <1>1, <1>2, PTL DEF RawSpec

\* In whatever order and however often results come, what was reported failed, blocked
\* or unfinished is never taken for complete, and what was in order is not held back once
\* the roles it consumes are complete, however often the runtime judged it before.
THEOREM ResultsAreJudgedAsSent == RawSpec => []JudgedAsSent
<1>1. RawInv => JudgedAsSent
  <2> SUFFICES ASSUME RawInv PROVE JudgedAsSent
    OBVIOUS
  <2>1. ASSUME RunStatus(rawRun) = "complete", NEW role \in Roles PROVE MayComplete(role, reported[role])
    <3>1. DOMAIN rawRun = Completed(rawRun) /\ DOMAIN rawRun = Roles
      BY <2>1 DEF RunStatus
    <3>2. role \in DOMAIN reported /\ Satisfies(role, rawRun[role])
      BY <3>1 DEF RawInv, Completed
    <3>3. Kept(role, rawRun[role], reported[role]) /\ Faithful(role, rawRun[role], reported[role])
      BY <3>2 DEF RawInv
    <3>4. rawRun[role].gen = {} => ~reported[role].extra
      BY <3>2 DEF RawInv
    <3>5. InOrder(role, reported[role])
      BY <3>2, <3>3, <3>4 DEF Kept, InOrder, Satisfies
    <3>6. ~Unfinished(reported[role])
      BY <3>2, <3>3 DEF Faithful, Satisfies
    <3> QED BY <3>5, <3>6 DEF MayComplete, Unfinished
  <2>2. ASSUME NEW role \in DOMAIN reported, reported[role].status = "complete", InOrder(role, reported[role]),
               Unblocked(role, rawRun)
        PROVE  role \in Completed(rawRun)
    BY <2>2 DEF RawInv, Completed
  <2> QED BY <2>1, <2>2 DEF JudgedAsSent
<1> QED BY <1>1, RawInvariant, PTL
=============================================================================
