-------------------------- MODULE CycleJournalProofs --------------------------
(***************************************************************************)
(* What the receipt of a bounded cycle promises, proved for any number of  *)
(* controllers, items and roles and any limits: everything spent is        *)
(* charged in its newest row (SpentIsWritten), and no role is done again   *)
(* or left out (NeitherRepeatedNorSkipped).                                *)
(***************************************************************************)
EXTENDS CycleJournal, TLAPS

Counts == [steps : Nat, claims : Nat, roles : Nat]

\* Where a controller holds its item, and has or has not launched a worker for it.
Unlaunched == {"held", "claimed", "launch"}
Returned == {"back", "returned", "record"}
AtWork == {"intend"} \cup Unlaunched \cup {"working"} \cup Returned
Settling == {"recorded", "acked"}
Between == {"opened", "loop", "reserved", "started", "missed", "admit"}
Pcs == {"entry", "ending"} \cup Between \cup AtWork \cup Settling

ResultType == [did : Nat, status : {"ready", "done", "stopped"}, ok : BOOLEAN, proved : BOOLEAN]
RunningType == [pc : Pcs, prog : [Work -> Nat], done : SUBSET Work, n : Counts,
                item : Work \cup {0}, allow : Nat, result : ResultType, halt : BOOLEAN, sure : BOOLEAN]
CtlType == {Unstarted, Ended} \cup RunningType
Resumable == {"recovery_ready", "claim_settled", "recovery_admitted"}
Events == Resumable \cup {"opened", "step_reserved", "step_started", "claim_intent", "claimed",
                          "claim_not_acquired", "launch_intent", "worker_returned", "result_intent",
                          "result_acknowledged", "terminal", "torn"}
RowType == [event : Events, n : Counts, prog : [Work -> Nat], done : SUBSET Work,
            by : [Work -> Controllers \cup {Nobody}], go : BOOLEAN, sure : BOOLEAN]
JobType == {NoJob} \cup [item : Work, next : Nat, left : Nat]

QueueTypeOK ==
  /\ status \in [Work -> {"ready", "active", "done", "stopped"}]
  /\ claim \in [Work -> Controllers \cup {Nobody, Outsider}]
  /\ stored \in [Work -> Nat]
  /\ doubt \in [Work -> BOOLEAN]
  /\ job \in [Controllers -> JobType]
  /\ outside \in Nat
  /\ ran \subseteq Work \X Nat

JournalTypeOK ==
  /\ ctl \in [Controllers -> CtlType]
  /\ row = NoRow \/ row \in RowType
  /\ used \in Counts
  /\ QueueTypeOK

\* One controller has the lock, and there is a row then, whose charges it has in memory.
LockKept ==
  /\ \A c, d \in Controllers : Locks(c) /\ Locks(d) => c = d
  /\ \A c \in Controllers : Locks(c) => row # NoRow /\ ctl[c].n = row.n
-----------------------------------------------------------------------------
\* What was spent is charged.
Spent ==
  /\ row = NoRow => used = Zero
  /\ row # NoRow => /\ used.steps <= row.n.steps /\ row.n.steps <= MaxSteps
                    /\ used.claims <= row.n.claims /\ row.n.claims <= MaxClaims
                    /\ used.roles <= row.n.roles /\ row.n.roles <= MaxRoles

\* What a controller is about to spend is charged as well.
Charges(c) ==
  /\ Is(c, "entry") => ctl[c].n = Zero
  /\ Is(c, "reserved") => used.steps + 1 <= row.n.steps
  /\ Is(c, "intend") => used.claims + 1 <= row.n.claims
  /\ Is(c, "launch") => used.roles + ctl[c].allow <= row.n.roles
-----------------------------------------------------------------------------
\* The roles of an item that were done are the first m ones.
RanTo(i, m) == \A r \in Nat : <<i, r>> \in ran <=> 1 <= r /\ r <= m

\* Nothing accepted is missing in the queue; and nothing else is there, unless others
\* took part.
Fits(prog) == \A i \in Work : prog[i] <= stored[i] /\ (outside = 0 => prog[i] = stored[i])

\* Where no process is in doubt, what is recorded is what was done; others hold what
\* they claimed, and no process of it is in doubt.
QueueTrue ==
  /\ ~repeated
  /\ \A i \in Work : ~doubt[i] => RanTo(i, stored[i])
  /\ \A i \in Work : claim[i] = Outsider => outside > 0 /\ ~doubt[i]

\* A worker is in doubt, and it is the only one at its item.
JobTrue(c) ==
  LET i == job[c].item
  IN  job[c] # NoJob => /\ doubt[i] /\ claim[i] = c
                        /\ RanTo(i, job[c].next - 1) /\ stored[i] + 1 <= job[c].next

\* What a controller holds nobody else touches, and it knows what was done of it.
HoldsTrue(c) ==
  LET i == ctl[c].item  r == ctl[c].result
  IN  /\ ctl[c].pc \in AtWork \cup Settling => i \in Work
      /\ ctl[c].pc \in Unlaunched \cup {"working"} \cup Returned => status[i] = "active" /\ claim[i] = c
      /\ ctl[c].pc \in {"entry", "intend"} \cup Between \cup Unlaunched => r = NoResult
      /\ ctl[c].pc \in Unlaunched => ~doubt[i]
      /\ ctl[c].pc = "launch" => ctl[c].prog[i] = stored[i]
      /\ ctl[c].pc = "working" => job[c] # NoJob /\ job[c].item = i
      /\ ctl[c].pc \in Returned =>
           /\ r.proved => RanTo(i, stored[i] + r.did) /\ job[c].item # i
           /\ ~r.proved => /\ doubt[i] /\ job[c].item = i /\ job[c] # NoJob
                           /\ stored[i] + r.did + 1 <= job[c].next

\* What a controller accepted fits the queue; once its result is recorded, with it.
AcceptsTrue(c) ==
  /\ Is(c, "entry") /\ row = NoRow => Fits(ctl[c].prog)
  /\ ctl[c].pc \in Between \cup AtWork => Fits(ctl[c].prog)
  /\ ctl[c].pc \in Settling =>
       Fits([ctl[c].prog EXCEPT ![ctl[c].item] = @ + ctl[c].result.did])

\* Where a cycle may be resumed, or just began, so does the row.
RowFits == row # NoRow /\ row.go /\ row.event \in Resumable \cup {"opened"} => Fits(row.prog)

\* The row is no such row while a result is recorded.
RowOf(c) == /\ Is(c, "opened") => row.event = "opened"
            /\ Is(c, "admit") => row.event \in Resumable
            /\ Is(c, "record") => row.event = "result_intent"

Holder(c) == HoldsTrue(c) /\ AcceptsTrue(c) /\ RowOf(c) /\ Charges(c)

JournalInv ==
  /\ JournalTypeOK /\ LockKept /\ Spent /\ QueueTrue /\ RowFits
  /\ \A c \in Controllers : JobTrue(c) /\ Holder(c)
-----------------------------------------------------------------------------
(* Steps of a controller.                                                   *)

Others(c) == Controllers \ {c}
OthersKept(c) == \A d \in Others(c) : ctl'[d] = ctl[d]

\* c is at p now, with n charged; it holds what it held.
Moves(c, p, n) ==
  /\ ctl' \in [Controllers -> CtlType] /\ ctl'[c] \in RunningType /\ OthersKept(c)
  /\ ctl'[c].pc = p /\ ctl'[c].n = n /\ ctl'[c].prog = ctl[c].prog /\ ctl'[c].done = ctl[c].done

Holds(c) == /\ ctl'[c].item = ctl[c].item /\ ctl'[c].allow = ctl[c].allow
            /\ ctl'[c].result = ctl[c].result

\* A controller that is neither idle nor ended is a running one.
LEMMA RunningIsTyped ==
  ASSUME JournalTypeOK, NEW c \in Controllers, ctl[c].pc \notin {"idle", "ended"}
  PROVE  ctl[c] \in RunningType
BY DEF JournalTypeOK, CtlType, Unstarted, Ended

\* To moves a controller, and changes nothing else of it.
LEMMA ToMoves ==
  ASSUME JournalTypeOK, NEW c \in Controllers, ctl[c] \in RunningType, NEW p \in Pcs, To(c, p)
  PROVE  Moves(c, p, ctl[c].n) /\ Holds(c)
<1> DEFINE x == [ctl[c] EXCEPT !.pc = p]
<1>1. ctl' = [ctl EXCEPT ![c] = x]
  BY DEF To
<1>2. x \in RunningType /\ x.pc = p /\ x.n = ctl[c].n /\ x.prog = ctl[c].prog /\ x.item = ctl[c].item
      /\ x.allow = ctl[c].allow /\ x.result = ctl[c].result /\ x.done = ctl[c].done
  BY DEF RunningType
<1> HIDE DEF x
<1>3. ctl' \in [Controllers -> CtlType] /\ ctl'[c] = x /\ OthersKept(c)
  BY <1>1, <1>2 DEF JournalTypeOK, CtlType, OthersKept, Others
<1> QED
  BY <1>2, <1>3 DEF Moves, Holds

\* Charged does so as well, with new charges.
LEMMA ChargedMoves ==
  ASSUME JournalTypeOK, NEW c \in Controllers, ctl[c] \in RunningType, NEW p \in Pcs, NEW n \in Counts,
         Charged(c, n, p)
  PROVE  Moves(c, p, n) /\ Holds(c)
<1> DEFINE x == [ctl[c] EXCEPT !.n = n, !.pc = p]
<1>1. ctl' = [ctl EXCEPT ![c] = x]
  BY DEF Charged
<1>2. x \in RunningType /\ x.pc = p /\ x.n = n /\ x.prog = ctl[c].prog /\ x.item = ctl[c].item
      /\ x.allow = ctl[c].allow /\ x.result = ctl[c].result /\ x.done = ctl[c].done
  BY DEF RunningType
<1> HIDE DEF x
<1>3. ctl' \in [Controllers -> CtlType] /\ ctl'[c] = x /\ OthersKept(c)
  BY <1>1, <1>2 DEF JournalTypeOK, CtlType, OthersKept, Others
<1> QED
  BY <1>2, <1>3 DEF Moves, Holds

\* Unsure ends a controller that holds the lock.
LEMMA UnsureEnds ==
  ASSUME JournalTypeOK, NEW c \in Controllers, ctl[c] \in RunningType, Unsure(c)
  PROVE  /\ ctl' \in [Controllers -> CtlType] /\ OthersKept(c)
         /\ ctl'[c].n = ctl[c].n /\ ctl'[c].pc = "ending"
<1> DEFINE x == [ctl[c] EXCEPT !.pc = "ending", !.sure = FALSE]
<1>1. ctl' = [ctl EXCEPT ![c] = x]
  BY DEF Unsure
<1>2. "ending" \in Pcs
  BY DEF Pcs
<1>3. x \in RunningType /\ x.pc = "ending" /\ x.n = ctl[c].n
  BY <1>2 DEF RunningType
<1> HIDE DEF x
<1> QED
  BY <1>1, <1>3 DEF JournalTypeOK, CtlType, OthersKept, Others

\* A row keeps what it does not name.
LEMMA PutRow ==
  ASSUME row \in RowType, NEW e \in Events, NEW n \in Counts, Put(e, n)
  PROVE  /\ row' \in RowType /\ row'.event = e /\ row'.n = n
         /\ row'.prog = row.prog /\ row'.go = row.go
BY DEF Put, RowType

\* A row of the receipt is a row.
LEMMA RowIsThere == ASSUME row \in RowType PROVE row # NoRow
<1>1. row.event \in Events /\ "none" \notin Events
  BY DEF RowType, Events, Resumable
<1> QED
  BY <1>1 DEF NoRow

\* The same of the next row.
LEMMA NextRowIsThere == ASSUME row' \in RowType PROVE row' # NoRow
<1>1. row'.event \in Events /\ "none" \notin Events
  BY DEF RowType, Events, Resumable
<1> QED
  BY <1>1 DEF NoRow

\* Who has the lock is alone, and the row has its charges.
LEMMA Alone ==
  ASSUME JournalInv, NEW c \in Controllers, Locks(c)
  PROVE  /\ ctl[c] \in RunningType /\ row \in RowType /\ row # NoRow /\ ctl[c].n = row.n /\ ctl[c].n \in Counts
         /\ \A d \in Others(c) : ~Locks(d)
<1>1. ctl[c] \in RunningType
  BY RunningIsTyped DEF JournalInv, Locks
<1> QED
  BY <1>1 DEF JournalInv, JournalTypeOK, LockKept, Others, RunningType

\* Nothing at the queue changes.
QueueKept == UNCHANGED <<status, claim, stored, doubt, job, outside, ran, repeated>>

\* What a step of a controller owes, where the others rest or see nothing of it.
LEMMA ControllerStep ==
  ASSUME JournalInv, NEW c \in Controllers,
         ctl' \in [Controllers -> CtlType], OthersKept(c),
         \/ \A d \in Others(c) : ~Locks(d)
         \/ UNCHANGED <<row, used>> /\ QueueKept,
         row' \in RowType \/ UNCHANGED <<row, stored, outside>>,
         used' \in Counts, QueueTypeOK',
         Locks(c)' => /\ row' # NoRow /\ ctl'[c].n = row'.n
                      /\ \A d \in Others(c) : ~Locks(d),
         Spent', QueueTrue', RowFits', \A d \in Controllers : JobTrue(d)', Holder(c)'
  PROVE  JournalInv'
<1>1. JournalTypeOK'
  BY DEF JournalInv, JournalTypeOK
<1>2. \A d \in Others(c) : Locks(d)' <=> Locks(d)
  BY DEF OthersKept, Locks, Others
<1>3. LockKept'
  <2>1. ASSUME NEW d \in Controllers, NEW e \in Controllers, Locks(d)', Locks(e)' PROVE d = e
    BY <1>2, <2>1 DEF JournalInv, LockKept, Others
  <2>2. ASSUME NEW d \in Others(c), Locks(d)' PROVE row' # NoRow /\ ctl'[d].n = row'.n
    BY <1>2, <2>2 DEF JournalInv, LockKept, Others, OthersKept
  <2> QED
    BY <2>1, <2>2 DEF LockKept, Others
<1>4. ASSUME NEW d \in Others(c) PROVE Holder(d)'
  <2>1. Holder(d) /\ ctl'[d] = ctl[d] /\ d \in Controllers
    BY <1>4 DEF JournalInv, OthersKept, Others
  <2>2. CASE UNCHANGED <<row, used>> /\ QueueKept
    BY <2>1, <2>2 DEF Holder, HoldsTrue, AcceptsTrue, RowOf, Charges, Is, QueueKept, RanTo, Fits
  <2>3. CASE ~Locks(d)
    <3>1. ctl'[d].pc \in {"idle", "entry", "ended"}
      BY <2>1, <2>3 DEF Locks
    <3>2. HoldsTrue(d)' /\ RowOf(d)'
      BY <2>1, <3>1 DEF Holder, HoldsTrue, RowOf, Is, Between, AtWork, Settling, Unlaunched, Returned
    <3>3. AcceptsTrue(d)'
      <4>1. CASE row' \in RowType
        BY <3>1, <4>1, NextRowIsThere DEF AcceptsTrue, Is, AtWork, Settling, Unlaunched, Returned, Between
      <4>2. CASE UNCHANGED <<row, stored, outside>>
        BY <2>1, <3>1, <4>2 DEF Holder, AcceptsTrue, Is, AtWork, Settling, Unlaunched, Returned, Between, Fits
      <4> QED
        BY <4>1, <4>2
    <3>4. Charges(d)'
      BY <2>1, <3>1 DEF Holder, Charges, Is
    <3> QED
      BY <3>2, <3>3, <3>4 DEF Holder
  <2> QED
    BY <2>2, <2>3
<1> QED
  BY <1>1, <1>3, <1>4 DEF JournalInv, Others

\* Where nothing changes at the queue, it stays as true as it was.
LEMMA QueueStays ==
  ASSUME JournalInv, QueueKept
  PROVE  QueueTypeOK' /\ QueueTrue' /\ \A d \in Controllers : JobTrue(d)'
BY DEF JournalInv, JournalTypeOK, QueueTypeOK, QueueTrue, JobTrue, QueueKept, RanTo

\* A step of the holder of the lock that only writes, or only moves on.
LEMMA LockedStep ==
  ASSUME JournalInv, NEW c \in Controllers, Locks(c), QueueKept,
         ctl' \in [Controllers -> CtlType], OthersKept(c),
         row' \in RowType, used' \in Counts, Locks(c)' => ctl'[c].n = row'.n,
         Spent', RowFits', Holder(c)'
  PROVE  JournalInv'
<1>1. QueueTypeOK' /\ QueueTrue' /\ \A d \in Controllers : JobTrue(d)'
  BY QueueStays
<1>2. row' # NoRow
  BY NextRowIsThere
<1>3. \A d \in Others(c) : ~Locks(d)
  BY Alone
<1> QED
  BY <1>1, <1>2, <1>3, ControllerStep
-----------------------------------------------------------------------------
(* Kinds of steps of the holder of the lock.                                *)

\* What the steps that leave the queue alone say of it.
Leaves == UNCHANGED <<queueVars, job, outside, historyVars>>

\* They change neither an item nor what is known of it.
LEMMA LeavesQueue == ASSUME Leaves PROVE QueueKept
BY DEF Leaves, QueueKept, queueVars, historyVars

\* Nothing is owed by who is about to end, or ended.
LEMMA OwesNothing ==
  ASSUME NEW c \in Controllers, ctl'[c].pc \in {"ending", "ended"}
  PROVE  Holder(c)'
BY DEF Holder, HoldsTrue, AcceptsTrue, RowOf, Charges, Is, Between, AtWork, Settling, Unlaunched, Returned

\* It writes its charges in a row, and moves on.
LEMMA Writes ==
  ASSUME JournalInv, NEW c \in Controllers, Locks(c), QueueKept, used' = used,
         NEW p \in Pcs, NEW e \in Events, To(c, p), Put(e, ctl[c].n),
         e \in Resumable => row.event \in Resumable \cup {"opened"}, e # "opened"
  PROVE  /\ Moves(c, p, ctl[c].n) /\ Holds(c)
         /\ row' \in RowType /\ row'.event = e /\ row'.n = row.n
         /\ Holder(c)' => JournalInv'
<1>1. Moves(c, p, ctl[c].n) /\ Holds(c)
  BY Alone, ToMoves DEF JournalInv
<1>2. row' \in RowType /\ row'.event = e /\ row'.n = row.n /\ row'.prog = row.prog /\ row'.go = row.go
  BY Alone, PutRow
<1>3. Spent'
  BY <1>2, Alone, NextRowIsThere DEF JournalInv, Spent
<1>4. RowFits'
  <2>1. Fits(row.prog) => Fits(row.prog)'
    BY <1>2 DEF Fits, QueueKept
  <2> QED
    BY <1>2, <2>1, Alone DEF JournalInv, RowFits
<1>5. ctl'[c].n = row'.n /\ used' \in Counts
  BY <1>1, <1>2, Alone DEF Moves, JournalInv, JournalTypeOK
<1> QED
  BY <1>1, <1>2, <1>3, <1>4, <1>5, LockedStep DEF Moves

\* It moves on, and may have spent what the row has the charge of.
LEMMA MovesOn ==
  ASSUME JournalInv, NEW c \in Controllers, Locks(c), QueueKept, row' = row,
         ctl' \in [Controllers -> CtlType], OthersKept(c), Locks(c)' => ctl'[c].n = ctl[c].n,
         used' \in Counts, Spent', Holder(c)'
  PROVE  JournalInv'
<1>1. RowFits'
  <2>1. Fits(row.prog) => Fits(row.prog)'
    BY DEF Fits, QueueKept
  <2> QED
    BY <2>1 DEF JournalInv, RowFits
<1> QED
  BY <1>1, Alone, LockedStep

\* The same, where it spends nothing.
LEMMA MovesOnly ==
  ASSUME JournalInv, NEW c \in Controllers, Locks(c), QueueKept, row' = row, used' = used,
         ctl' \in [Controllers -> CtlType], OthersKept(c), Locks(c)' => ctl'[c].n = ctl[c].n,
         Holder(c)'
  PROVE  JournalInv'
<1>1. Spent' /\ used' \in Counts
  BY DEF JournalInv, JournalTypeOK, Spent
<1> QED
  BY <1>1, MovesOn
-----------------------------------------------------------------------------
(* The steps that leave the queue alone, one by one.                        *)

\* What a controller knows of a queue that did not change, it still knows.
LEMMA StillFits ==
  ASSUME NEW c \in Controllers, Fits(ctl[c].prog), QueueKept, ctl'[c].prog = ctl[c].prog
  PROVE  Fits(ctl[c].prog)'
BY DEF Fits, QueueKept

\* PublishReady keeps the invariant: what the row accepted since it was opened fits.
LEMMA PublishReadyStep ==
  ASSUME JournalInv, NEW c \in Controllers, PublishReady(c)
  PROVE  JournalInv'
<1>1. Locks(c) /\ Is(c, "opened") /\ row.event = "opened" /\ Fits(ctl[c].prog) /\ ctl[c].result = NoResult
  BY DEF PublishReady, Locks, Is, JournalInv, Holder, HoldsTrue, RowOf, AcceptsTrue, Between
<1>2. QueueKept /\ used' = used /\ To(c, "loop") /\ Put("recovery_ready", ctl[c].n)
  BY LeavesQueue DEF PublishReady, Leaves
<1>3. "loop" \in Pcs /\ "recovery_ready" \in Events
  BY DEF Pcs, Between, Events, Resumable
<1>4. Moves(c, "loop", ctl[c].n) /\ Holds(c) /\ (Holder(c)' => JournalInv')
  BY <1>1, <1>2, <1>3, Writes
<1>5. Fits(ctl[c].prog)'
  BY <1>1, <1>2, <1>4, StillFits DEF Moves
<1>6. Holder(c)'
  BY <1>1, <1>4, <1>5 DEF Moves, Holds, Holder, HoldsTrue, AcceptsTrue, RowOf, Charges, Is, AtWork, Settling, Unlaunched, Returned
<1> QED
  BY <1>4, <1>6
\* Reserve keeps the invariant: the step is charged before it is taken.
LEMMA ReserveStep ==
  ASSUME JournalInv, NEW c \in Controllers, Reserve(c)
  PROVE  JournalInv'
<1> DEFINE n == [ctl[c].n EXCEPT !.steps = @ + 1]
<1>1. Locks(c) /\ Is(c, "loop") /\ Fits(ctl[c].prog) /\ CanStep(ctl[c].n) /\ ctl[c].result = NoResult
  BY DEF Reserve, Locks, Is, JournalInv, Holder, HoldsTrue, AcceptsTrue, Between
<1>2. QueueKept /\ used' = used /\ Charged(c, n, "reserved") /\ Put("step_reserved", n)
  BY LeavesQueue DEF Reserve, Leaves
<1>3. "reserved" \in Pcs /\ "step_reserved" \in Events
  BY DEF Pcs, Between, Events
<1>4. n \in Counts /\ n.steps = row.n.steps + 1 /\ n.claims = row.n.claims /\ n.roles = row.n.roles
  BY <1>1, Alone DEF Counts
<1>5. n.steps <= MaxSteps
  BY <1>1, <1>4, Alone, JournalAssumption DEF CanStep, Counts
<1> HIDE DEF n
<1>6. Moves(c, "reserved", n) /\ Holds(c)
  BY <1>1, <1>2, <1>3, <1>4, Alone, ChargedMoves DEF JournalInv
<1>7. row' \in RowType /\ row'.event = "step_reserved" /\ row'.n = n
  BY <1>1, <1>2, <1>3, <1>4, Alone, PutRow
<1>8. used.steps + 1 <= n.steps
  BY <1>1, <1>4, Alone DEF JournalInv, Spent, JournalTypeOK, Counts
<1>9. Spent'
  BY <1>1, <1>2, <1>4, <1>5, <1>7, <1>8, Alone, NextRowIsThere DEF JournalInv, JournalTypeOK, Spent, Counts
<1>10. RowFits'
  BY <1>7 DEF RowFits, Resumable
<1>11. Fits(ctl[c].prog)'
  BY <1>1, <1>2, <1>6, StillFits DEF Moves
<1>12. Holder(c)'
  BY <1>1, <1>2, <1>6, <1>7, <1>8, <1>11
  DEF Moves, Holds, Holder, HoldsTrue, AcceptsTrue, RowOf, Charges, Is, Between, AtWork, Settling, Unlaunched, Returned
<1> QED
  BY <1>1, <1>2, <1>6, <1>7, <1>9, <1>10, <1>12, LockedStep DEF Moves, JournalInv, JournalTypeOK

\* BeforeStep keeps the invariant: the step it takes is charged.
LEMMA BeforeStepStep ==
  ASSUME JournalInv, NEW c \in Controllers, BeforeStep(c)
  PROVE  JournalInv'
<1>1. Locks(c) /\ Is(c, "reserved") /\ Fits(ctl[c].prog) /\ used.steps + 1 <= row.n.steps /\ ctl[c].result = NoResult
  BY DEF BeforeStep, Locks, Is, JournalInv, Holder, HoldsTrue, Charges, AcceptsTrue, Between
<1>2. QueueKept /\ used' = [used EXCEPT !.steps = @ + 1]
  BY LeavesQueue DEF BeforeStep, Leaves
<1>3. used' \in Counts /\ used'.steps = used.steps + 1 /\ used'.claims = used.claims /\ used'.roles = used.roles
  BY <1>2 DEF JournalInv, JournalTypeOK, Counts
<1>4. CASE Put("step_started", ctl[c].n) /\ To(c, "started")
  <2>1. "started" \in Pcs /\ "step_started" \in Events
    BY DEF Pcs, Between, Events
  <2>2. Moves(c, "started", ctl[c].n) /\ Holds(c)
    BY <1>1, <1>4, <2>1, Alone, ToMoves DEF JournalInv
  <2>3. row' \in RowType /\ row'.event = "step_started" /\ row'.n = row.n
    BY <1>1, <1>4, <2>1, Alone, PutRow
  <2>4. Spent'
    BY <1>1, <1>3, <2>3, Alone, NextRowIsThere DEF JournalInv, JournalTypeOK, Spent, Counts
  <2>5. RowFits'
    BY <2>3 DEF RowFits, Resumable
  <2>6. Fits(ctl[c].prog)'
    BY <1>1, <1>2, <2>2, StillFits DEF Moves
  <2>7. Holder(c)'
    BY <1>1, <2>2, <2>6
    DEF Moves, Holds, Holder, HoldsTrue, AcceptsTrue, RowOf, Charges, Is, Between, AtWork, Settling, Unlaunched, Returned
  <2>8. Locks(c)' => ctl'[c].n = row'.n
    BY <1>1, <2>2, <2>3, Alone DEF Moves
  <2> QED
    BY <1>1, <1>2, <1>3, <2>2, <2>3, <2>4, <2>5, <2>7, <2>8, LockedStep DEF Moves
<1>5. CASE To(c, "ending") /\ row' = row
  <2>1. Moves(c, "ending", ctl[c].n)
    BY <1>1, <1>5, Alone, ToMoves DEF JournalInv, Pcs
  <2>2. Spent'
    BY <1>1, <1>3, <1>5, Alone DEF JournalInv, JournalTypeOK, RowType, Spent, Counts
  <2>3. Holder(c)'
    BY <2>1, OwesNothing DEF Moves
  <2> QED
    BY <1>1, <1>2, <1>3, <1>5, <2>1, <2>2, <2>3, MovesOn DEF Moves
<1> QED
  BY <1>4, <1>5 DEF BeforeStep

\* IntendClaim keeps the invariant: the claim is charged before it is made.
LEMMA IntendClaimStep ==
  ASSUME JournalInv, NEW c \in Controllers, IntendClaim(c)
  PROVE  JournalInv'
<1> DEFINE n == [ctl[c].n EXCEPT !.claims = @ + 1]
<1>1. Locks(c) /\ Is(c, "started") /\ Fits(ctl[c].prog) /\ CanClaim(ctl[c].n)
  BY DEF IntendClaim, Locks, Is, JournalInv, Holder, AcceptsTrue, Between
<1>2. QueueKept /\ used' = used /\ Put("claim_intent", n)
  BY LeavesQueue DEF IntendClaim, Leaves
<1>3. PICK i \in Unfinished(c) :
        ctl' = [ctl EXCEPT ![c].pc = "intend", ![c].n = n, ![c].item = i,
                           ![c].done = @ \cup {j \in Candidates(c) : j < i}]
  BY Zenon DEF IntendClaim
<1>4. n \in Counts /\ n.claims = row.n.claims + 1 /\ n.steps = row.n.steps /\ n.roles = row.n.roles
  BY <1>1, Alone DEF Counts
<1>5. n.claims <= MaxClaims
  BY <1>1, <1>4, Alone, JournalAssumption DEF CanClaim, Counts
<1> HIDE DEF n
<1>6. /\ ctl' \in [Controllers -> CtlType] /\ OthersKept(c) /\ ctl'[c].pc = "intend" /\ ctl'[c].n = n
      /\ ctl'[c].prog = ctl[c].prog /\ ctl'[c].item = i /\ ctl'[c].result = ctl[c].result
  <2> DEFINE more == ctl[c].done \cup {j \in Candidates(c) : j < i}
             x == [ctl[c] EXCEPT !.pc = "intend", !.n = n, !.item = i, !.done = more]
  <2>1. i \in Work /\ more \in SUBSET Work /\ ctl[c] \in RunningType
    BY <1>1, Alone DEF Unfinished, Candidates, RunningType
  <2>2. "intend" \in Pcs
    BY DEF Pcs, AtWork
  <2> HIDE DEF more
  <2>3. x \in RunningType /\ x.pc = "intend" /\ x.n = n /\ x.item = i
        /\ x.prog = ctl[c].prog /\ x.result = ctl[c].result
    BY <1>4, <2>1, <2>2 DEF RunningType
  <2>4. ctl' = [ctl EXCEPT ![c] = x]
    BY <1>3 DEF more
  <2> HIDE DEF x
  <2> QED
    BY <2>3, <2>4 DEF JournalInv, JournalTypeOK, CtlType, OthersKept, Others
<1>7. row' \in RowType /\ row'.event = "claim_intent" /\ row'.n = n
  BY <1>1, <1>2, <1>4, Alone, PutRow DEF Events
<1>8. used.claims + 1 <= n.claims
  BY <1>1, <1>4, Alone DEF JournalInv, Spent, JournalTypeOK, Counts
<1>9. Spent'
  BY <1>1, <1>2, <1>4, <1>5, <1>7, <1>8, Alone, NextRowIsThere DEF JournalInv, JournalTypeOK, Spent, Counts
<1>10. RowFits'
  BY <1>7 DEF RowFits, Resumable
<1>11. Fits(ctl[c].prog)'
  BY <1>1, <1>2, <1>6, StillFits
<1>12. ctl[c].result = NoResult /\ i \in Work
  BY <1>1 DEF Unfinished, Candidates, JournalInv, Holder, HoldsTrue, Is, Between
<1>13. Holder(c)'
  BY <1>2, <1>6, <1>7, <1>8, <1>11, <1>12
  DEF Holder, HoldsTrue, AcceptsTrue, RowOf, Charges, Is, AtWork, Settling, Unlaunched, Returned, Between
<1> QED
  BY <1>1, <1>2, <1>6, <1>7, <1>9, <1>10, <1>13, LockedStep DEF JournalInv, JournalTypeOK
\* MissClaim keeps the invariant: the claim that failed is charged.
LEMMA MissClaimStep ==
  ASSUME JournalInv, NEW c \in Controllers, MissClaim(c)
  PROVE  JournalInv'
<1>1. Locks(c) /\ Is(c, "intend") /\ Fits(ctl[c].prog) /\ used.claims + 1 <= row.n.claims /\ ctl[c].result = NoResult
  BY DEF MissClaim, Locks, Is, JournalInv, Holder, HoldsTrue, Charges, AcceptsTrue, AtWork
<1>2. QueueKept /\ row' = row /\ used' = [used EXCEPT !.claims = @ + 1] /\ To(c, "missed")
  BY LeavesQueue DEF MissClaim, Leaves, CallClaim
<1>3. used' \in Counts /\ used'.claims = used.claims + 1 /\ used'.steps = used.steps /\ used'.roles = used.roles
  BY <1>2 DEF JournalInv, JournalTypeOK, Counts
<1>4. Moves(c, "missed", ctl[c].n) /\ Holds(c)
  BY <1>1, <1>2, Alone, ToMoves DEF JournalInv, Pcs, Between
<1>5. Spent'
  BY <1>1, <1>2, <1>3, Alone DEF JournalInv, JournalTypeOK, RowType, Spent, Counts
<1>6. Fits(ctl[c].prog)'
  BY <1>1, <1>2, <1>4, StillFits DEF Moves
<1>7. Holder(c)'
  BY <1>1, <1>4, <1>6
  DEF Moves, Holds, Holder, HoldsTrue, AcceptsTrue, RowOf, Charges, Is, Between, AtWork, Settling, Unlaunched, Returned
<1> QED
  BY <1>1, <1>2, <1>3, <1>4, <1>5, <1>7, MovesOn DEF Moves

\* WriteClaimed keeps the invariant.
LEMMA WriteClaimedStep ==
  ASSUME JournalInv, NEW c \in Controllers, WriteClaimed(c)
  PROVE  JournalInv'
<1>1. Locks(c) /\ Is(c, "held") /\ Fits(ctl[c].prog) /\ HoldsTrue(c)
  BY DEF WriteClaimed, Locks, Is, JournalInv, Holder, AcceptsTrue, AtWork, Unlaunched
<1>2. QueueKept /\ used' = used /\ To(c, "claimed") /\ Put("claimed", ctl[c].n)
  BY LeavesQueue DEF WriteClaimed, Leaves
<1>3. "claimed" \in Pcs /\ "claimed" \in Events /\ "claimed" \notin Resumable
  BY DEF Pcs, AtWork, Unlaunched, Events, Resumable
<1>4. Moves(c, "claimed", ctl[c].n) /\ Holds(c) /\ (Holder(c)' => JournalInv')
  BY <1>1, <1>2, <1>3, Writes
<1>5. Fits(ctl[c].prog)'
  BY <1>1, <1>2, <1>4, StillFits DEF Moves
<1>6. HoldsTrue(c)'
  BY <1>1, <1>2, <1>4
  DEF QueueKept, Moves, Holds, HoldsTrue, Is, Between, AtWork, Settling, Unlaunched, Returned
<1>7. Holder(c)'
  BY <1>4, <1>5, <1>6 DEF Moves, Holder, AcceptsTrue, RowOf, Charges, Is, Settling
<1> QED
  BY <1>4, <1>7

\* WriteMissed keeps the invariant.
LEMMA WriteMissedStep ==
  ASSUME JournalInv, NEW c \in Controllers, WriteMissed(c)
  PROVE  JournalInv'
<1>1. Locks(c) /\ Is(c, "missed") /\ Fits(ctl[c].prog) /\ ctl[c].result = NoResult
  BY DEF WriteMissed, Locks, Is, JournalInv, Holder, HoldsTrue, AcceptsTrue, Between
<1>2. QueueKept /\ used' = used /\ To(c, "loop") /\ Put("claim_not_acquired", ctl[c].n)
  BY LeavesQueue DEF WriteMissed, Leaves
<1>3. "loop" \in Pcs /\ "claim_not_acquired" \in Events /\ "claim_not_acquired" \notin Resumable
  BY DEF Pcs, Between, Events, Resumable
<1>4. Moves(c, "loop", ctl[c].n) /\ Holds(c) /\ (Holder(c)' => JournalInv')
  BY <1>1, <1>2, <1>3, Writes
<1>5. Fits(ctl[c].prog)'
  BY <1>1, <1>2, <1>4, StillFits DEF Moves
<1>6. Holder(c)'
  BY <1>1, <1>4, <1>5
  DEF Moves, Holds, Holder, HoldsTrue, AcceptsTrue, RowOf, Charges, Is, Between, AtWork, Settling, Unlaunched, Returned
<1> QED
  BY <1>4, <1>6

\* GrantRoles keeps the invariant: the roles are charged before the launch, and what
\* is accepted of the item is what is recorded.
LEMMA GrantRolesStep ==
  ASSUME JournalInv, NEW c \in Controllers, GrantRoles(c)
  PROVE  JournalInv'
<1> DEFINE a == Allowance(ctl[c].n)
           n == [ctl[c].n EXCEPT !.roles = @ + a]
<1>1. Locks(c) /\ Is(c, "claimed") /\ Fits(ctl[c].prog) /\ HoldsTrue(c) /\ Undrifted(ctl[c].prog)
  BY DEF GrantRoles, Locks, Is, JournalInv, Holder, AcceptsTrue, AtWork, Unlaunched
<1>2. QueueKept /\ used' = used /\ Put("launch_intent", n)
  BY LeavesQueue DEF GrantRoles, Leaves
<1>3. ctl' = [ctl EXCEPT ![c].pc = "launch", ![c].n = n, ![c].allow = a]
  BY DEF GrantRoles
<1>4. ctl[c].n \in Counts /\ ctl[c].n = row.n /\ row # NoRow /\ ctl[c].n.roles <= MaxRoles
  BY <1>1, Alone DEF JournalInv, Spent
<1>5. a \in Nat /\ ctl[c].n.roles + a <= MaxRoles
  BY <1>4, JournalAssumption DEF Allowance, Counts
<1> HIDE DEF a
<1>6. n \in Counts /\ n.roles = row.n.roles + a /\ n.steps = row.n.steps /\ n.claims = row.n.claims
  BY <1>4, <1>5 DEF Counts
<1> HIDE DEF n
<1>7. /\ ctl' \in [Controllers -> CtlType] /\ OthersKept(c) /\ ctl'[c].pc = "launch" /\ ctl'[c].n = n
      /\ ctl'[c].prog = ctl[c].prog /\ ctl'[c].item = ctl[c].item /\ ctl'[c].result = ctl[c].result
      /\ ctl'[c].allow = a
  <2> DEFINE x == [ctl[c] EXCEPT !.pc = "launch", !.n = n, !.allow = a]
  <2>1. "launch" \in Pcs /\ ctl[c] \in RunningType
    BY <1>1, Alone DEF Pcs, AtWork, Unlaunched
  <2>2. x \in RunningType /\ x.pc = "launch" /\ x.n = n /\ x.item = ctl[c].item /\ x.allow = a
        /\ x.prog = ctl[c].prog /\ x.result = ctl[c].result
    BY <1>5, <1>6, <2>1 DEF RunningType
  <2>3. ctl' = [ctl EXCEPT ![c] = x]
    BY <1>3
  <2> HIDE DEF x
  <2> QED
    BY <2>2, <2>3 DEF JournalInv, JournalTypeOK, CtlType, OthersKept, Others
<1>8. row' \in RowType /\ row'.event = "launch_intent" /\ row'.n = n
  BY <1>1, <1>2, <1>6, Alone, PutRow DEF Events
<1>9. used.roles + a <= n.roles
  BY <1>4, <1>5, <1>6 DEF JournalInv, Spent, JournalTypeOK, Counts
<1>10. Spent'
  BY <1>2, <1>4, <1>5, <1>6, <1>8, <1>9, NextRowIsThere DEF JournalInv, JournalTypeOK, Spent, Counts
<1>11. RowFits'
  BY <1>8 DEF RowFits, Resumable
<1>12. Fits(ctl[c].prog)'
  BY <1>1, <1>2, <1>7, StillFits
<1>13. HoldsTrue(c)'
  BY <1>1, <1>2, <1>7
  DEF QueueKept, HoldsTrue, Undrifted, Is, Between, AtWork, Settling, Unlaunched, Returned
<1>14. Holder(c)'
  BY <1>2, <1>7, <1>8, <1>9, <1>12, <1>13 DEF Holder, AcceptsTrue, RowOf, Charges, Is, Settling
<1> QED
  BY <1>1, <1>2, <1>7, <1>8, <1>10, <1>11, <1>14, LockedStep DEF JournalInv, JournalTypeOK
\* Who ends has nothing to keep: Disagree, StopCycle and StopIntent.
LEMMA EndingStep ==
  ASSUME JournalInv, NEW c \in Controllers, Disagree(c) \/ StopCycle(c) \/ StopIntent(c)
  PROVE  JournalInv'
<1>1. Locks(c)
  BY DEF Disagree, StopCycle, StopIntent, Is, Locks
<1>2. QueueKept /\ row' = row /\ used' = used
  BY LeavesQueue DEF Disagree, StopCycle, StopIntent, Leaves
<1>3. ctl' \in [Controllers -> CtlType] /\ OthersKept(c) /\ ctl'[c].n = ctl[c].n /\ ctl'[c].pc = "ending"
  <2>1. ctl[c] \in RunningType /\ "ending" \in Pcs
    BY <1>1, Alone DEF Pcs
  <2>2. CASE To(c, "ending")
    BY <2>1, <2>2, ToMoves DEF Moves, JournalInv
  <2>3. CASE Unsure(c)
    BY <2>1, <2>3, UnsureEnds DEF JournalInv
  <2> QED
    BY <2>2, <2>3 DEF Disagree, StopCycle, StopIntent
<1>4. Holder(c)'
  BY <1>3, OwesNothing
<1> QED
  BY <1>1, <1>2, <1>3, <1>4, MovesOnly

\* A controller that is gone: Finish, ControllerDies and Tear.
LEMMA GoneStep ==
  ASSUME JournalInv, NEW c \in Controllers, Finish(c) \/ ControllerDies(c) \/ Tear(c)
  PROVE  JournalInv'
<1>1. ctl' = [ctl EXCEPT ![c] = Ended] /\ QueueKept /\ used' = used
  BY LeavesQueue DEF Finish, ControllerDies, Tear, Leaves
<1>2. ctl' \in [Controllers -> CtlType] /\ OthersKept(c) /\ ctl'[c] = Ended
  BY <1>1 DEF JournalInv, JournalTypeOK, CtlType, OthersKept, Others
<1>3. ctl'[c].pc = "ended"
  BY <1>2 DEF Ended
<1>4. ~Locks(c)' /\ Holder(c)'
  BY <1>3, OwesNothing DEF Locks
<1>5. QueueTypeOK' /\ QueueTrue' /\ \A d \in Controllers : JobTrue(d)'
  BY <1>1, QueueStays
<1>6. CASE row' = row
  <2>1. RowFits' /\ Spent'
    BY <1>1, <1>6 DEF JournalInv, RowFits, Spent, Fits, QueueKept
  <2> QED
    BY <1>1, <1>2, <1>4, <1>5, <1>6, <2>1, ControllerStep DEF QueueKept, JournalInv, JournalTypeOK
<1>7. CASE Finish(c) \/ Tear(c)
  <2>1. Locks(c)
    BY <1>7 DEF Finish, Tear, Is, Locks
  <2>2. row \in RowType /\ row # NoRow /\ \A d \in Others(c) : ~Locks(d)
    BY <2>1, Alone
  <2>3. row' \in RowType /\ row'.n = row.n /\ row'.go = FALSE
    <3>1. ctl[c].sure \in BOOLEAN
      BY <2>1, Alone DEF RunningType
    <3>2. CASE row' = [row EXCEPT !.event = "terminal", !.go = FALSE, !.sure = ctl[c].sure]
      BY <2>2, <3>1, <3>2 DEF RowType, Events
    <3>3. CASE row' = [row EXCEPT !.event = "torn", !.go = FALSE]
      BY <2>2, <3>3 DEF RowType, Events
    <3> QED
      BY <1>7, <3>2, <3>3 DEF Finish, Tear
  <2>4. RowFits'
    BY <2>3 DEF RowFits
  <2>5. Spent'
    BY <1>1, <2>2, <2>3, NextRowIsThere DEF JournalInv, Spent
  <2> QED
    BY <1>1, <1>2, <1>4, <1>5, <2>2, <2>3, <2>4, <2>5, ControllerStep DEF JournalInv, JournalTypeOK
<1> QED
  BY <1>6, <1>7 DEF Finish, ControllerDies, Tear
-----------------------------------------------------------------------------
(* A controller that begins, or settles, has a running record of its own.   *)

\* What Running gives.
LEMMA RunningGives ==
  ASSUME JournalTypeOK, NEW c \in Controllers,
         NEW prog \in [Work -> Nat], NEW done \in SUBSET Work, NEW n \in Counts, NEW p \in Pcs,
         ctl' = [ctl EXCEPT ![c] = Running(prog, done, n, p)]
  PROVE  /\ ctl' \in [Controllers -> CtlType] /\ OthersKept(c) /\ ctl'[c].pc = p /\ ctl'[c].n = n
         /\ ctl'[c].prog = prog /\ ctl'[c].result = NoResult
<1> DEFINE x == Running(prog, done, n, p)
<1>1. NoResult \in ResultType
  BY DEF NoResult, ResultType
<1>2. x \in RunningType /\ x.pc = p /\ x.n = n /\ x.prog = prog /\ x.result = NoResult
  BY <1>1 DEF Running, RunningType
<1> HIDE DEF x
<1>3. ctl' = [ctl EXCEPT ![c] = x]
  BY DEF x
<1> QED
  BY <1>2, <1>3 DEF JournalTypeOK, CtlType, OthersKept, Others

\* A queue fits what is observed of it.
LEMMA ObservedFits == ASSUME JournalTypeOK PROVE Fits(stored)
BY DEF Fits, JournalTypeOK, QueueTypeOK

\* ObserveEntry keeps the invariant.
LEMMA ObserveEntryStep ==
  ASSUME JournalInv, NEW c \in Controllers, ObserveEntry(c)
  PROVE  JournalInv'
<1>1. QueueKept /\ row' = row /\ used' = used
  BY LeavesQueue DEF ObserveEntry, Leaves
<1>2. Zero \in Counts /\ stored \in [Work -> Nat] /\ "entry" \in Pcs
  BY DEF Zero, Counts, JournalInv, JournalTypeOK, QueueTypeOK, Pcs
<1>3. /\ ctl' \in [Controllers -> CtlType] /\ OthersKept(c) /\ ctl'[c].pc = "entry" /\ ctl'[c].n = Zero
      /\ ctl'[c].prog = stored /\ ctl'[c].result = NoResult
  BY <1>2, RunningGives DEF ObserveEntry, JournalInv
<1>4. Fits(ctl[c].prog)'
  BY <1>1, <1>3, ObservedFits DEF JournalInv, Fits, QueueKept
<1>5. Holder(c)'
  BY <1>3, <1>4
  DEF Holder, HoldsTrue, AcceptsTrue, RowOf, Charges, Is, Between, AtWork, Settling, Unlaunched, Returned
<1>6. ~Locks(c)'
  BY <1>3 DEF Locks
<1>7. QueueTypeOK' /\ QueueTrue' /\ \A d \in Controllers : JobTrue(d)'
  BY <1>1, QueueStays
<1>8. RowFits' /\ Spent'
  BY <1>1 DEF JournalInv, RowFits, Spent, Fits, QueueKept
<1> QED
  BY <1>1, <1>3, <1>5, <1>6, <1>7, <1>8, ControllerStep DEF QueueKept, JournalInv, JournalTypeOK

\* Open keeps the invariant: nothing was spent before the first row.
LEMMA OpenStep ==
  ASSUME JournalInv, NEW c \in Controllers, Open(c)
  PROVE  JournalInv'
<1>1. /\ Is(c, "entry") /\ row = NoRow /\ Fits(ctl[c].prog) /\ ctl[c].n = Zero /\ used = Zero
      /\ \A d \in Controllers : ~Locks(d)
  BY DEF Open, Free, Is, JournalInv, Holder, AcceptsTrue, Charges, Spent
<1>2. QueueKept /\ used' = used /\ To(c, "opened")
  BY LeavesQueue DEF Open, Leaves
<1>3. ctl[c] \in RunningType /\ "opened" \in Pcs
  BY <1>1, RunningIsTyped DEF JournalInv, Is, Pcs, Between
<1>4. Moves(c, "opened", Zero) /\ Holds(c)
  BY <1>1, <1>2, <1>3, ToMoves DEF JournalInv
<1>5. row' = [event |-> "opened", n |-> Zero, prog |-> ctl[c].prog, done |-> {},
              by |-> [i \in Work |-> Nobody], go |-> TRUE, sure |-> TRUE]
  BY DEF Open
<1>6. /\ row' \in RowType /\ row'.event = "opened" /\ row'.n = Zero /\ row'.prog = ctl[c].prog
  BY <1>3, <1>5 DEF RowType, RunningType, Events, Zero, Counts
<1>7. Spent'
  BY <1>1, <1>2, <1>6, JournalAssumption DEF Spent, Zero
<1>8. Fits(ctl[c].prog)' /\ RowFits'
  BY <1>1, <1>2, <1>4, <1>6 DEF Moves, Fits, RowFits, QueueKept
<1>9. ctl[c].result = NoResult
  BY <1>1 DEF JournalInv, Holder, HoldsTrue, Is
<1>10. Holder(c)'
  BY <1>4, <1>6, <1>8, <1>9
  DEF Moves, Holds, Holder, HoldsTrue, AcceptsTrue, RowOf, Charges, Is, Between, AtWork, Settling, Unlaunched, Returned
<1>11. QueueTypeOK' /\ QueueTrue' /\ \A d \in Controllers : JobTrue(d)'
  BY <1>2, QueueStays
<1>12. \A d \in Others(c) : ~Locks(d)
  BY <1>1 DEF Others
<1>13. Locks(c)' => row' # NoRow /\ ctl'[c].n = row'.n
  BY <1>4, <1>6, NextRowIsThere DEF Moves
<1> QED
  BY <1>2, <1>4, <1>6, <1>7, <1>8, <1>10, <1>11, <1>12, <1>13, ControllerStep
  DEF Moves, JournalInv, JournalTypeOK

\* Revalidate keeps the invariant: what the row accepted fits the queue.
LEMMA RevalidateStep ==
  ASSUME JournalInv, NEW c \in Controllers, Revalidate(c)
  PROVE  JournalInv'
<1>1. /\ row \in RowType /\ row # NoRow /\ row.event \in Resumable /\ row.go
      /\ \A d \in Controllers : ~Locks(d)
  BY DEF Revalidate, Continuable, Free, JournalInv, JournalTypeOK, Resumable
<1>2. QueueKept /\ used' = used /\ row' = row
  BY LeavesQueue DEF Revalidate, Leaves
<1>3. row.prog \in [Work -> Nat] /\ row.done \in SUBSET Work /\ row.n \in Counts /\ "admit" \in Pcs
  BY <1>1 DEF RowType, Pcs, Between
<1>4. /\ ctl' \in [Controllers -> CtlType] /\ OthersKept(c) /\ ctl'[c].pc = "admit" /\ ctl'[c].n = row.n
      /\ ctl'[c].prog = row.prog /\ ctl'[c].result = NoResult
  BY <1>3, RunningGives DEF Revalidate, JournalInv
<1>5. Fits(row.prog)
  BY <1>1 DEF JournalInv, RowFits
<1>6. Fits(ctl[c].prog)'
  BY <1>2, <1>4, <1>5 DEF Fits, QueueKept
<1>7. Holder(c)'
  BY <1>1, <1>2, <1>4, <1>6
  DEF Holder, HoldsTrue, AcceptsTrue, RowOf, Charges, Is, Between, AtWork, Settling, Unlaunched, Returned
<1>8. QueueTypeOK' /\ QueueTrue' /\ \A d \in Controllers : JobTrue(d)'
  BY <1>2, QueueStays
<1>9. RowFits' /\ Spent'
  BY <1>2 DEF JournalInv, RowFits, Spent, Fits, QueueKept
<1>10. \A d \in Others(c) : ~Locks(d)
  BY <1>1 DEF Others
<1> QED
  BY <1>1, <1>2, <1>4, <1>7, <1>8, <1>9, <1>10, ControllerStep DEF JournalInv, JournalTypeOK

\* Readmit keeps the invariant.
LEMMA ReadmitStep ==
  ASSUME JournalInv, NEW c \in Controllers, Readmit(c)
  PROVE  JournalInv'
<1>1. Locks(c) /\ Is(c, "admit") /\ row.event \in Resumable /\ Fits(ctl[c].prog) /\ ctl[c].result = NoResult
  BY DEF Readmit, Locks, Is, JournalInv, Holder, HoldsTrue, RowOf, AcceptsTrue, Between
<1>2. QueueKept /\ used' = used /\ To(c, "loop") /\ Put("recovery_admitted", ctl[c].n)
  BY LeavesQueue DEF Readmit, Leaves
<1>3. "loop" \in Pcs /\ "recovery_admitted" \in Events
  BY DEF Pcs, Between, Events, Resumable
<1>4. Moves(c, "loop", ctl[c].n) /\ Holds(c) /\ (Holder(c)' => JournalInv')
  BY <1>1, <1>2, <1>3, Writes
<1>5. Fits(ctl[c].prog)'
  BY <1>1, <1>2, <1>4, StillFits DEF Moves
<1>6. Holder(c)'
  BY <1>1, <1>4, <1>5
  DEF Moves, Holds, Holder, HoldsTrue, AcceptsTrue, RowOf, Charges, Is, Between, AtWork, Settling, Unlaunched, Returned
<1> QED
  BY <1>4, <1>6
-----------------------------------------------------------------------------
(* From the return of the worker to the settled row.                        *)

\* HaltMoves: c goes on to the settling of a result, which may be the last one.
LEMMA HaltMoves ==
  ASSUME JournalTypeOK, NEW c \in Controllers, ctl[c] \in RunningType, NEW h \in BOOLEAN,
         ctl' = [ctl EXCEPT ![c].pc = "returned", ![c].halt = h]
  PROVE  Moves(c, "returned", ctl[c].n) /\ Holds(c)
<1> DEFINE x == [ctl[c] EXCEPT !.pc = "returned", !.halt = h]
<1>1. ctl' = [ctl EXCEPT ![c] = x]
  OBVIOUS
<1>2. "returned" \in Pcs
  BY DEF Pcs, AtWork, Returned
<1>3. x \in RunningType /\ x.pc = "returned" /\ x.n = ctl[c].n /\ x.prog = ctl[c].prog /\ x.item = ctl[c].item
      /\ x.allow = ctl[c].allow /\ x.result = ctl[c].result /\ x.done = ctl[c].done
  BY <1>2 DEF RunningType
<1> HIDE DEF x
<1>4. ctl' \in [Controllers -> CtlType] /\ ctl'[c] = x /\ OthersKept(c)
  BY <1>1, <1>3 DEF JournalTypeOK, CtlType, OthersKept, Others
<1> QED
  BY <1>3, <1>4 DEF Moves, Holds

\* NoLaunch keeps the invariant: no process is in doubt, and what is recorded was done.
LEMMA NoLaunchStep ==
  ASSUME JournalInv, NEW c \in Controllers, NoLaunch(c)
  PROVE  JournalInv'
<1> DEFINE i == ctl[c].item
<1>1. Locks(c) /\ ctl[c].pc \in Unlaunched /\ Fits(ctl[c].prog) /\ HoldsTrue(c) /\ JobTrue(c)
  BY DEF NoLaunch, Locks, JournalInv, Holder, AcceptsTrue, AtWork, Unlaunched
<1>2. QueueKept /\ row' = row /\ used' = used /\ ctl' = [ctl EXCEPT ![c].pc = "returned", ![c].halt = TRUE]
  BY LeavesQueue DEF NoLaunch, Leaves
<1>3. Moves(c, "returned", ctl[c].n) /\ Holds(c)
  BY <1>1, <1>2, Alone, HaltMoves DEF JournalInv
<1>4. i \in Work /\ status[i] = "active" /\ claim[i] = c /\ ctl[c].result = NoResult /\ ~doubt[i]
  BY <1>1 DEF HoldsTrue, AtWork
<1>5. RanTo(i, stored[i] + 0)
  <2>1. RanTo(i, stored[i]) /\ stored[i] \in Nat
    BY <1>4 DEF JournalInv, QueueTrue, JournalTypeOK, QueueTypeOK
  <2> QED
    BY <2>1
<1>6. job[c].item # i
  <2>1. job[c] = NoJob => job[c].item = 0
    BY DEF NoJob
  <2> QED
    BY <1>1, <1>4, <2>1, JournalAssumption DEF JobTrue
<1>7. ctl'[c].item = i /\ ctl'[c].result = NoResult /\ ctl'[c].pc = "returned"
  BY <1>3, <1>4 DEF Moves, Holds
<1>8. NoResult.proved = TRUE /\ NoResult.did = 0
  BY DEF NoResult
<1> HIDE DEF i
<1>9. HoldsTrue(c)'
  <2>1. status'[i] = "active" /\ claim'[i] = c /\ job'[c].item # i
    BY <1>2, <1>4, <1>6 DEF QueueKept
  <2>2. ran' = ran /\ stored' = stored
    BY <1>2 DEF QueueKept
  <2>3. RanTo(ctl[c].item, stored[ctl[c].item] + ctl[c].result.did)'
    BY <1>5, <1>7, <1>8, <2>2 DEF RanTo
  <2>4. "returned" \notin {"entry", "intend", "working", "launch"} \cup Between \cup Unlaunched
    BY DEF Between, Unlaunched
  <2> QED
    BY <1>4, <1>7, <1>8, <2>1, <2>3, <2>4 DEF HoldsTrue
<1>10. Fits(ctl[c].prog)'
  BY <1>1, <1>2, <1>3, StillFits DEF Moves
<1>11. Holder(c)'
  BY <1>7, <1>9, <1>10 DEF Holder, AcceptsTrue, RowOf, Charges, Is, Settling
<1> QED
  BY <1>1, <1>2, <1>3, <1>11, MovesOnly DEF Moves

\* What is known of a returned worker is still known where the queue did not change.
LEMMA StillReturned ==
  ASSUME NEW c \in Controllers, HoldsTrue(c), ctl[c].pc \in Returned, ctl'[c].pc \in Returned, Holds(c), QueueKept
  PROVE  HoldsTrue(c)'
<1>1. ctl'[c].pc \notin Between \cup {"entry", "intend", "working"} \cup Unlaunched /\ ctl'[c].pc # "launch"
  BY DEF Between, Unlaunched, Returned
<1> QED
  BY <1>1 DEF HoldsTrue, AtWork, Holds, QueueKept, RanTo

\* WriteReturned keeps the invariant.
LEMMA WriteReturnedStep ==
  ASSUME JournalInv, NEW c \in Controllers, WriteReturned(c)
  PROVE  JournalInv'
<1>1. Locks(c) /\ Is(c, "back") /\ Fits(ctl[c].prog) /\ HoldsTrue(c) /\ ctl[c].pc \in Returned
  BY DEF WriteReturned, Locks, Is, JournalInv, Holder, AcceptsTrue, AtWork, Returned
<1>2. QueueKept /\ used' = used /\ Put("worker_returned", ctl[c].n)
  BY LeavesQueue DEF WriteReturned, Leaves
<1>3. PICK stop \in BOOLEAN :
        ctl' = [ctl EXCEPT ![c].pc = "returned", ![c].halt = stop \/ ~Undrifted(ctl[c].prog)]
  BY DEF WriteReturned
<1>4. (stop \/ ~Undrifted(ctl[c].prog)) \in BOOLEAN
  OBVIOUS
<1>5. Moves(c, "returned", ctl[c].n) /\ Holds(c)
  <2> DEFINE h == stop \/ ~Undrifted(ctl[c].prog)
  <2>1. h \in BOOLEAN /\ ctl' = [ctl EXCEPT ![c].pc = "returned", ![c].halt = h]
    BY <1>3, <1>4
  <2> HIDE DEF h
  <2> QED
    BY <1>1, <2>1, Alone, HaltMoves DEF JournalInv
<1>6. "worker_returned" \in Events /\ "worker_returned" \notin Resumable \cup {"opened"}
  BY DEF Events, Resumable
<1>7. row' \in RowType /\ row'.event = "worker_returned" /\ row'.n = row.n
  BY <1>1, <1>2, <1>6, Alone, PutRow
<1>8. RowFits' /\ Spent'
  BY <1>1, <1>2, <1>6, <1>7, Alone, NextRowIsThere DEF RowFits, JournalInv, Spent
<1>9. HoldsTrue(c)'
  BY <1>1, <1>2, <1>5, StillReturned DEF Moves, Returned
<1>10. Fits(ctl[c].prog)'
  BY <1>1, <1>2, <1>5, StillFits DEF Moves
<1>11. Holder(c)'
  BY <1>5, <1>9, <1>10 DEF Moves, Holder, AcceptsTrue, RowOf, Charges, Is, Settling
<1>12. ctl'[c].n = row'.n
  BY <1>1, <1>5, <1>7, Alone DEF Moves
<1> QED
  BY <1>1, <1>2, <1>5, <1>7, <1>8, <1>11, <1>12, LockedStep DEF Moves, JournalInv, JournalTypeOK

\* WriteIntent keeps the invariant: nobody resumes from this row.
LEMMA WriteIntentStep ==
  ASSUME JournalInv, NEW c \in Controllers, WriteIntent(c)
  PROVE  JournalInv'
<1>1. Locks(c) /\ Is(c, "returned") /\ Fits(ctl[c].prog) /\ HoldsTrue(c) /\ ctl[c].pc \in Returned
  BY DEF WriteIntent, Locks, Is, JournalInv, Holder, AcceptsTrue, AtWork, Returned
<1>2. QueueKept /\ used' = used /\ To(c, "record") /\ Put("result_intent", ctl[c].n)
  BY LeavesQueue DEF WriteIntent, Leaves
<1>3. "record" \in Pcs /\ "result_intent" \in Events /\ "result_intent" \notin Resumable
  BY DEF Pcs, AtWork, Returned, Events, Resumable
<1>4. Moves(c, "record", ctl[c].n) /\ Holds(c) /\ row'.event = "result_intent" /\ (Holder(c)' => JournalInv')
  BY <1>1, <1>2, <1>3, Writes
<1>5. HoldsTrue(c)'
  BY <1>1, <1>2, <1>4, StillReturned DEF Moves, Returned
<1>6. Fits(ctl[c].prog)'
  BY <1>1, <1>2, <1>4, StillFits DEF Moves
<1>7. Holder(c)'
  BY <1>4, <1>5, <1>6 DEF Moves, Holder, AcceptsTrue, RowOf, Charges, Is, Settling
<1> QED
  BY <1>4, <1>7

\* WriteRecorded keeps the invariant.
LEMMA WriteRecordedStep ==
  ASSUME JournalInv, NEW c \in Controllers, WriteRecorded(c)
  PROVE  JournalInv'
<1> DEFINE prog(p, i, r) == [p EXCEPT ![i] = @ + r.did]
<1>1. Locks(c) /\ Is(c, "recorded") /\ ctl[c].item \in Work
      /\ Fits(prog(ctl[c].prog, ctl[c].item, ctl[c].result))
  BY DEF WriteRecorded, Locks, Is, JournalInv, Holder, HoldsTrue, AcceptsTrue, Settling
<1>2. QueueKept /\ used' = used /\ To(c, "acked") /\ Put("result_acknowledged", ctl[c].n)
  BY LeavesQueue DEF WriteRecorded, Leaves
<1>3. "acked" \in Pcs /\ "result_acknowledged" \in Events /\ "result_acknowledged" \notin Resumable
  BY DEF Pcs, Settling, Events, Resumable
<1>4. Moves(c, "acked", ctl[c].n) /\ Holds(c) /\ (Holder(c)' => JournalInv')
  BY <1>1, <1>2, <1>3, Writes
<1>5. Fits(prog(ctl[c].prog, ctl[c].item, ctl[c].result))'
  BY <1>1, <1>2, <1>4 DEF Fits, QueueKept, Moves, Holds
<1>6. Holder(c)'
  BY <1>1, <1>4, <1>5
  DEF Moves, Holds, Holder, HoldsTrue, AcceptsTrue, RowOf, Charges, Is, Between, AtWork, Settling, Unlaunched, Returned
<1> QED
  BY <1>4, <1>6

\* Settle keeps the invariant: what it accepts is what the queue recorded; where it
\* accepts nothing, nobody resumes from the row.
LEMMA SettleStep ==
  ASSUME JournalInv, NEW c \in Controllers, Settle(c)
  PROVE  JournalInv'
<1> DEFINE i == ctl[c].item
           r == ctl[c].result
           prog == IF r.ok THEN [ctl[c].prog EXCEPT ![i] = @ + r.did] ELSE ctl[c].prog
           done == ctl[c].done \cup {j \in {i} : r.ok /\ prog[j] = Roles}
<1>1. Locks(c) /\ Is(c, "acked") /\ i \in Work /\ Fits([ctl[c].prog EXCEPT ![i] = @ + r.did])
  BY DEF Settle, Locks, Is, JournalInv, Holder, HoldsTrue, AcceptsTrue, Settling
<1>2. QueueKept /\ used' = used
  BY LeavesQueue DEF Settle, Leaves
<1>3. PICK halt \in BOOLEAN :
        /\ ~r.ok => halt
        /\ row' = [event |-> "claim_settled", n |-> ctl[c].n, prog |-> prog, done |-> done,
                   by |-> [row.by EXCEPT ![i] = c], go |-> ~halt, sure |-> TRUE]
        /\ ctl' = [ctl EXCEPT ![c] = Running(prog, done, ctl[c].n, IF halt THEN "ending" ELSE "loop")]
  <2>1. PICK stop \in BOOLEAN :
          LET halt == ctl[c].halt \/ ~r.ok \/ stop
          IN  /\ row' = [event |-> "claim_settled", n |-> ctl[c].n, prog |-> prog, done |-> done,
                         by |-> [row.by EXCEPT ![i] = c], go |-> ~halt, sure |-> TRUE]
              /\ ctl' = [ctl EXCEPT ![c] = Running(prog, done, ctl[c].n, IF halt THEN "ending" ELSE "loop")]
    BY DEF Settle
  <2> DEFINE halt == ctl[c].halt \/ ~r.ok \/ stop
  <2>2. halt \in BOOLEAN /\ (~r.ok => halt)
    OBVIOUS
  <2> QED
    BY <2>1, <2>2
<1>4. /\ ctl[c] \in RunningType /\ row \in RowType /\ ctl[c].n = row.n /\ ctl[c].n \in Counts
      /\ ctl[c].prog \in [Work -> Nat] /\ ctl[c].done \in SUBSET Work /\ r \in ResultType
  BY <1>1, Alone DEF RunningType
<1>5. prog \in [Work -> Nat] /\ (r.ok => Fits(prog))
  <2>1. r.did \in Nat
    BY <1>4 DEF ResultType
  <2> QED
    BY <1>1, <1>4, <2>1
<1> HIDE DEF prog
<1>6. done \in SUBSET Work
  BY <1>1, <1>4
<1> HIDE DEF i, r, done
<1> DEFINE p == IF halt THEN "ending" ELSE "loop"
<1>7. p \in Pcs
  BY DEF Pcs, Between
<1>8. /\ ctl' \in [Controllers -> CtlType] /\ OthersKept(c) /\ ctl'[c].pc = p /\ ctl'[c].n = ctl[c].n
      /\ ctl'[c].prog = prog /\ ctl'[c].result = NoResult
  <2> HIDE DEF p
  <2>1. ctl' = [ctl EXCEPT ![c] = Running(prog, done, ctl[c].n, p)]
    BY <1>3 DEF p
  <2> QED
    BY <1>4, <1>5, <1>6, <1>7, <2>1, RunningGives DEF JournalInv
<1>9. row' \in RowType /\ row'.n = row.n /\ row'.prog = prog /\ row'.go = ~halt
  <2>1. [row.by EXCEPT ![i] = c] \in [Work -> Controllers \cup {Nobody}]
    BY <1>1, <1>4 DEF RowType
  <2>2. "claim_settled" \in Events
    BY DEF Events, Resumable
  <2> QED
    BY <1>3, <1>4, <1>5, <1>6, <2>1, <2>2 DEF RowType
<1>10. ~halt => Fits(row.prog)' /\ Fits(ctl[c].prog)'
  BY <1>2, <1>3, <1>5, <1>8, <1>9 DEF Fits, QueueKept
<1>11. RowFits'
  BY <1>9, <1>10 DEF RowFits
<1>12. Spent'
  BY <1>1, <1>2, <1>9, Alone, NextRowIsThere DEF JournalInv, Spent
<1>13. Holder(c)'
  <2>1. CASE halt
    BY <1>8, <2>1, OwesNothing
  <2>2. CASE ~halt
    <3>1. ctl'[c].pc = "loop" /\ Fits(ctl[c].prog)'
      BY <1>8, <1>10, <2>2
    <3> QED
      BY <1>8, <3>1
      DEF Holder, HoldsTrue, AcceptsTrue, RowOf, Charges, Is, Between, AtWork, Settling, Unlaunched, Returned
  <2> QED
    BY <2>1, <2>2
<1>14. ctl'[c].n = row'.n
  BY <1>4, <1>8, <1>9
<1> QED
  BY <1>1, <1>2, <1>8, <1>9, <1>11, <1>12, <1>13, <1>14, LockedStep DEF JournalInv, JournalTypeOK
-----------------------------------------------------------------------------
(* The steps at the queue.                                                  *)

\* Claim keeps the invariant: nobody holds a ready item, and no process of it is in doubt.
LEMMA ClaimStep ==
  ASSUME JournalInv, NEW c \in Controllers, Claim(c)
  PROVE  JournalInv'
<1> DEFINE i == ctl[c].item
<1>1. /\ Locks(c) /\ Is(c, "intend") /\ Fits(ctl[c].prog) /\ used.claims + 1 <= row.n.claims
      /\ ctl[c].result = NoResult /\ i \in Work
  BY DEF Claim, Locks, Is, JournalInv, Holder, HoldsTrue, Charges, AcceptsTrue, AtWork
<1>2. /\ row' = row /\ job' = job /\ outside' = outside /\ ran' = ran /\ repeated' = repeated
      /\ stored' = stored /\ doubt' = doubt /\ used' = [used EXCEPT !.claims = @ + 1]
      /\ status[i] = "ready" /\ ~doubt[i]
      /\ status' = [status EXCEPT ![i] = "active"] /\ claim' = [claim EXCEPT ![i] = c]
  BY DEF Claim, Take, CallClaim, historyVars
<1> HIDE DEF i
<1>3. used' \in Counts /\ used'.claims = used.claims + 1 /\ used'.steps = used.steps /\ used'.roles = used.roles
  BY <1>2 DEF JournalInv, JournalTypeOK, Counts
<1>4. QueueTypeOK'
  BY <1>1, <1>2 DEF JournalInv, JournalTypeOK, QueueTypeOK
<1>5. status'[i] = "active" /\ claim'[i] = c /\ \A j \in Work \ {i} : claim'[j] = claim[j]
  BY <1>1, <1>2 DEF JournalInv, JournalTypeOK, QueueTypeOK
<1>6. QueueTrue'
  BY <1>2, <1>5, JournalAssumption DEF JournalInv, QueueTrue, RanTo
<1>7. ASSUME NEW d \in Controllers PROVE JobTrue(d)'
  <2>1. job[d] # NoJob => job[d].item \in Work /\ job[d].item # i
    BY <1>2 DEF JournalInv, JobTrue, JournalTypeOK, QueueTypeOK, JobType
  <2> QED
    BY <1>2, <1>5, <2>1 DEF JournalInv, JobTrue, RanTo
<1>8. Spent' /\ RowFits'
  BY <1>1, <1>2, <1>3, Alone DEF JournalInv, JournalTypeOK, RowType, Spent, Counts, RowFits, Fits
<1>9. /\ ctl' \in [Controllers -> CtlType] /\ OthersKept(c) /\ ctl'[c].n = ctl[c].n
      /\ Holder(c)'
  <2>1. ctl[c] \in RunningType
    BY <1>1, Alone
  <2>2. CASE Unsure(c)
    BY <2>1, <2>2, UnsureEnds, OwesNothing DEF JournalInv
  <2>3. CASE To(c, "held")
    <3>1. Moves(c, "held", ctl[c].n) /\ Holds(c)
      BY <2>1, <2>3, ToMoves DEF JournalInv, Pcs, AtWork, Unlaunched
    <3>2. Fits(ctl[c].prog)'
      BY <1>1, <1>2, <3>1 DEF Fits, Moves
    <3>3. ~doubt'[i] /\ ctl'[c].item = i /\ ctl'[c].result = NoResult /\ ctl'[c].pc = "held"
      BY <1>1, <1>2, <3>1 DEF Moves, Holds, i
    <3>4. HoldsTrue(c)'
      BY <1>1, <1>5, <3>3 DEF HoldsTrue, Returned
    <3>5. Holder(c)'
      BY <3>2, <3>3, <3>4 DEF Holder, AcceptsTrue, RowOf, Charges, Is, Settling
    <3> QED
      BY <3>1, <3>5 DEF Moves
  <2> QED
    BY <2>2, <2>3 DEF Claim
<1>10. row' \in RowType /\ row' # NoRow /\ ctl'[c].n = row'.n /\ \A d \in Others(c) : ~Locks(d)
  BY <1>1, <1>2, <1>9, Alone
<1> QED
  BY <1>3, <1>4, <1>6, <1>7, <1>8, <1>9, <1>10, ControllerStep

\* Launch keeps the invariant: what the worker goes on from is what was done.
LEMMA LaunchStep ==
  ASSUME JournalInv, NEW c \in Controllers, Launch(c)
  PROVE  JournalInv'
<1> DEFINE i == ctl[c].item
           a == ctl[c].allow
<1>1. /\ Locks(c) /\ Is(c, "launch") /\ Fits(ctl[c].prog) /\ used.roles + a <= row.n.roles
      /\ i \in Work /\ status[i] = "active" /\ claim[i] = c /\ ~doubt[i]
  BY DEF Launch, Locks, Is, JournalInv, Holder, HoldsTrue, Charges, AcceptsTrue, AtWork, Unlaunched
<1>2. /\ row' = row /\ outside' = outside /\ ran' = ran /\ repeated' = repeated
      /\ stored' = stored /\ status' = status /\ claim' = claim
      /\ doubt' = [doubt EXCEPT ![i] = TRUE]
      /\ job' = [job EXCEPT ![c] = [item |-> i, next |-> stored[i] + 1, left |-> a]]
      /\ used' = [used EXCEPT !.roles = @ + a] /\ To(c, "working")
  BY DEF Launch, historyVars
<1>3. ctl[c] \in RunningType /\ a \in Nat /\ stored[i] \in Nat
  BY <1>1, Alone DEF RunningType, JournalInv, JournalTypeOK, QueueTypeOK
<1>4. Moves(c, "working", ctl[c].n) /\ Holds(c)
  BY <1>2, <1>3, ToMoves DEF JournalInv, Pcs, AtWork
<1>5. ctl'[c].item = i /\ ctl'[c].pc = "working"
  BY <1>4 DEF Moves, Holds
<1>6. Fits(ctl[c].prog)'
  BY <1>1, <1>2, <1>4 DEF Fits, Moves
<1>7. RanTo(i, stored[i])
  BY <1>1 DEF JournalInv, QueueTrue
<1> HIDE DEF i, a
<1>8. used' \in Counts /\ used'.roles = used.roles + a /\ used'.steps = used.steps /\ used'.claims = used.claims
  BY <1>2, <1>3 DEF JournalInv, JournalTypeOK, Counts
<1>9. doubt'[i] /\ \A j \in Work \ {i} : doubt'[j] = doubt[j]
  BY <1>1, <1>2 DEF JournalInv, JournalTypeOK, QueueTypeOK
<1> DEFINE new == [item |-> i, next |-> stored[i] + 1, left |-> a]
<1>10. new.item = i /\ new.next = stored[i] + 1 /\ new # NoJob /\ new \in JobType
  BY <1>1, <1>3, JournalAssumption DEF NoJob, JobType
<1>11. job' = [job EXCEPT ![c] = new]
  BY <1>2
<1> HIDE DEF new
<1>12. job'[c] = new /\ \A d \in Others(c) : job'[d] = job[d]
  BY <1>11 DEF JournalInv, JournalTypeOK, QueueTypeOK, Others
<1>13. QueueTypeOK'
  BY <1>1, <1>2, <1>10, <1>11 DEF JournalInv, JournalTypeOK, QueueTypeOK
<1>14. QueueTrue'
  BY <1>1, <1>2, <1>9, JournalAssumption DEF JournalInv, QueueTrue, RanTo
<1>15. ASSUME NEW d \in Controllers PROVE JobTrue(d)'
  <2>1. CASE d = c
    BY <1>1, <1>2, <1>3, <1>7, <1>9, <1>10, <1>12, <2>1 DEF JobTrue, RanTo
  <2>2. CASE d # c
    <3>1. job'[d] = job[d] /\ (job[d] # NoJob => job[d].item \in Work)
      BY <1>12, <2>2 DEF Others, JournalInv, JournalTypeOK, QueueTypeOK, JobType
    <3> QED
      BY <1>2, <1>9, <3>1 DEF JournalInv, JobTrue, RanTo
  <2> QED
    BY <2>1, <2>2
<1>16. Spent' /\ RowFits'
  BY <1>1, <1>2, <1>3, <1>8, Alone DEF JournalInv, JournalTypeOK, RowType, Spent, Counts, RowFits, Fits
<1>17. HoldsTrue(c)'
  BY <1>1, <1>2, <1>5, <1>10, <1>12 DEF HoldsTrue, Between, Unlaunched, Returned
<1>18. Holder(c)'
  BY <1>5, <1>6, <1>17 DEF Holder, AcceptsTrue, RowOf, Charges, Is, Settling
<1>19. row' \in RowType /\ row' # NoRow /\ ctl'[c].n = row'.n /\ \A d \in Others(c) : ~Locks(d)
  BY <1>1, <1>2, <1>4, Alone DEF Moves
<1> QED
  BY <1>4, <1>8, <1>13, <1>14, <1>15, <1>16, <1>18, <1>19, ControllerStep DEF Moves
\* The queue may record more, if others took part.
Grows == /\ \A i \in Work : stored[i] <= stored'[i]
         /\ outside' = 0 => outside = 0 /\ stored' = stored

\* What fits a queue fits it when it grew.
LEMMA FitsMore ==
  ASSUME JournalTypeOK, QueueTypeOK', Grows, NEW prog \in [Work -> Nat], Fits(prog)
  PROVE  Fits(prog)'
<1>1. \A i \in Work : stored[i] \in Nat /\ stored'[i] \in Nat /\ prog[i] \in Nat
  BY DEF JournalTypeOK, QueueTypeOK
<1> QED
  BY <1>1 DEF Fits, Grows

\* Accepting more roles of an item.
LEMMA MoreAccepted ==
  ASSUME NEW f \in [Work -> Nat], NEW x, NEW m \in Nat
  PROVE  [f EXCEPT ![x] = @ + m] \in [Work -> Nat]
<1>1. \A j \in Work : [f EXCEPT ![x] = @ + m][j] \in Nat
  OBVIOUS
<1> QED
  BY <1>1

\* A worker that does one role.
LEMMA OneRoleMore ==
  ASSUME NEW w \in [item : Work, next : Nat, left : Nat], w.left > 0
  PROVE  LET more == [w EXCEPT !.next = @ + 1, !.left = @ - 1]
         IN  more \in [item : Work, next : Nat, left : Nat] /\ more.item = w.item /\ more.next = w.next + 1
<1> DEFINE more == [w EXCEPT !.next = @ + 1, !.left = @ - 1]
<1>1. PICK k \in Nat, l \in Nat : k = w.next + 1 /\ l = w.left - 1
  OBVIOUS
<1>2. [w EXCEPT !.next = k, !.left = l] \in [item : Work, next : Nat, left : Nat]
  OBVIOUS
<1>3. more.item = w.item /\ more.next = w.next + 1
  OBVIOUS
<1>4. more = [w EXCEPT !.next = k, !.left = l]
  BY <1>1
<1> QED
  BY <1>2, <1>3, <1>4

\* A step at the queue that no controller takes.
LEMMA QueueStep ==
  ASSUME JournalInv, UNCHANGED <<ctl, row, used>>, QueueTypeOK', QueueTrue', Grows,
         \A d \in Controllers : JobTrue(d)' /\ HoldsTrue(d)'
  PROVE  JournalInv'
<1>1. JournalTypeOK' /\ LockKept' /\ Spent'
  BY DEF JournalInv, JournalTypeOK, LockKept, Locks, Spent
<1>2. RowFits'
  <2>1. CASE row = NoRow
    BY <2>1 DEF RowFits
  <2>2. CASE row \in RowType
    <3>1. row.prog \in [Work -> Nat]
      BY <2>2 DEF RowType
    <3>3. ASSUME Fits(row.prog) PROVE Fits(row.prog)'
      <4>1. PICK p \in [Work -> Nat] : p = row.prog
        BY <3>1
      <4>2. Fits(p)'
        BY <3>3, <4>1, FitsMore DEF JournalInv
      <4> QED
        BY <4>1, <4>2 DEF Fits
    <3> QED
      BY <3>3 DEF JournalInv, RowFits
  <2> QED
    BY <2>1, <2>2 DEF JournalInv, JournalTypeOK
<1>3. ASSUME NEW d \in Controllers PROVE AcceptsTrue(d)'
  <2>1. CASE ctl[d].pc \in {"idle", "ended"}
    BY <2>1 DEF AcceptsTrue, Is, Between, AtWork, Settling, Unlaunched, Returned
  <2>2. CASE ctl[d].pc \notin {"idle", "ended"}
    <3>1. ctl[d] \in RunningType
      BY <2>2, RunningIsTyped DEF JournalInv
    <3>2. ctl[d].prog \in [Work -> Nat] /\ ctl[d].result.did \in Nat
      BY <3>1 DEF RunningType, ResultType
    <3>3. PICK p \in [Work -> Nat] : p = ctl[d].prog
      BY <3>2
    <3>4. PICK q \in [Work -> Nat] : q = [ctl[d].prog EXCEPT ![ctl[d].item] = @ + ctl[d].result.did]
      <4>1. [ctl[d].prog EXCEPT ![ctl[d].item] = @ + ctl[d].result.did] \in [Work -> Nat]
        BY <3>2, MoreAccepted
      <4> QED
        BY <4>1
    <3>5. (Fits(p) => Fits(p)') /\ (Fits(q) => Fits(q)')
      BY FitsMore DEF JournalInv
    <3>6. AcceptsTrue(d)
      BY DEF JournalInv, Holder
    <3> QED
      BY <3>3, <3>4, <3>5, <3>6 DEF AcceptsTrue, Is, Fits
  <2> QED
    BY <2>1, <2>2
<1>4. ASSUME NEW d \in Controllers PROVE RowOf(d)' /\ Charges(d)'
  BY DEF JournalInv, Holder, RowOf, Charges, Is
<1> QED
  BY <1>1, <1>2, <1>3, <1>4 DEF JournalInv, Holder

\* WorkerRole keeps the invariant: the role was not done before, and no other worker
\* is at the item.
LEMMA WorkerRoleStep ==
  ASSUME JournalInv, NEW c \in Controllers, WorkerRole(c)
  PROVE  JournalInv'
<1>1. PICK i, k : i = job[c].item /\ k = job[c].next
  OBVIOUS
<1>2. /\ UNCHANGED <<ctl, row, used, status, claim, stored, doubt, outside>>
      /\ ran' = ran \cup {<<i, k>>} /\ repeated' = (repeated \/ {<<i, k>>} \cap ran # {})
      /\ job' = [job EXCEPT ![c].next = @ + 1, ![c].left = @ - 1] /\ job[c].left > 0
  BY <1>1 DEF WorkerRole, Do, queueVars
<1>3. job[c] # NoJob /\ i \in Work /\ k \in Nat /\ job[c].left \in Nat /\ job[c] \in [item : Work, next : Nat, left : Nat]
  BY <1>1, <1>2 DEF JournalInv, JournalTypeOK, QueueTypeOK, JobType, NoJob
<1>4. doubt[i] /\ claim[i] = c /\ RanTo(i, k - 1) /\ stored[i] + 1 <= k /\ stored[i] \in Nat
  BY <1>1, <1>3 DEF JournalInv, JobTrue, JournalTypeOK, QueueTypeOK
<1>5. <<i, k>> \notin ran
  BY <1>3, <1>4 DEF RanTo
<1>6. RanTo(i, k)'
  BY <1>2, <1>3, <1>4 DEF RanTo
<1>7. ASSUME NEW j \in Work \ {i}, NEW m PROVE RanTo(j, m)' <=> RanTo(j, m)
  BY <1>2 DEF RanTo
<1> DEFINE more == [job[c] EXCEPT !.next = @ + 1, !.left = @ - 1]
<1>8. more \in JobType /\ more.item = i /\ more.next = k + 1
  <2>2. more \in [item : Work, next : Nat, left : Nat] /\ more.item = i /\ more.next = k + 1
    BY <1>1, <1>2, <1>3, OneRoleMore
  <2> QED
    BY <2>2 DEF JobType
<1>9. job' = [job EXCEPT ![c] = more]
  BY <1>2
<1> HIDE DEF more
<1>10. job'[c] = more /\ \A d \in Others(c) : job'[d] = job[d]
  BY <1>9 DEF JournalInv, JournalTypeOK, QueueTypeOK, Others
<1>11. QueueTypeOK'
  BY <1>2, <1>3, <1>8, <1>9 DEF JournalInv, JournalTypeOK, QueueTypeOK
<1>12. QueueTrue'
  <2>1. ~repeated'
    BY <1>2, <1>5 DEF JournalInv, QueueTrue
  <2>2. \A j \in Work : ~doubt'[j] => RanTo(j, stored[j])'
    BY <1>2, <1>4, <1>7 DEF JournalInv, QueueTrue, JournalTypeOK, QueueTypeOK, RanTo
  <2> QED
    BY <1>2, <2>1, <2>2 DEF JournalInv, QueueTrue
<1>13. ASSUME NEW d \in Controllers PROVE JobTrue(d)'
  <2>1. CASE d = c
    <3>1. job'[c].item = i /\ job'[c].next - 1 = k /\ doubt'[i] /\ claim'[i] = c /\ stored'[i] + 1 <= job'[c].next
      BY <1>2, <1>3, <1>4, <1>8, <1>10
    <3>2. RanTo(job[c].item, job[c].next - 1)'
      BY <1>6, <3>1 DEF RanTo
    <3> QED
      BY <2>1, <3>1, <3>2 DEF JobTrue
  <2>2. CASE d # c
    <3>1. JobTrue(d) /\ job'[d] = job[d]
      BY <1>10, <2>2 DEF JournalInv, Others
    <3>2. job[d] # NoJob => job[d].item \in Work \ {i} /\ job[d].next \in Nat
      BY <1>4, <2>2, <3>1 DEF JobTrue, JournalInv, JournalTypeOK, QueueTypeOK, JobType
    <3>3. job[d] # NoJob => (RanTo(job[d].item, job[d].next - 1) => RanTo(job[d].item, job[d].next - 1)')
      <4>1. SUFFICES ASSUME job[d] # NoJob, RanTo(job[d].item, job[d].next - 1)
                     PROVE  RanTo(job[d].item, job[d].next - 1)'
        OBVIOUS
      <4>2. PICK j, m : j \in Work \ {i} /\ j = job[d].item /\ m = job[d].next - 1
        BY <3>2, <4>1
      <4>3. RanTo(j, m)'
        BY <1>7, <4>1, <4>2
      <4> QED
        BY <3>1, <4>2, <4>3 DEF RanTo
    <3> QED
      BY <1>2, <3>1, <3>3 DEF JobTrue
  <2> QED
    BY <2>1, <2>2
<1>14. ASSUME NEW d \in Controllers PROVE HoldsTrue(d)'
  <2>1. HoldsTrue(d) /\ ctl'[d] = ctl[d]
    BY <1>2 DEF JournalInv, Holder
  <2>2. job'[d].item = job[d].item /\ (job[d] # NoJob => job'[d] # NoJob)
        /\ (job[d] # NoJob => job[d].next <= job'[d].next /\ job[d].next \in Nat /\ job'[d].next \in Nat)
    <3>1. CASE d = c
      BY <1>1, <1>3, <1>8, <1>10, <3>1, JournalAssumption DEF NoJob
    <3>2. CASE d # c
      BY <1>10, <3>2 DEF Others, JournalInv, JournalTypeOK, QueueTypeOK, JobType
    <3> QED
      BY <3>1, <3>2
  <2>3. CASE ctl[d].pc \in Returned
    <3>1. ctl[d].item \in Work /\ claim[ctl[d].item] = d /\ status[ctl[d].item] = "active"
      BY <2>1, <2>3 DEF HoldsTrue, AtWork
    <3>2. ctl[d].result.proved => RanTo(ctl[d].item, stored[ctl[d].item] + ctl[d].result.did)'
      <4>1. SUFFICES ASSUME ctl[d].result.proved
                     PROVE  RanTo(ctl[d].item, stored[ctl[d].item] + ctl[d].result.did)'
        OBVIOUS
      <4>2. RanTo(ctl[d].item, stored[ctl[d].item] + ctl[d].result.did) /\ job[d].item # ctl[d].item
        BY <2>1, <2>3, <4>1 DEF HoldsTrue
      <4>3. ctl[d].item # i
        BY <1>1, <1>4, <3>1, <4>2
      <4> QED
        BY <1>2, <4>2, <4>3 DEF RanTo
    <3>3. ~ctl[d].result.proved => stored[ctl[d].item] + ctl[d].result.did + 1 <= job'[d].next
      <4>1. ctl[d].result.did \in Nat /\ stored[ctl[d].item] \in Nat
        <5>1. ctl[d] \in RunningType
          BY <2>3, RunningIsTyped DEF JournalInv, Returned
        <5> QED
          BY <3>1, <5>1 DEF RunningType, ResultType, JournalInv, JournalTypeOK, QueueTypeOK
      <4> QED
        BY <2>1, <2>2, <2>3, <4>1 DEF HoldsTrue
    <3> QED
      BY <1>2, <2>1, <2>2, <2>3, <3>1, <3>2, <3>3 DEF HoldsTrue, Between, Unlaunched, Returned, Settling
  <2>4. CASE ctl[d].pc \notin Returned
    BY <1>2, <2>1, <2>2, <2>4 DEF HoldsTrue
  <2> QED
    BY <2>3, <2>4
<1>15. Grows
  BY <1>2 DEF Grows, JournalInv, JournalTypeOK, QueueTypeOK
<1> QED
  BY <1>2, <1>11, <1>12, <1>13, <1>14, <1>15, QueueStep
\* A worker that returned did what it may have done: nothing twice, nothing left out.
LEMMA ResultKnown ==
  ASSUME JournalInv, NEW c \in Controllers, Is(c, "working"),
         NEW r \in Results(c, job[c].next - stored[ctl[c].item] - 1)
  PROVE  /\ r \in ResultType
         /\ stored[ctl[c].item] + r.did + 1 = job[c].next
         /\ RanTo(ctl[c].item, stored[ctl[c].item] + r.did)
<1>1. PICK s, k : s = stored[ctl[c].item] /\ k = job[c].next
  OBVIOUS
<1>2. /\ job[c] # NoJob /\ job[c].item = ctl[c].item /\ ctl[c].item \in Work
      /\ RanTo(ctl[c].item, k - 1) /\ s + 1 <= k /\ s \in Nat /\ k \in Nat
  <2>1. job[c] # NoJob /\ job[c].item = ctl[c].item /\ ctl[c].item \in Work
    BY DEF JournalInv, Holder, HoldsTrue, Is, AtWork
  <2> QED
    BY <1>1, <2>1 DEF JournalInv, JobTrue, JournalTypeOK, QueueTypeOK, JobType
<1>3. r.did = k - s - 1 /\ r \in [did : {k - s - 1}, status : {"ready", "done", "stopped"}, ok : BOOLEAN, proved : BOOLEAN]
  BY <1>1 DEF Results
<1>4. k - s - 1 \in Nat /\ s + (k - s - 1) = k - 1
  BY <1>2
<1>5. r \in ResultType
  BY <1>3, <1>4 DEF ResultType
<1> QED
  BY <1>1, <1>2, <1>3, <1>4, <1>5

\* WorkerReturns keeps the invariant.
LEMMA WorkerReturnsStep ==
  ASSUME JournalInv, NEW c \in Controllers, WorkerReturns(c)
  PROVE  JournalInv'
<1> DEFINE i == ctl[c].item
<1>1. /\ Locks(c) /\ Is(c, "working") /\ Fits(ctl[c].prog)
      /\ i \in Work /\ status[i] = "active" /\ claim[i] = c /\ job[c].item = i /\ job[c] # NoJob
  BY DEF WorkerReturns, Locks, Is, JournalInv, Holder, HoldsTrue, AcceptsTrue, AtWork
<1>2. /\ row' = row /\ used' = used /\ outside' = outside /\ ran' = ran /\ repeated' = repeated
      /\ stored' = stored /\ status' = status /\ claim' = claim /\ doubt' = doubt
  BY DEF WorkerReturns, queueVars, historyVars
<1>3. ctl[c] \in RunningType /\ doubt[i]
  BY <1>1, Alone DEF JournalInv, JobTrue
<1>4. CASE Unsure(c) /\ job' = job
  <2>1. QueueKept
    BY <1>2, <1>4 DEF QueueKept
  <2>2. ctl' \in [Controllers -> CtlType] /\ OthersKept(c) /\ ctl'[c].n = ctl[c].n /\ Holder(c)'
    BY <1>3, <1>4, UnsureEnds, OwesNothing DEF JournalInv
  <2> QED
    BY <1>1, <1>2, <2>1, <2>2, MovesOnly
<1>5. ASSUME NEW r \in Results(c, job[c].next - stored[i] - 1),
             ctl' = [ctl EXCEPT ![c].pc = "back", ![c].result = r],
             job' = IF r.proved THEN [job EXCEPT ![c] = NoJob] ELSE job
      PROVE  JournalInv'
  <2>1. /\ r \in ResultType /\ stored[i] + r.did + 1 = job[c].next /\ RanTo(i, stored[i] + r.did)
    BY <1>1, ResultKnown
  <2>2. /\ ctl' \in [Controllers -> CtlType] /\ OthersKept(c) /\ ctl'[c].pc = "back" /\ ctl'[c].n = ctl[c].n
        /\ ctl'[c].prog = ctl[c].prog /\ ctl'[c].item = i /\ ctl'[c].result = r
    <3> DEFINE x == [ctl[c] EXCEPT !.pc = "back", !.result = r]
    <3>1. "back" \in Pcs
      BY DEF Pcs, AtWork, Returned
    <3>2. x \in RunningType /\ x.pc = "back" /\ x.n = ctl[c].n /\ x.prog = ctl[c].prog /\ x.item = i /\ x.result = r
      BY <1>3, <2>1, <3>1 DEF RunningType
    <3>3. ctl' = [ctl EXCEPT ![c] = x]
      BY <1>5
    <3> HIDE DEF x
    <3> QED
      BY <3>2, <3>3 DEF JournalInv, JournalTypeOK, CtlType, OthersKept, Others
  <2>3. /\ \A d \in Others(c) : job'[d] = job[d]
        /\ r.proved => job'[c] = NoJob
        /\ ~r.proved => job'[c] = job[c]
        /\ job' \in [Controllers -> JobType]
    <3>1. CASE r.proved
      BY <1>5, <3>1 DEF JournalInv, JournalTypeOK, QueueTypeOK, JobType, Others
    <3>2. CASE ~r.proved
      BY <1>5, <3>2 DEF JournalInv, JournalTypeOK, QueueTypeOK, Others
    <3> QED
      BY <3>1, <3>2
  <2>4. QueueTypeOK'
    BY <1>2, <2>3 DEF JournalInv, JournalTypeOK, QueueTypeOK
  <2>5. QueueTrue'
    BY <1>2 DEF JournalInv, QueueTrue, RanTo
  <2>6. ASSUME NEW d \in Controllers PROVE JobTrue(d)'
    <3>1. job'[d] = job[d] \/ job'[d] = NoJob
      BY <2>1, <2>3 DEF ResultType, Others
    <3> QED
      BY <1>2, <3>1 DEF JournalInv, JobTrue, RanTo
  <2>7. Spent' /\ RowFits' /\ used' \in Counts
    BY <1>2 DEF JournalInv, JournalTypeOK, Spent, RowFits, Fits
  <2>8. Fits(ctl[c].prog)'
    BY <1>1, <1>2, <2>2 DEF Fits
  <2>9. HoldsTrue(c)'
    <3>1. "back" \notin {"entry", "intend", "working", "launch"} \cup Between \cup Unlaunched
      BY DEF Between, Unlaunched
    <3>2. r.proved => RanTo(ctl[c].item, stored[ctl[c].item] + ctl[c].result.did)' /\ job'[c].item # i
      BY <1>1, <1>2, <2>1, <2>2, <2>3, JournalAssumption DEF RanTo, NoJob
    <3>3. ~r.proved => doubt'[i] /\ job'[c].item = i /\ job'[c] # NoJob /\ stored'[i] + r.did + 1 <= job'[c].next
      <4>1. job[c].next \in Nat
        BY <1>1 DEF JournalInv, JournalTypeOK, QueueTypeOK, JobType
      <4> QED
        BY <1>1, <1>2, <1>3, <2>1, <2>3, <4>1
    <3> HIDE DEF i
    <3> QED
      BY <1>1, <1>2, <2>2, <3>1, <3>2, <3>3 DEF HoldsTrue
  <2>10. Holder(c)'
    BY <2>2, <2>8, <2>9 DEF Holder, AcceptsTrue, RowOf, Charges, Is, Settling
  <2>11. row' \in RowType /\ row' # NoRow /\ ctl'[c].n = row'.n /\ \A d \in Others(c) : ~Locks(d)
    BY <1>1, <1>2, <2>2, Alone
  <2> QED
    BY <2>2, <2>4, <2>5, <2>6, <2>7, <2>10, <2>11, ControllerStep
<1> QED
  BY <1>4, <1>5 DEF WorkerReturns

\* Record keeps the invariant: what it records is what was done, and the row says
\* that a result is being recorded.
LEMMA RecordStep ==
  ASSUME JournalInv, NEW c \in Controllers, Record(c)
  PROVE  JournalInv'
<1> DEFINE i == ctl[c].item
           r == ctl[c].result
<1>1. /\ Locks(c) /\ Is(c, "record") /\ Fits(ctl[c].prog) /\ row.event = "result_intent"
      /\ i \in Work /\ status[i] = "active" /\ claim[i] = c
      /\ r.proved => RanTo(i, stored[i] + r.did) /\ job[c].item # i
      /\ ~r.proved => doubt[i] /\ job[c].item = i /\ stored[i] + r.did + 1 <= job[c].next
  BY DEF Record, Locks, Is, JournalInv, Holder, HoldsTrue, RowOf, AcceptsTrue, AtWork, Returned
<1>2. /\ row' = row /\ claim' = claim /\ job' = job /\ outside' = outside /\ used' = used
      /\ ran' = ran /\ repeated' = repeated
      /\ status' = [status EXCEPT ![i] = r.status] /\ stored' = [stored EXCEPT ![i] = @ + r.did]
      /\ doubt' = [doubt EXCEPT ![i] = @ /\ ~r.proved]
  BY DEF Record, historyVars
<1>3. ctl[c] \in RunningType /\ r \in ResultType /\ ctl[c].prog \in [Work -> Nat] /\ row \in RowType
  BY <1>1, Alone DEF RunningType
<1>4. r.did \in Nat /\ r.status \in {"ready", "done", "stopped"} /\ r.proved \in BOOLEAN
  BY <1>3 DEF ResultType
<1>5. PICK p \in [Work -> Nat], m \in Nat : p = ctl[c].prog /\ m = r.did
  BY <1>3, <1>4
<1> DEFINE both == Unsure(c) \/ To(c, "recorded")
<1>6. both
  BY DEF Record
<1>7. \/ ctl' \in [Controllers -> CtlType] /\ OthersKept(c) /\ ctl'[c].n = ctl[c].n /\ ctl'[c].pc = "ending"
      \/ Moves(c, "recorded", ctl[c].n) /\ Holds(c)
  BY <1>3, <1>6, UnsureEnds, ToMoves DEF JournalInv, Pcs, Settling
<1> HIDE DEF both, i, r
<1>8. stored'[i] = stored[i] + m /\ \A j \in Work \ {i} : stored'[j] = stored[j]
  BY <1>1, <1>2, <1>5 DEF JournalInv, JournalTypeOK, QueueTypeOK
<1>9. (doubt'[i] <=> doubt[i] /\ ~r.proved) /\ \A j \in Work \ {i} : doubt'[j] = doubt[j]
  BY <1>1, <1>2 DEF JournalInv, JournalTypeOK, QueueTypeOK
<1>10. QueueTypeOK'
  <2>1. stored' \in [Work -> Nat]
    BY <1>2, <1>5, MoreAccepted DEF JournalInv, JournalTypeOK, QueueTypeOK
  <2>2. doubt' \in [Work -> BOOLEAN]
    BY <1>2, <1>4 DEF JournalInv, JournalTypeOK, QueueTypeOK
  <2>3. status' \in [Work -> {"ready", "active", "done", "stopped"}]
    BY <1>2, <1>4 DEF JournalInv, JournalTypeOK, QueueTypeOK
  <2> QED
    BY <1>2, <2>1, <2>2, <2>3 DEF JournalInv, JournalTypeOK, QueueTypeOK
<1>11. QueueTrue'
  <2>1. ASSUME NEW j \in Work, ~doubt'[j] PROVE RanTo(j, stored[j])'
    <3>1. CASE j = i
      <4>1. RanTo(i, stored[i] + m)
        BY <1>1, <1>5, <1>9, <2>1, <3>1
      <4> QED
        BY <1>2, <1>8, <3>1, <4>1 DEF RanTo
    <3>2. CASE j # i
      BY <1>2, <1>8, <1>9, <2>1, <3>2 DEF JournalInv, QueueTrue, RanTo
    <3> QED
      BY <3>1, <3>2
  <2>2. ASSUME NEW j \in Work, claim'[j] = Outsider PROVE outside' > 0 /\ ~doubt'[j]
    BY <1>1, <1>2, <1>9, <2>2, JournalAssumption DEF JournalInv, QueueTrue
  <2> QED
    BY <1>2, <2>1, <2>2 DEF JournalInv, QueueTrue
<1>12. ASSUME NEW d \in Controllers PROVE JobTrue(d)'
  <2>1. SUFFICES ASSUME job[d] # NoJob PROVE JobTrue(d)'
    BY <1>2 DEF JobTrue
  <2>2. /\ job[d].item \in Work /\ doubt[job[d].item] /\ claim[job[d].item] = d
        /\ RanTo(job[d].item, job[d].next - 1) /\ stored[job[d].item] + 1 <= job[d].next
    BY <2>1 DEF JournalInv, JobTrue, JournalTypeOK, QueueTypeOK, JobType
  <2>3. CASE job[d].item = i
    <3>1. d = c
      BY <1>1, <2>2, <2>3
    <3>2. ~r.proved /\ stored[i] + m + 1 <= job[d].next
      BY <1>1, <1>5, <2>3, <3>1 DEF r
    <3>3. stored'[i] + 1 <= job[d].next /\ doubt'[i]
      BY <1>1, <1>8, <1>9, <2>2, <2>3, <3>2 DEF JournalInv, JournalTypeOK, QueueTypeOK
    <3> QED
      BY <1>2, <2>2, <2>3, <3>3 DEF JobTrue, RanTo
  <2>4. CASE job[d].item # i
    BY <1>2, <1>8, <1>9, <2>2, <2>4 DEF JobTrue, RanTo
  <2> QED
    BY <2>3, <2>4
<1>13. Spent' /\ RowFits' /\ used' \in Counts
  BY <1>1, <1>2 DEF JournalInv, JournalTypeOK, Spent, RowFits, Resumable
<1>14. Holder(c)'
  <2>1. CASE ctl'[c].pc = "ending"
    BY <2>1, OwesNothing
  <2>2. CASE Moves(c, "recorded", ctl[c].n) /\ Holds(c)
    <3>1. ctl'[c].pc = "recorded" /\ ctl'[c].item = i /\ ctl'[c].prog = p /\ ctl'[c].result.did = m
      BY <1>5, <2>2 DEF Moves, Holds, i, r
    <3>2. PICK h \in Work : h = i
      BY <1>1
    <3>3. ASSUME NEW j \in Work
          PROVE  LET q == [p EXCEPT ![h] = @ + m] IN q[j] <= stored'[j] /\ (outside' = 0 => q[j] = stored'[j])
      <4>1. p[j] <= stored[j] /\ (outside = 0 => p[j] = stored[j]) /\ stored[j] \in Nat /\ p[j] \in Nat
        BY <1>1, <1>5 DEF Fits, JournalInv, JournalTypeOK, QueueTypeOK
      <4>2. CASE j = h
        BY <1>2, <1>8, <3>2, <4>1, <4>2
      <4>3. CASE j # h
        BY <1>2, <1>8, <3>2, <4>1, <4>3
      <4> QED
        BY <4>2, <4>3
    <3>4. Fits([ctl[c].prog EXCEPT ![ctl[c].item] = @ + ctl[c].result.did])'
      BY <3>1, <3>2, <3>3 DEF Fits
    <3> QED
      BY <1>1, <3>1, <3>4
      DEF Holder, HoldsTrue, AcceptsTrue, RowOf, Charges, Is, Between, AtWork, Settling, Unlaunched, Returned
  <2> QED
    BY <1>7, <2>1, <2>2
<1>15. /\ ctl' \in [Controllers -> CtlType] /\ OthersKept(c) /\ ctl'[c].n = ctl[c].n
       /\ row' \in RowType /\ row' # NoRow /\ ctl'[c].n = row'.n /\ \A d \in Others(c) : ~Locks(d)
  BY <1>1, <1>2, <1>7, Alone DEF Moves
<1> QED
  BY <1>10, <1>11, <1>12, <1>13, <1>14, <1>15, ControllerStep
\* Who holds an item has nothing to fear from a step that leaves what it holds alone.
LEMMA HoldsStill ==
  ASSUME JournalInv, ctl' = ctl, job' = job, NEW d \in Controllers, HoldsTrue(d),
         LET i == ctl[d].item
         IN  ctl[d].pc \in Unlaunched \cup {"working"} \cup Returned =>
               /\ status'[i] = status[i] /\ claim'[i] = claim[i] /\ doubt'[i] = doubt[i]
               /\ stored'[i] = stored[i] /\ \A m : RanTo(i, m) => RanTo(ctl[d].item, m)'
  PROVE  HoldsTrue(d)'
<1> DEFINE i == ctl[d].item
           r == ctl[d].result
<1>1. ctl[d].pc \in AtWork \cup Settling => i \in Work
  BY DEF HoldsTrue
<1>2. CASE ctl[d].pc \in Returned
  <2>1. /\ status[i] = "active" /\ claim[i] = d
        /\ r.proved => RanTo(i, stored[i] + r.did) /\ job[d].item # i
        /\ ~r.proved => /\ doubt[i] /\ job[d].item = i /\ job[d] # NoJob
                        /\ stored[i] + r.did + 1 <= job[d].next
    BY <1>2 DEF HoldsTrue
  <2>2. PICK m : m = stored[i] + r.did
    OBVIOUS
  <2>3. r.proved => RanTo(ctl[d].item, stored[ctl[d].item] + ctl[d].result.did)'
    <3>1. SUFFICES ASSUME r.proved PROVE RanTo(ctl[d].item, m)'
      BY <1>2, <2>2 DEF RanTo
    <3> QED
      BY <1>2, <2>1, <2>2, <3>1
  <2>4. ctl[d].pc \notin {"entry", "intend", "working", "launch"} \cup Between \cup Unlaunched
    BY <1>2 DEF Returned, Between, Unlaunched
  <2> QED
    BY <1>1, <1>2, <2>1, <2>3, <2>4 DEF HoldsTrue
<1>3. CASE ctl[d].pc \notin Returned
  BY <1>3 DEF HoldsTrue, Unlaunched
<1> QED
  BY <1>2, <1>3

\* OutsideClaim keeps the invariant: nobody holds a ready item, and no process of it is in doubt.
LEMMA OutsideClaimStep ==
  ASSUME JournalInv, NEW i \in Work, OutsideClaim(i)
  PROVE  JournalInv'
<1>1. /\ UNCHANGED <<ctl, row, job, used, ran, repeated, stored, doubt>> /\ outside' = outside + 1
      /\ status[i] = "ready" /\ ~doubt[i]
      /\ status' = [status EXCEPT ![i] = "active"] /\ claim' = [claim EXCEPT ![i] = Outsider]
  BY DEF OutsideClaim, Take, historyVars
<1>2. outside \in Nat /\ stored \in [Work -> Nat]
  BY DEF JournalInv, JournalTypeOK, QueueTypeOK
<1>3. QueueTypeOK'
  BY <1>1, <1>2 DEF JournalInv, JournalTypeOK, QueueTypeOK
<1>4. \A j \in Work \ {i} : claim'[j] = claim[j] /\ status'[j] = status[j]
  BY <1>1 DEF JournalInv, JournalTypeOK, QueueTypeOK
<1>5. QueueTrue'
  BY <1>1, <1>2, <1>4 DEF JournalInv, QueueTrue, RanTo
<1>6. Grows
  BY <1>1, <1>2 DEF Grows
<1>7. ASSUME NEW d \in Controllers PROVE JobTrue(d)'
  <2>1. job[d] # NoJob => job[d].item \in Work /\ job[d].item # i
    BY <1>1 DEF JournalInv, JobTrue, JournalTypeOK, QueueTypeOK, JobType
  <2> QED
    BY <1>1, <1>4, <2>1 DEF JournalInv, JobTrue, RanTo
<1>8. ASSUME NEW d \in Controllers PROVE HoldsTrue(d)'
  <2>1. HoldsTrue(d)
    BY DEF JournalInv, Holder
  <2>2. ctl[d].pc \in Unlaunched \cup {"working"} \cup Returned => ctl[d].item \in Work \ {i}
    BY <1>1, <2>1 DEF HoldsTrue, AtWork
  <2>3. \A m : RanTo(ctl[d].item, m) => RanTo(ctl[d].item, m)'
    BY <1>1 DEF RanTo
  <2> QED
    BY <1>1, <1>4, <2>1, <2>2, <2>3, HoldsStill
<1> QED
  BY <1>1, <1>3, <1>5, <1>6, <1>7, <1>8, QueueStep

\* RequeueStale keeps the invariant: who held the item is gone.
LEMMA RequeueStaleStep ==
  ASSUME JournalInv, NEW i \in Work, RequeueStale(i)
  PROVE  JournalInv'
<1>1. /\ UNCHANGED <<ctl, row, job, used, outside, ran, repeated, stored, doubt, claim>>
      /\ status' = [status EXCEPT ![i] = "ready"] /\ ctl[claim[i]].pc = "ended"
  BY DEF RequeueStale, historyVars, Is
<1>2. QueueTypeOK'
  BY <1>1 DEF JournalInv, JournalTypeOK, QueueTypeOK
<1>3. \A j \in Work \ {i} : status'[j] = status[j]
  BY <1>1 DEF JournalInv, JournalTypeOK, QueueTypeOK
<1>4. QueueTrue' /\ \A d \in Controllers : JobTrue(d)'
  BY <1>1 DEF JournalInv, QueueTrue, JobTrue, RanTo
<1>5. Grows
  BY <1>1 DEF Grows, JournalInv, JournalTypeOK, QueueTypeOK
<1>6. ASSUME NEW d \in Controllers PROVE HoldsTrue(d)'
  <2>1. HoldsTrue(d)
    BY DEF JournalInv, Holder
  <2>2. ctl[d].pc \in Unlaunched \cup {"working"} \cup Returned => ctl[d].item \in Work \ {i}
    <3>1. "ended" \notin Unlaunched \cup {"working"} \cup Returned
      BY DEF Unlaunched, Returned
    <3> QED
      BY <1>1, <2>1, <3>1 DEF HoldsTrue, AtWork
  <2>3. \A m : RanTo(ctl[d].item, m) => RanTo(ctl[d].item, m)'
    BY <1>1 DEF RanTo
  <2> QED
    BY <1>1, <1>3, <2>1, <2>2, <2>3, HoldsStill
<1> QED
  BY <1>1, <1>2, <1>4, <1>5, <1>6, QueueStep

\* OutsideResult keeps the invariant: others go on from what was done.
LEMMA OutsideResultStep ==
  ASSUME JournalInv, NEW i \in Work, OutsideResult(i)
  PROVE  JournalInv'
<1>1. PICK n \in stored[i]..Roles :
        /\ stored' = [stored EXCEPT ![i] = n]
        /\ Do({<<i, r>> : r \in (stored[i] + 1)..n})
        /\ status' = [status EXCEPT ![i] = IF n = Roles THEN "done" ELSE "ready"]
  BY DEF OutsideResult
<1>2. UNCHANGED <<ctl, row, claim, doubt, job, outside, used>> /\ claim[i] = Outsider
  BY DEF OutsideResult
<1>3. PICK s \in Nat : s = stored[i]
  BY DEF JournalInv, JournalTypeOK, QueueTypeOK
<1>4. n \in Nat /\ s <= n
  BY <1>1, <1>3, JournalAssumption
<1>5. outside > 0 /\ ~doubt[i] /\ RanTo(i, s) /\ outside \in Nat
  BY <1>2, <1>3 DEF JournalInv, QueueTrue, JournalTypeOK, QueueTypeOK
<1>6. PICK new : new = {<<i, r>> : r \in (s + 1)..n}
  OBVIOUS
<1>7. ran' = ran \cup new /\ repeated' = (repeated \/ new \cap ran # {})
  BY <1>1, <1>3, <1>6 DEF Do
<1>8. new \cap ran = {}
  <2>1. ASSUME NEW r \in (s + 1)..n PROVE <<i, r>> \notin ran
    BY <1>3, <1>4, <1>5 DEF RanTo
  <2> QED
    BY <1>6, <2>1
<1>9. RanTo(i, n)'
  <2>1. ASSUME NEW r \in Nat PROVE <<i, r>> \in ran' <=> 1 <= r /\ r <= n
    <3>1. <<i, r>> \in new <=> s + 1 <= r /\ r <= n
      BY <1>3, <1>4, <1>6
    <3> QED
      BY <1>3, <1>4, <1>5, <1>7, <3>1 DEF RanTo
  <2> QED
    BY <2>1 DEF RanTo
<1>10. ASSUME NEW j \in Work \ {i}, NEW m PROVE RanTo(j, m)' <=> RanTo(j, m)
  <2>1. \A r \in Nat : <<j, r>> \notin new
    BY <1>6
  <2> QED
    BY <1>7, <2>1 DEF RanTo
<1>11. stored'[i] = n /\ \A j \in Work \ {i} : stored'[j] = stored[j] /\ status'[j] = status[j]
  BY <1>1 DEF JournalInv, JournalTypeOK, QueueTypeOK
<1>12. QueueTypeOK'
  <2>1. new \subseteq Work \X Nat
    BY <1>3, <1>4, <1>6
  <2> QED
    BY <1>1, <1>2, <1>4, <1>7, <2>1 DEF JournalInv, JournalTypeOK, QueueTypeOK
<1>13. QueueTrue'
  <2>1. ASSUME NEW j \in Work, ~doubt'[j] PROVE RanTo(j, stored[j])'
    <3>1. CASE j = i
      BY <1>9, <1>11, <3>1 DEF RanTo
    <3>2. CASE j # i
      <4>1. RanTo(j, stored[j])
        BY <1>2, <2>1 DEF JournalInv, QueueTrue
      <4>2. PICK m : m = stored[j]
        OBVIOUS
      <4>3. RanTo(j, m)'
        BY <1>10, <3>2, <4>1, <4>2
      <4> QED
        BY <1>11, <3>2, <4>2, <4>3 DEF RanTo
    <3> QED
      BY <3>1, <3>2
  <2> QED
    BY <1>2, <1>7, <1>8, <2>1 DEF JournalInv, QueueTrue
<1>14. Grows
  BY <1>2, <1>3, <1>4, <1>5, <1>11 DEF Grows, JournalInv, JournalTypeOK, QueueTypeOK
<1>15. ASSUME NEW d \in Controllers PROVE JobTrue(d)'
  <2>1. SUFFICES ASSUME job[d] # NoJob PROVE JobTrue(d)'
    BY <1>2 DEF JobTrue
  <2>2. /\ job[d].item \in Work \ {i} /\ doubt[job[d].item] /\ claim[job[d].item] = d
        /\ RanTo(job[d].item, job[d].next - 1) /\ stored[job[d].item] + 1 <= job[d].next
    BY <1>5, <2>1 DEF JournalInv, JobTrue, JournalTypeOK, QueueTypeOK, JobType
  <2>3. PICK j, m : j = job[d].item /\ m = job[d].next - 1
    OBVIOUS
  <2>4. RanTo(j, m)'
    BY <1>10, <2>2, <2>3
  <2> QED
    BY <1>2, <1>11, <2>2, <2>3, <2>4 DEF JobTrue, RanTo
<1>16. ASSUME NEW d \in Controllers PROVE HoldsTrue(d)'
  <2>1. HoldsTrue(d)
    BY DEF JournalInv, Holder
  <2>2. ctl[d].pc \in Unlaunched \cup {"working"} \cup Returned => ctl[d].item \in Work \ {i}
    BY <1>2, <2>1, JournalAssumption DEF HoldsTrue, AtWork
  <2>3. ctl[d].item \in Work \ {i} => \A m : RanTo(ctl[d].item, m) => RanTo(ctl[d].item, m)'
    <3>1. PICK j : j = ctl[d].item
      OBVIOUS
    <3> QED
      BY <1>2, <1>10, <3>1 DEF RanTo
  <2> QED
    BY <1>2, <1>11, <2>1, <2>2, <2>3, HoldsStill
<1> QED
  BY <1>2, <1>12, <1>13, <1>14, <1>15, <1>16, QueueStep
-----------------------------------------------------------------------------
(* The theorems.                                                            *)

\* The invariant holds at first.
LEMMA JournalInvAtFirst ==
  ASSUME JournalInit
  PROVE  JournalInv
<1>1. stored \in [Work -> 0..Roles]
  BY JournalAssumption DEF JournalInit
<1>2. \A i \in Work : stored[i] \in Nat /\ stored[i] <= Roles
  BY <1>1, JournalAssumption
<1>3. ran = {w \in Work \X (1..Roles) : w[2] <= stored[w[1]]}
  BY DEF JournalInit
<1>4. \A i \in Work : RanTo(i, stored[i])
  <2>1. ASSUME NEW i \in Work, NEW r \in Nat PROVE <<i, r>> \in ran <=> 1 <= r /\ r <= stored[i]
    BY <1>2, <1>3, JournalAssumption
  <2> QED
    BY <2>1 DEF RanTo
<1>5. QueueTypeOK
  <2>1. ran \subseteq Work \X Nat
    BY <1>3, JournalAssumption
  <2> QED
    BY <1>1, <2>1, JournalAssumption DEF JournalInit, QueueTypeOK, JobType
<1>6. JournalTypeOK
  BY <1>5 DEF JournalInit, JournalTypeOK, CtlType, Zero, Counts
<1>7. \A c \in Controllers : ctl[c].pc = "idle"
  BY DEF JournalInit, Unstarted
<1>8. LockKept /\ Spent /\ RowFits
  BY <1>7 DEF LockKept, Locks, Spent, RowFits, JournalInit
<1>9. QueueTrue
  BY <1>4 DEF JournalInit, QueueTrue, Nobody, Outsider
<1>10. ASSUME NEW c \in Controllers PROVE JobTrue(c) /\ Holder(c)
  <2>1. JobTrue(c)
    BY DEF JournalInit, JobTrue
  <2> QED
    BY <1>7, <2>1
    DEF Holder, HoldsTrue, AcceptsTrue, RowOf, Charges, Is, Between, AtWork, Settling, Unlaunched, Returned
<1> QED
  BY <1>6, <1>8, <1>9, <1>10 DEF JournalInv

\* Every step keeps the invariant.
LEMMA JournalStep ==
  ASSUME JournalInv, [JournalNext]_journalVars
  PROVE  JournalInv'
<1>1. CASE UNCHANGED journalVars
  BY <1>1
  DEF journalVars, JournalInv, JournalTypeOK, QueueTypeOK, LockKept, Locks, Spent, QueueTrue, RowFits, JobTrue,
      Holder, HoldsTrue, AcceptsTrue, RowOf, Charges, Is, RanTo, Fits
<1>2. ASSUME NEW c \in Controllers,
             \/ ObserveEntry(c) \/ Open(c) \/ PublishReady(c)
             \/ Reserve(c) \/ BeforeStep(c) \/ IntendClaim(c)
             \/ Claim(c) \/ MissClaim(c) \/ WriteClaimed(c) \/ WriteMissed(c)
             \/ GrantRoles(c) \/ NoLaunch(c) \/ Launch(c) \/ WorkerRole(c)
             \/ WorkerReturns(c) \/ WriteReturned(c)
             \/ WriteIntent(c) \/ Record(c) \/ WriteRecorded(c) \/ Disagree(c) \/ Settle(c)
             \/ StopCycle(c) \/ StopIntent(c) \/ Finish(c) \/ ControllerDies(c) \/ Tear(c)
             \/ Revalidate(c) \/ Readmit(c)
      PROVE  JournalInv'
  BY <1>2, ObserveEntryStep, OpenStep, PublishReadyStep, ReserveStep, BeforeStepStep, IntendClaimStep,
     ClaimStep, MissClaimStep, WriteClaimedStep, WriteMissedStep, GrantRolesStep, NoLaunchStep, LaunchStep,
     WorkerRoleStep, WorkerReturnsStep, WriteReturnedStep, WriteIntentStep, RecordStep, WriteRecordedStep,
     SettleStep, EndingStep, GoneStep, RevalidateStep, ReadmitStep
<1>3. ASSUME NEW i \in Work, OutsideClaim(i) \/ OutsideResult(i) \/ RequeueStale(i)
      PROVE  JournalInv'
  BY <1>3, OutsideClaimStep, OutsideResultStep, RequeueStaleStep
<1> QED
  BY <1>1, <1>2, <1>3 DEF JournalNext

\* The invariant holds in every run of any number of controllers.
THEOREM JournalInvariant == JournalSpec => []JournalInv
<1>1. JournalInit => JournalInv
  BY JournalInvAtFirst
<1>2. JournalInv /\ [JournalNext]_journalVars => JournalInv'
  BY JournalStep
<1> QED
  BY <1>1, <1>2, PTL DEF JournalSpec

\* Whatever the controllers of a cycle spent together is charged in its newest row,
\* within its limits, wherever they die and resume (_bounded_budget_reduce, _append).
THEOREM SpentIsCharged == JournalSpec => []SpentIsWritten
<1>1. JournalInv => SpentIsWritten
  <2> SUFFICES ASSUME JournalInv PROVE SpentIsWritten
    OBVIOUS
  <2>1. DOMAIN Zero = {"steps", "claims", "roles"}
    BY DEF Zero
  <2>2. CASE row = NoRow
    <3>1. used = Zero /\ Zero.steps = 0 /\ Zero.claims = 0 /\ Zero.roles = 0
      BY <2>2 DEF JournalInv, Spent, Zero
    <3> QED
      BY <2>1, <2>2, <3>1, JournalAssumption DEF SpentIsWritten
  <2>3. CASE row # NoRow
    BY <2>1, <2>3 DEF JournalInv, Spent, SpentIsWritten
  <2> QED
    BY <2>2, <2>3
<1> QED
  BY <1>1, JournalInvariant, PTL

\* No role is done a second time and none is left out, however the controllers die and
\* resume: a worker goes on from what was done, and a resumed cycle from what the queue
\* records (_continuable_tail, _revalidate_cycle_recovery, record_result).
THEOREM RolesAreDoneOnce == JournalSpec => []NeitherRepeatedNorSkipped
<1>1. JournalInv => NeitherRepeatedNorSkipped
  <2> SUFFICES ASSUME JournalInv PROVE NeitherRepeatedNorSkipped
    OBVIOUS
  <2>1. ASSUME NEW c \in Controllers, Is(c, "launch")
        PROVE  ctl[c].prog[ctl[c].item] = stored[ctl[c].item] /\ DoneOf(ctl[c].item) = 1..stored[ctl[c].item]
    <3>1. /\ ctl[c].item \in Work /\ ~doubt[ctl[c].item]
          /\ ctl[c].prog[ctl[c].item] = stored[ctl[c].item]
      BY <2>1 DEF JournalInv, Holder, HoldsTrue, Is, AtWork, Unlaunched
    <3>2. RanTo(ctl[c].item, stored[ctl[c].item]) /\ stored[ctl[c].item] \in Nat /\ ran \subseteq Work \X Nat
      BY <3>1 DEF JournalInv, QueueTrue, JournalTypeOK, QueueTypeOK
    <3>3. DoneOf(ctl[c].item) = {r \in Nat : <<ctl[c].item, r>> \in ran}
      BY <3>2 DEF DoneOf
    <3> QED
      BY <3>1, <3>2, <3>3 DEF RanTo
  <2>2. Continuable => Fits(row.prog)
    BY DEF JournalInv, RowFits, Continuable, Resumable
  <2> QED
    BY <2>1, <2>2 DEF NeitherRepeatedNorSkipped, JournalInv, QueueTrue, Fits
<1> QED
  BY <1>1, JournalInvariant, PTL
=============================================================================
