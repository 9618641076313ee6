---------------------------- MODULE ConsentProofs ----------------------------
(***************************************************************************)
(* Proofs about what people consent to.                                    *)
(*                                                                         *)
(* ApprovalInbox, for any number of operators, materials, decisions,       *)
(* revisions and grants: a person is asked at most once for a revision, a  *)
(* reported card is shown as it is, an answer stands, and a reopening      *)
(* never buries an attempt that may still answer otherwise.                *)
(*                                                                         *)
(* AzureReconcile, for any board, change lists and number of proposals,    *)
(* requests and edits: what "applied" reported is on the board, a PATCH    *)
(* that takes effect spares the tags that people set, and the patches of a *)
(* proposal take effect in order and at most once.                         *)
(***************************************************************************)
EXTENDS AzureReconcile, ApprovalInbox, FiniteSetTheorems, SequenceTheorems, TLAPS

-----------------------------------------------------------------------------
(* The inbox: the inductive invariant. *)

AnyMaterial == Materials \cup {"none"}
AnyDecision == Decisions \cup {"none"}
Grants == [rev : Nat, material : AnyMaterial, decision : AnyDecision, from : Nat]
RetiredCards == [rev : Nat, material : AnyMaterial, answer : SUBSET Grants]
CardType == [rev : 0..MaxRevision, material : AnyMaterial, answer : SUBSET Grants, updated : Nat,
             history : Seq(RetiredCards)]
Stages == {"idle", "review", "report", "exported", "ask", "asked", "import", "verified"}
OperatorType == [pc : Stages, request : AnyMaterial, rev : Nat, decision : AnyDecision,
                 response : SUBSET Grants]

InboxTypes == /\ card \in CardType
              /\ intent \in [rev : Nat, material : AnyMaterial, decision : AnyDecision]
              /\ op \in [Operators -> OperatorType]
              /\ signed \subseteq Grants
              /\ clock \in Nat
              /\ asked \in Seq(Nat)

One(S) == S # {} /\ \A x, y \in S : x = y

\* A card has no answer, or one that was signed for what it shows; it keeps one
\* record for each revision before its own.
CardHolds == /\ card.answer = {} \/ One(card.answer)
             /\ card.answer \subseteq signed
             /\ \A g \in card.answer : g.rev = card.rev /\ g.material = card.material
             /\ Len(card.history) = IF card.rev = 0 THEN 0 ELSE card.rev - 1

\* The lock is held by those who write the card and its review; what is reported is
\* what the card is.
LockHolds == /\ inbox = {p \in Operators : op[p].pc \in {"review", "report"}}
             /\ inbox = {} \/ One(inbox)
             /\ \A p \in Operators : OpAt(p, "report") => shown = <<card.rev, card.material>>

\* What is imported is one grant that was signed.
Carried(p) == op[p].pc \in {"import", "verified"} => One(op[p].response) /\ op[p].response \subseteq signed

\* An attempt to ask is for a revision up to that of the latest intent, and the
\* latest attempt asks for the decision that the intent records.
Intended(p) == op[p].pc \in {"ask", "asked"} =>
                 /\ 0 < op[p].rev /\ op[p].rev <= intent.rev
                 /\ op[p].rev = intent.rev => op[p].decision = intent.decision

\* No revision is asked for twice, neither by those who asked nor by those who will.
AskedOnce == /\ intent.rev <= card.rev
             /\ \A i \in DOMAIN asked : asked[i] <= intent.rev
             /\ \A i, j \in DOMAIN asked : asked[i] = asked[j] => i = j
             /\ \A p \in Operators : OpAt(p, "ask") => \A i \in DOMAIN asked : asked[i] # op[p].rev
             /\ \A p, q \in Operators : OpAt(p, "ask") /\ OpAt(q, "ask") /\ op[p].rev = op[q].rev => p = q

InboxInv == /\ InboxTypes /\ CardHolds /\ LockHolds /\ AskedOnce
            /\ \A p \in Operators : Carried(p) /\ Intended(p)

-----------------------------------------------------------------------------
(* The inbox: parts of a step. *)

\* A set with one element is that of any choice from it, and has cardinality one.
LEMMA OneOf == \A S : One(S) => /\ S = {CHOOSE x \in S : TRUE}
                                /\ Cardinality(S) = 1
<1> SUFFICES ASSUME NEW S, One(S) PROVE S = {CHOOSE x \in S : TRUE} /\ Cardinality(S) = 1
    OBVIOUS
<1>1. PICK y : y = CHOOSE x \in S : TRUE
  OBVIOUS
<1>2. y \in S
  BY <1>1 DEF One
<1>3. S = {y}
  BY <1>2 DEF One
<1>4. Cardinality({y}) = 1
  BY FS_Singleton
<1> QED BY <1>1, <1>3, <1>4

\* An operator's step changes its own record alone.
LEMMA OperatorMoves ==
  ASSUME InboxTypes, NEW p \in Operators, NEW x \in OperatorType, op' = [op EXCEPT ![p] = x]
  PROVE  /\ op' \in [Operators -> OperatorType] /\ op'[p] = x
         /\ \A q \in Operators \ {p} : op'[q] = op[q]
BY DEF InboxTypes

\* An operator that goes on keeps what it works with.
LEMMA OpToMoves ==
  ASSUME InboxTypes, NEW p \in Operators, NEW pc \in Stages, OpTo(p, pc)
  PROVE  \E x \in OperatorType :
           /\ x.pc = pc /\ x.rev = op[p].rev /\ x.decision = op[p].decision
           /\ x.request = op[p].request /\ x.response = op[p].response
           /\ op' = [op EXCEPT ![p] = x]
<1>1. op[p] \in OperatorType /\ DOMAIN op = Operators
  BY DEF InboxTypes
<1>2. PICK x : x = [op[p] EXCEPT !.pc = pc]
  OBVIOUS
<1>3. /\ x \in OperatorType /\ x.pc = pc /\ x.rev = op[p].rev /\ x.decision = op[p].decision
      /\ x.request = op[p].request /\ x.response = op[p].response
  BY <1>1, <1>2 DEF OperatorType
<1>4. op' = [op EXCEPT ![p] = x]
  BY <1>1, <1>2 DEF OpTo, OperatorType
<1> QED BY <1>3, <1>4

\* An idle operator holds nothing.
LEMMA IdleOperator == NoOperator \in OperatorType /\ NoOperator.pc = "idle"
BY DEF NoOperator, OperatorType, Stages, AnyMaterial, AnyDecision

\* A step that neither writes the card nor begins or makes an attempt to ask.
LEMMA AsideKeeps ==
  ASSUME InboxInv, NEW p \in Operators, NEW x \in OperatorType, op' = [op EXCEPT ![p] = x],
         UNCHANGED <<card, shown, intent, asked, clock>>, inbox' = inbox \ {p},
         signed \subseteq signed', signed' \subseteq Grants,
         x.pc \in {"idle", "exported", "import", "verified"},
         x.pc \in {"import", "verified"} => One(x.response) /\ x.response \subseteq signed'
  PROVE  InboxInv'
<1>1. /\ op' \in [Operators -> OperatorType] /\ op'[p] = x
      /\ \A q \in Operators \ {p} : op'[q] = op[q]
  BY OperatorMoves DEF InboxInv
<1>2. InboxTypes'
  BY <1>1 DEF InboxInv, InboxTypes
<1>3. CardHolds'
  BY DEF InboxInv, CardHolds
<1>4. LockHolds'
  <2>1. inbox' = {q \in Operators : op'[q].pc \in {"review", "report"}}
    BY <1>1 DEF InboxInv, LockHolds
  <2>2. inbox' = {} \/ One(inbox')
    BY DEF InboxInv, LockHolds, One
  <2>3. \A q \in Operators : op'[q].pc = "report" => shown' = <<card'.rev, card'.material>>
    BY <1>1 DEF InboxInv, LockHolds, OpAt
  <2> QED BY <2>1, <2>2, <2>3 DEF LockHolds, OpAt
<1>5. AskedOnce'
  <2>1. \A q \in Operators : op'[q].pc = "ask" => op'[q] = op[q]
    BY <1>1
  <2> QED BY <2>1 DEF InboxInv, AskedOnce, OpAt
<1>6. ASSUME NEW q \in Operators PROVE Carried(q)' /\ Intended(q)'
  <2>1. CASE q = p
    BY <1>1, <2>1 DEF Carried, Intended
  <2>2. CASE q # p
    BY <1>1, <2>2 DEF InboxInv, Carried, Intended
  <2> QED BY <2>1, <2>2
<1> QED BY <1>2, <1>3, <1>4, <1>5, <1>6 DEF InboxInv

\* Who takes the lock to write may make a new card, with nothing asked of it yet.
LEMMA WritingKeeps ==
  ASSUME InboxInv, NEW p \in Operators, OpAt(p, "idle"), OpTo(p, "review"), inbox = {}, inbox' = {p},
         \/ card' = card
         \/ \E m \in Materials : card.rev < MaxRevision /\ card' = NextCard(m),
         UNCHANGED <<shown, intent, signed, revoked, clock, asked>>
  PROVE  InboxInv'
<1>1. PICK x \in OperatorType : /\ x.pc = "review" /\ op' = [op EXCEPT ![p] = x]
  BY OpToMoves, "review" \in Stages DEF InboxInv, Stages
<1>2. /\ op' \in [Operators -> OperatorType] /\ op'[p] = x
      /\ \A q \in Operators \ {p} : op'[q] = op[q]
  BY <1>1, OperatorMoves DEF InboxInv
<1>3. /\ card' \in CardType /\ CardHolds' /\ intent.rev <= card'.rev
  <2>1. card \in CardType /\ CardHolds /\ intent.rev <= card.rev /\ intent.rev \in Nat /\ clock \in Nat
    BY DEF InboxInv, InboxTypes, AskedOnce
  <2>2. CASE card' = card
    BY <2>1, <2>2 DEF CardHolds
  <2>3. ASSUME NEW m \in Materials, card.rev < MaxRevision, card' = NextCard(m)
        PROVE  card' \in CardType /\ CardHolds' /\ intent.rev <= card'.rev
    <3>1. card.rev \in Nat /\ card.rev + 1 \in 0..MaxRevision /\ card.history \in Seq(RetiredCards)
      BY <2>1, <2>3, InboxAssumption DEF CardType
    <3>2. Retired(card) \in RetiredCards
      BY <2>1, <3>1 DEF Retired, RetiredCards, CardType
    <3>3. PICK h : h = IF card.rev = 0 THEN << >> ELSE Append(card.history, Retired(card))
      OBVIOUS
    <3>4. /\ h \in Seq(RetiredCards)
          /\ Len(h) = card.rev
      <4>1. CASE card.rev = 0
        BY <3>3, <4>1
      <4>2. CASE card.rev # 0
        <5>1. Len(card.history) = card.rev - 1
          BY <2>1, <4>2 DEF CardHolds
        <5> QED BY <3>1, <3>2, <3>3, <4>2, <5>1
      <4> QED BY <4>1, <4>2
    <3>5. card' = [rev |-> card.rev + 1, material |-> m, answer |-> {}, updated |-> clock, history |-> h]
      BY <2>3, <3>3 DEF NextCard
    <3>6. /\ card'.rev = card.rev + 1 /\ card'.answer = {} /\ card'.history = h
      BY <3>5
    <3>7. card' \in CardType
      BY <2>1, <3>1, <3>4, <3>5 DEF CardType, AnyMaterial
    <3>8. CardHolds'
      BY <3>1, <3>4, <3>6 DEF CardHolds
    <3> QED BY <2>1, <3>1, <3>6, <3>7, <3>8
  <2> QED BY <2>2, <2>3
<1>4. InboxTypes'
  BY <1>2, <1>3 DEF InboxInv, InboxTypes
<1>5. LockHolds'
  <2>1. \A q \in Operators : op[q].pc \notin {"review", "report"}
    BY DEF InboxInv, LockHolds
  <2>2. \A q \in Operators : op'[q].pc \in {"review", "report"} <=> q = p
    BY <1>1, <1>2, <2>1
  <2>3. \A q \in Operators : op'[q].pc # "report"
    BY <1>1, <1>2, <2>1
  <2>4. One({p})
    BY DEF One
  <2> QED BY <2>2, <2>3, <2>4 DEF LockHolds, OpAt
<1>6. AskedOnce'
  <2>1. \A q \in Operators : op'[q].pc = "ask" => op'[q] = op[q]
    BY <1>1, <1>2
  <2> QED BY <1>3, <2>1 DEF InboxInv, AskedOnce, OpAt
<1>7. ASSUME NEW q \in Operators PROVE Carried(q)' /\ Intended(q)'
  <2>1. CASE q = p
    BY <1>1, <1>2, <2>1 DEF Carried, Intended
  <2>2. CASE q # p
    BY <1>2, <2>2 DEF InboxInv, Carried, Intended
  <2> QED BY <2>1, <2>2
<1> QED BY <1>3, <1>4, <1>5, <1>6, <1>7 DEF InboxInv

-----------------------------------------------------------------------------
(* The inbox: the steps, one by one. *)

\* The review is written by the one who holds the lock.
LEMMA ShowReviewKeeps == ASSUME InboxInv, NEW p \in Operators, ShowReview(p) PROVE InboxInv'
<1>1. OpAt(p, "review") /\ shown' = <<card.rev, card.material>> /\ OpTo(p, "report")
      /\ UNCHANGED <<card, intent, inbox, signed, clock, asked>>
  BY DEF ShowReview
<1>2. PICK x \in OperatorType : x.pc = "report" /\ op' = [op EXCEPT ![p] = x]
  BY <1>1, OpToMoves, "report" \in Stages DEF InboxInv, Stages
<1>3. /\ op' \in [Operators -> OperatorType] /\ op'[p] = x
      /\ \A q \in Operators \ {p} : op'[q] = op[q]
  BY <1>2, OperatorMoves DEF InboxInv
<1>4. InboxTypes' /\ CardHolds'
  BY <1>1, <1>3 DEF InboxInv, InboxTypes, CardHolds
<1>5. LockHolds'
  <2>1. inbox' = {q \in Operators : op'[q].pc \in {"review", "report"}}
    BY <1>1, <1>2, <1>3 DEF InboxInv, LockHolds, OpAt
  <2> QED BY <1>1, <2>1 DEF InboxInv, LockHolds
<1>6. AskedOnce'
  <2>1. \A q \in Operators : op'[q].pc = "ask" => op'[q] = op[q]
    BY <1>2, <1>3
  <2> QED BY <1>1, <2>1 DEF InboxInv, AskedOnce, OpAt
<1>7. ASSUME NEW q \in Operators PROVE Carried(q)' /\ Intended(q)'
  <2>1. CASE q = p
    BY <1>2, <1>3, <2>1 DEF Carried, Intended
  <2>2. CASE q # p
    BY <1>1, <1>3, <2>2 DEF InboxInv, Carried, Intended
  <2> QED BY <2>1, <2>2
<1> QED BY <1>4, <1>5, <1>6, <1>7 DEF InboxInv

\* An attempt is recorded for a revision that has none, so later than every one before.
LEMMA IntendIssueKeeps == ASSUME InboxInv, NEW p \in Operators, IntendIssue(p) PROVE InboxInv'
<1>1. /\ OpAt(p, "exported") /\ card.rev = op[p].rev /\ intent.rev # card.rev
      /\ intent' = [rev |-> card.rev, material |-> card.material, decision |-> op[p].decision]
      /\ OpTo(p, "ask") /\ UNCHANGED <<card, shown, inbox, signed, clock, asked>>
  BY DEF IntendIssue
<1>2. PICK x \in OperatorType : /\ x.pc = "ask" /\ x.rev = op[p].rev /\ x.decision = op[p].decision
                                /\ op' = [op EXCEPT ![p] = x]
  BY <1>1, OpToMoves, "ask" \in Stages DEF InboxInv, Stages
<1>3. /\ op' \in [Operators -> OperatorType] /\ op'[p] = x
      /\ \A q \in Operators \ {p} : op'[q] = op[q]
  BY <1>2, OperatorMoves DEF InboxInv
<1>4. /\ card \in CardType /\ op[p] \in OperatorType /\ intent.rev \in Nat /\ card.rev \in Nat
      /\ asked \in Seq(Nat)
  BY InboxAssumption DEF InboxInv, InboxTypes, CardType
<1>5. /\ intent'.rev = card.rev /\ intent'.decision = op[p].decision
      /\ intent.rev < intent'.rev
  BY <1>1, <1>4 DEF InboxInv, AskedOnce
<1>6. intent' \in [rev : Nat, material : AnyMaterial, decision : AnyDecision]
  BY <1>1, <1>4 DEF CardType, OperatorType
<1>7. InboxTypes' /\ CardHolds'
  BY <1>1, <1>3, <1>6 DEF InboxInv, InboxTypes, CardHolds
<1>8. LockHolds'
  <2>1. inbox' = {q \in Operators : op'[q].pc \in {"review", "report"}}
    BY <1>1, <1>2, <1>3 DEF InboxInv, LockHolds, OpAt
  <2>2. \A q \in Operators : op'[q].pc = "report" => op'[q] = op[q]
    BY <1>2, <1>3
  <2> QED BY <1>1, <2>1, <2>2 DEF InboxInv, LockHolds, OpAt
<1>9. AskedOnce'
  <2>1. \A i \in DOMAIN asked : asked[i] \in Nat /\ asked[i] <= intent.rev
    BY <1>4 DEF InboxInv, AskedOnce
  <2>2. \A i \in DOMAIN asked : asked[i] <= intent'.rev /\ asked[i] # intent'.rev
    BY <1>4, <1>5, <2>1
  <2>3. \A q \in Operators \ {p} : op[q].pc = "ask" => op[q].rev <= intent.rev /\ op[q].rev \in Nat
    BY DEF InboxInv, Intended, InboxTypes, OperatorType
  <2>4. \A q \in Operators \ {p} : op'[q].pc = "ask" => op'[q].rev # op'[p].rev
    BY <1>1, <1>2, <1>3, <1>4, <1>5, <2>3
  <2>5. \A q, r \in Operators : OpAt(q, "ask")' /\ OpAt(r, "ask")' /\ op'[q].rev = op'[r].rev => q = r
    BY <1>3, <2>4 DEF InboxInv, AskedOnce, OpAt
  <2>6. \A q \in Operators : OpAt(q, "ask")' => \A i \in DOMAIN asked : asked[i] # op'[q].rev
    BY <1>1, <1>2, <1>3, <1>5, <2>2 DEF InboxInv, AskedOnce, OpAt
  <2>7. intent'.rev <= card.rev
    BY <1>4, <1>5
  <2> QED BY <1>1, <2>2, <2>5, <2>6, <2>7 DEF InboxInv, AskedOnce
<1>10. ASSUME NEW q \in Operators PROVE Carried(q)' /\ Intended(q)'
  <2>1. CASE q = p
    BY <1>1, <1>2, <1>3, <1>4, <1>5, <2>1 DEF Carried, Intended
  <2>2. CASE q # p
    <3>1. op'[q] = op[q] /\ Carried(q) /\ Intended(q) /\ op[q].rev \in Nat
      BY <1>3, <2>2 DEF InboxInv, InboxTypes, OperatorType
    <3> QED BY <1>1, <1>4, <1>5, <3>1 DEF Carried, Intended
  <2> QED BY <2>1, <2>2
<1> QED BY <1>7, <1>8, <1>9, <1>10 DEF InboxInv

\* The person is asked for a revision nobody was asked for before.
LEMMA AskKeeps == ASSUME InboxInv, NEW p \in Operators, Ask(p) PROVE InboxInv'
<1>1. /\ OpAt(p, "ask") /\ asked' = Append(asked, op[p].rev) /\ OpTo(p, "asked")
      /\ UNCHANGED <<card, shown, intent, inbox, signed, clock>>
  BY DEF Ask
<1>2. PICK x \in OperatorType : /\ x.pc = "asked" /\ x.rev = op[p].rev /\ x.decision = op[p].decision
                                /\ op' = [op EXCEPT ![p] = x]
  BY <1>1, OpToMoves, "asked" \in Stages DEF InboxInv, Stages
<1>3. /\ op' \in [Operators -> OperatorType] /\ op'[p] = x
      /\ \A q \in Operators \ {p} : op'[q] = op[q]
  BY <1>2, OperatorMoves DEF InboxInv
<1>4. /\ asked \in Seq(Nat) /\ op[p].rev \in Nat /\ intent.rev \in Nat /\ op[p].rev <= intent.rev
      /\ \A i \in DOMAIN asked : asked[i] # op[p].rev
  BY <1>1 DEF InboxInv, InboxTypes, OperatorType, Intended, OpAt, AskedOnce
<1>5. /\ asked' \in Seq(Nat) /\ Len(asked') = Len(asked) + 1 /\ DOMAIN asked' = 1..Len(asked')
      /\ DOMAIN asked = 1..Len(asked) /\ Len(asked) \in Nat
      /\ asked'[Len(asked) + 1] = op[p].rev
      /\ \A i \in DOMAIN asked : asked'[i] = asked[i]
  BY <1>1, <1>4
<1>6. InboxTypes' /\ CardHolds'
  BY <1>1, <1>3, <1>5 DEF InboxInv, InboxTypes, CardHolds
<1>7. LockHolds'
  <2>1. inbox' = {q \in Operators : op'[q].pc \in {"review", "report"}}
    BY <1>1, <1>2, <1>3 DEF InboxInv, LockHolds, OpAt
  <2>2. \A q \in Operators : op'[q].pc = "report" => op'[q] = op[q]
    BY <1>2, <1>3
  <2> QED BY <1>1, <2>1, <2>2 DEF InboxInv, LockHolds, OpAt
<1>8. AskedOnce'
  <2>1. \A i \in DOMAIN asked' : i \in DOMAIN asked \/ i = Len(asked) + 1
    BY <1>5
  <2>2. \A i \in DOMAIN asked' : asked'[i] <= intent.rev
    BY <1>4, <1>5, <2>1 DEF InboxInv, AskedOnce
  <2>3. \A i, j \in DOMAIN asked' : asked'[i] = asked'[j] => i = j
    BY <1>4, <1>5, <2>1 DEF InboxInv, AskedOnce
  <2>4. \A q \in Operators : op'[q].pc = "ask" => q # p /\ op'[q] = op[q]
    BY <1>2, <1>3
  <2>5. \A q \in Operators : op'[q].pc = "ask" => \A i \in DOMAIN asked' : asked'[i] # op'[q].rev
    BY <1>1, <1>5, <2>1, <2>4 DEF InboxInv, AskedOnce, OpAt
  <2> QED BY <1>1, <2>2, <2>3, <2>4, <2>5 DEF InboxInv, AskedOnce, OpAt
<1>9. ASSUME NEW q \in Operators PROVE Carried(q)' /\ Intended(q)'
  <2>1. CASE q = p
    BY <1>1, <1>2, <1>3, <2>1 DEF InboxInv, Carried, Intended, OpAt
  <2>2. CASE q # p
    BY <1>1, <1>3, <2>2 DEF InboxInv, Carried, Intended
  <2> QED BY <2>1, <2>2
<1> QED BY <1>6, <1>7, <1>8, <1>9 DEF InboxInv

\* What an import stores was signed for the very revision and material of the card.
LEMMA StoreImportKeeps == ASSUME InboxInv, NEW p \in Operators, StoreImport(p) PROVE InboxInv'
<1>1. /\ OpAt(p, "verified") /\ Verified(card, Grant(p), clock)
      /\ card' = IF card.answer = op[p].response THEN card
                 ELSE [card EXCEPT !.answer = op[p].response, !.updated = clock]
      /\ op' = [op EXCEPT ![p] = NoOperator]
      /\ UNCHANGED <<shown, intent, inbox, signed, clock, asked>>
  BY DEF StoreImport
<1>2. /\ card \in CardType /\ CardHolds /\ op[p] \in OperatorType /\ clock \in Nat
      /\ One(op[p].response) /\ op[p].response \subseteq signed
  BY <1>1 DEF InboxInv, InboxTypes, Carried, OpAt
<1>3. op[p].response = {Grant(p)}
  BY <1>2, OneOf DEF Grant
<1>4. PICK c : c = [card EXCEPT !.answer = op[p].response, !.updated = clock]
  OBVIOUS
<1>5. /\ c \in CardType /\ c.rev = card.rev /\ c.material = card.material /\ c.history = card.history
      /\ c.answer = op[p].response
  BY <1>2, <1>4 DEF CardType, OperatorType
<1>6. /\ card' \in CardType /\ card'.rev = card.rev /\ card'.material = card.material
      /\ card'.history = card.history
      /\ card'.answer \in {card.answer, op[p].response}
  BY <1>1, <1>2, <1>4, <1>5
<1>7. CardHolds'
  BY <1>1, <1>2, <1>3, <1>6 DEF CardHolds, Verified
<1>8. /\ op' \in [Operators -> OperatorType] /\ op'[p].pc = "idle"
      /\ \A q \in Operators \ {p} : op'[q] = op[q]
  BY <1>1, IdleOperator, OperatorMoves DEF InboxInv
<1>9. InboxTypes'
  BY <1>1, <1>6, <1>8 DEF InboxInv, InboxTypes
<1>10. LockHolds'
  <2>1. inbox' = {q \in Operators : op'[q].pc \in {"review", "report"}}
    BY <1>1, <1>8 DEF InboxInv, LockHolds, OpAt
  <2>2. \A q \in Operators : op'[q].pc = "report" => op'[q] = op[q]
    BY <1>8
  <2> QED BY <1>1, <1>6, <2>1, <2>2 DEF InboxInv, LockHolds, OpAt
<1>11. AskedOnce'
  <2>1. \A q \in Operators : op'[q].pc = "ask" => op'[q] = op[q]
    BY <1>8
  <2> QED BY <1>1, <1>6, <2>1 DEF InboxInv, AskedOnce, OpAt
<1>12. ASSUME NEW q \in Operators PROVE Carried(q)' /\ Intended(q)'
  <2>1. CASE q = p
    BY <1>8, <2>1 DEF Carried, Intended
  <2>2. CASE q # p
    BY <1>1, <1>8, <2>2 DEF InboxInv, Carried, Intended
  <2> QED BY <2>1, <2>2
<1> QED BY <1>7, <1>9, <1>10, <1>11, <1>12 DEF InboxInv

\* Whoever holds no lock leaves it as it is by leaving.
LEMMA NoLockToLeave ==
  ASSUME InboxInv, NEW p \in Operators, op[p].pc \notin {"review", "report"}
  PROVE  inbox \ {p} = inbox
BY DEF InboxInv, LockHolds

\* The report frees the lock.
LEMMA ReportCardKeeps == ASSUME InboxInv, NEW p \in Operators, ReportCard(p) PROVE InboxInv'
<1>1. /\ OpAt(p, "report") /\ inbox' = {} /\ op' = [op EXCEPT ![p] = NoOperator]
      /\ UNCHANGED <<card, shown, intent, signed, clock, asked>>
  BY DEF ReportCard
<1>2. inbox' = inbox \ {p}
  <2>1. p \in inbox
    BY <1>1 DEF InboxInv, LockHolds, OpAt
  <2> QED BY <1>1, <2>1 DEF InboxInv, LockHolds, One
<1>3. signed' \subseteq Grants
  BY <1>1 DEF InboxInv, InboxTypes
<1> QED BY <1>1, <1>2, <1>3, IdleOperator, AsideKeeps

\* An export notes the revision of the moment.
LEMMA ExportKeeps ==
  ASSUME InboxInv, NEW p \in Operators, NEW m \in Materials, NEW d \in Decisions, Export(p, m, d)
  PROVE  InboxInv'
<1>1. PICK x : x = [NoOperator EXCEPT !.pc = "exported", !.request = m, !.rev = card.rev, !.decision = d]
  OBVIOUS
<1>2. /\ OpAt(p, "idle") /\ op' = [op EXCEPT ![p] = x]
      /\ UNCHANGED <<card, shown, intent, inbox, signed, clock, asked>>
  BY <1>1 DEF Export
<1>3. card.rev \in Nat
  BY InboxAssumption DEF InboxInv, InboxTypes, CardType
<1>4. x \in OperatorType /\ x.pc = "exported"
  BY <1>1, <1>3 DEF NoOperator, OperatorType, Stages, AnyMaterial, AnyDecision
<1>5. inbox' = inbox \ {p}
  BY <1>2, NoLockToLeave DEF OpAt
<1>6. signed' \subseteq Grants
  BY <1>2 DEF InboxInv, InboxTypes
<1> QED BY <1>2, <1>4, <1>5, <1>6, AsideKeeps

\* What the issuer signs is a grant for the revision that was asked for.
LEMMA IssuerAnswersKeeps == ASSUME InboxInv, NEW p \in Operators, IssuerAnswers(p) PROVE InboxInv'
<1>1. PICK g : g = NewGrant(op[p].rev, op[p].request, op[p].decision)
  OBVIOUS
<1>2. /\ OpAt(p, "asked") /\ signed' = signed \cup {g}
      /\ UNCHANGED <<card, shown, intent, inbox, clock, asked>>
      /\ \/ op' = [op EXCEPT ![p].pc = "import", ![p].response = {g}]
         \/ op' = [op EXCEPT ![p] = NoOperator]
  BY <1>1 DEF IssuerAnswers
<1>3. /\ op[p] \in OperatorType /\ DOMAIN op = Operators /\ clock \in Nat /\ signed \subseteq Grants
  BY DEF InboxInv, InboxTypes
<1>4. g \in Grants
  BY <1>1, <1>3 DEF NewGrant, Grants, OperatorType
<1>5. inbox' = inbox \ {p}
  BY <1>2, NoLockToLeave DEF OpAt
<1>6. signed' \subseteq Grants
  BY <1>2, <1>3, <1>4
<1>7. CASE op' = [op EXCEPT ![p] = NoOperator]
  BY <1>2, <1>5, <1>6, <1>7, IdleOperator, AsideKeeps
<1>8. CASE op' = [op EXCEPT ![p].pc = "import", ![p].response = {g}]
  <2>1. PICK x : x = [op[p] EXCEPT !.pc = "import", !.response = {g}]
    OBVIOUS
  <2>2. x \in OperatorType /\ x.pc = "import" /\ x.response = {g}
    BY <1>3, <1>4, <2>1 DEF OperatorType, Stages
  <2>3. op' = [op EXCEPT ![p] = x]
    BY <1>3, <1>8, <2>1 DEF OperatorType
  <2>4. One(x.response) /\ x.response \subseteq signed'
    BY <1>2, <2>2 DEF One
  <2> QED BY <1>2, <1>5, <1>6, <2>2, <2>3, <2>4, AsideKeeps
<1> QED BY <1>2, <1>7, <1>8

\* Anybody may bring an answer that was signed.
LEMMA ImportKeeps ==
  ASSUME InboxInv, NEW p \in Operators, NEW g \in signed, Import(p, g) PROVE InboxInv'
<1>1. PICK x : x = [NoOperator EXCEPT !.pc = "import", !.request = g.material, !.response = {g}]
  OBVIOUS
<1>2. /\ OpAt(p, "idle") /\ op' = [op EXCEPT ![p] = x]
      /\ UNCHANGED <<card, shown, intent, inbox, signed, clock, asked>>
  BY <1>1 DEF Import
<1>3. signed \subseteq Grants /\ g \in Grants /\ g.material \in AnyMaterial
  BY DEF InboxInv, InboxTypes, Grants
<1>4. x \in OperatorType /\ x.pc = "import" /\ x.response = {g}
  BY <1>1, <1>3 DEF NoOperator, OperatorType, Stages, AnyMaterial, AnyDecision
<1>5. inbox' = inbox \ {p}
  BY <1>2, NoLockToLeave DEF OpAt
<1>6. One(x.response) /\ x.response \subseteq signed'
  BY <1>2, <1>4 DEF One
<1> QED BY <1>2, <1>3, <1>4, <1>5, <1>6, AsideKeeps

\* The first verification keeps the answer and notes the revision.
LEMMA VerifyImportKeeps == ASSUME InboxInv, NEW p \in Operators, VerifyImport(p) PROVE InboxInv'
<1>1. /\ OpAt(p, "import") /\ op' = [op EXCEPT ![p].pc = "verified", ![p].rev = card.rev]
      /\ UNCHANGED <<card, shown, intent, inbox, signed, clock, asked>>
  BY DEF VerifyImport
<1>2. /\ op[p] \in OperatorType /\ DOMAIN op = Operators /\ card.rev \in Nat /\ signed \subseteq Grants
      /\ One(op[p].response) /\ op[p].response \subseteq signed
  BY <1>1, InboxAssumption DEF InboxInv, InboxTypes, CardType, Carried, OpAt
<1>3. PICK x : x = [op[p] EXCEPT !.pc = "verified", !.rev = card.rev]
  OBVIOUS
<1>4. x \in OperatorType /\ x.pc = "verified" /\ x.response = op[p].response
  BY <1>2, <1>3 DEF OperatorType, Stages
<1>5. op' = [op EXCEPT ![p] = x]
  BY <1>1, <1>2, <1>3 DEF OperatorType
<1>6. inbox' = inbox \ {p}
  BY <1>1, NoLockToLeave DEF OpAt
<1> QED BY <1>1, <1>2, <1>4, <1>5, <1>6, AsideKeeps

\* Who gives up, or dies, holds nothing any more.
LEMMA AbandonKeeps == ASSUME InboxInv, NEW p \in Operators, Abandon(p) PROVE InboxInv'
<1>1. /\ op' = [op EXCEPT ![p] = NoOperator] /\ inbox' = inbox \ {p}
      /\ UNCHANGED <<card, shown, intent, signed, clock, asked>>
  BY DEF Abandon
<1>2. signed' \subseteq Grants
  BY <1>1 DEF InboxInv, InboxTypes
<1> QED BY <1>1, <1>2, IdleOperator, AsideKeeps

\* Signing, revoking and the time that passes concern no operator.
LEMMA OutsideKeeps ==
  ASSUME InboxInv, UNCHANGED <<card, shown, intent, op, inbox, asked>>,
         signed \subseteq signed', signed' \subseteq Grants, clock' \in Nat
  PROVE  InboxInv'
<1>1. InboxTypes' /\ CardHolds' /\ LockHolds' /\ AskedOnce'
  BY DEF InboxInv, InboxTypes, CardHolds, LockHolds, AskedOnce, OpAt
<1>2. ASSUME NEW q \in Operators PROVE Carried(q)' /\ Intended(q)'
  BY DEF InboxInv, Carried, Intended
<1> QED BY <1>1, <1>2 DEF InboxInv

\* An answer signed without the adapter is a grant for a revision of the card.
LEMMA SignKeeps == ASSUME InboxInv, NEW d \in Decisions, Sign(d) PROVE InboxInv'
<1>1. card.rev \in Nat /\ card.material \in AnyMaterial /\ clock \in Nat /\ signed \subseteq Grants
  BY InboxAssumption DEF InboxInv, InboxTypes, CardType
<1>2. NewGrant(card.rev, card.material, d) \in Grants
  BY <1>1 DEF NewGrant, Grants, AnyDecision
<1> QED BY <1>1, <1>2, OutsideKeeps DEF Sign

-----------------------------------------------------------------------------
(* The invariant. *)

\* In the beginning there is no card and nobody is at work.
LEMMA InboxStarts == InboxInit => InboxInv
<1> SUFFICES ASSUME InboxInit PROVE InboxInv
    OBVIOUS
<1>1. /\ card = NoCard /\ shown = <<0, "none">>
      /\ intent = [rev |-> 0, material |-> "none", decision |-> "none"]
      /\ op = [p \in Operators |-> NoOperator]
      /\ inbox = {} /\ signed = {} /\ clock = 0 /\ asked = << >>
  BY DEF InboxInit
<1>2. card \in CardType
  BY <1>1, InboxAssumption DEF NoCard, CardType, AnyMaterial
<1>3. op \in [Operators -> OperatorType] /\ \A p \in Operators : op[p].pc = "idle"
  BY <1>1, IdleOperator
<1>4. InboxTypes
  BY <1>1, <1>2, <1>3 DEF InboxTypes, AnyMaterial, AnyDecision
<1>5. CardHolds
  BY <1>1 DEF CardHolds, NoCard
<1>6. LockHolds
  BY <1>1, <1>3 DEF LockHolds, OpAt
<1>7. AskedOnce
  BY <1>1, <1>3 DEF AskedOnce, OpAt, NoCard
<1>8. \A p \in Operators : Carried(p) /\ Intended(p)
  BY <1>3 DEF Carried, Intended
<1> QED BY <1>4, <1>5, <1>6, <1>7, <1>8 DEF InboxInv

\* Every step of an operator, of the issuer and of the people outside keeps the invariant.
LEMMA InboxSteps == InboxInv /\ [InboxNext]_inboxVars => InboxInv'
<1> SUFFICES ASSUME InboxInv, [InboxNext]_inboxVars PROVE InboxInv'
    OBVIOUS
<1>1. signed \subseteq Grants /\ clock \in Nat
  BY DEF InboxInv, InboxTypes
<1>2. ASSUME NEW p \in Operators, NEW m \in Materials, Prepare(p, m) PROVE InboxInv'
  BY <1>2, WritingKeeps DEF Prepare
<1>3. ASSUME NEW p \in Operators, NEW m \in Materials, Reopen(p, m) PROVE InboxInv'
  BY <1>3, WritingKeeps DEF Reopen
<1>4. ASSUME NEW p \in Operators, NEW m \in Materials, NEW d \in Decisions, Export(p, m, d) PROVE InboxInv'
  BY <1>4, ExportKeeps
<1>5. ASSUME NEW p \in Operators, NEW g \in signed, Import(p, g) PROVE InboxInv'
  BY <1>5, ImportKeeps
<1>6. ASSUME NEW p \in Operators,
             \/ ShowReview(p) \/ ReportCard(p) \/ IntendIssue(p) \/ Ask(p) \/ IssuerAnswers(p)
             \/ VerifyImport(p) \/ StoreImport(p) \/ Abandon(p)
      PROVE  InboxInv'
  BY <1>6, ShowReviewKeeps, ReportCardKeeps, IntendIssueKeeps, AskKeeps, IssuerAnswersKeeps,
     VerifyImportKeeps, StoreImportKeeps, AbandonKeeps
<1>7. ASSUME NEW d \in Decisions, Sign(d) PROVE InboxInv'
  BY <1>7, SignKeeps
<1>8. CASE Revoke
  BY <1>1, <1>8, OutsideKeeps DEF Revoke
<1>9. CASE InboxTick
  BY <1>1, <1>9, OutsideKeeps DEF InboxTick
<1>10. CASE UNCHANGED inboxVars
  BY <1>1, <1>10, OutsideKeeps DEF inboxVars
<1> QED BY <1>2, <1>3, <1>4, <1>5, <1>6, <1>7, <1>8, <1>9, <1>10 DEF InboxNext

\* The invariant holds in every state of the inbox.
THEOREM InboxInvariant == InboxSpec => []InboxInv
BY InboxStarts, InboxSteps, PTL DEF InboxSpec

\* The invariant says what the property promises.
LEMMA AskedFromInvariant == InboxInv => AskedOnceAsShown
<1> SUFFICES ASSUME InboxInv PROVE AskedOnceAsShown
    OBVIOUS
<1>1. /\ card.rev \in 0..MaxRevision /\ card.material \in Materials \cup {"none"}
  BY DEF InboxInv, InboxTypes, CardType, AnyMaterial
<1>2. Cardinality(card.answer) <= 1 /\ Cardinality(inbox) <= 1
  <2>1. Cardinality({}) = 0
    BY FS_EmptySet
  <2>2. \A S : S = {} \/ One(S) => Cardinality(S) \in {0, 1}
    BY <2>1, OneOf
  <2>3. Cardinality(card.answer) \in {0, 1} /\ Cardinality(inbox) \in {0, 1}
    BY <2>2 DEF InboxInv, CardHolds, LockHolds
  <2> QED BY <2>3
<1>3. InboxTypeOK
  BY <1>1, <1>2 DEF InboxInv, CardHolds, LockHolds, AskedOnce, InboxTypeOK
<1> QED BY <1>3 DEF AskedOnceAsShown, InboxInv, AskedOnce, LockHolds

\* For any number of operators, whatever they leave undone and whoever signs: no
\* revision is asked for twice, a report shows the card as it is, and an answer was
\* signed for the revision and material of its card.
THEOREM PersonAskedOnce == InboxSpec => []AskedOnceAsShown
BY InboxInvariant, AskedFromInvariant, PTL

-----------------------------------------------------------------------------
(* The action properties. *)

\* The step formulas of AnswersStand and ReopeningIsReconciled.
Stands == IF card'.rev = card.rev
          THEN /\ card'.history = card.history
               /\ card.answer # {} => {g.decision : g \in card'.answer} = {g.decision : g \in card.answer}
          ELSE /\ card'.rev = card.rev + 1
               /\ card.rev > 0 => card'.history = Append(card.history, Retired(card))
Reconciled == card'.rev # card.rev /\ card'.material = card.material =>
                \A p \in Operators : op[p].pc \in {"ask", "asked"} /\ op[p].rev = card.rev =>
                  \A g \in card.answer : g.decision = op[p].decision

\* A new card is the next revision.
LEMMA NextCardStands ==
  ASSUME InboxInv, NEW m \in Materials, card' = NextCard(m)
  PROVE  Stands /\ card'.rev = card.rev + 1 /\ card'.material = m
<1>1. card.rev \in Nat
  BY InboxAssumption DEF InboxInv, InboxTypes, CardType
<1>2. /\ card'.rev = card.rev + 1 /\ card'.material = m
      /\ card'.history = IF card.rev = 0 THEN << >> ELSE Append(card.history, Retired(card))
  BY DEF NextCard
<1> QED BY <1>1, <1>2 DEF Stands

\* A stored answer agrees with the one it replaces.
LEMMA StoreImportStands ==
  ASSUME InboxInv, NEW p \in Operators, StoreImport(p)
  PROVE  Stands /\ card'.rev = card.rev
<1>1. /\ OpAt(p, "verified") /\ \A old \in card.answer : old.decision = Grant(p).decision
      /\ card' = IF card.answer = op[p].response THEN card
                 ELSE [card EXCEPT !.answer = op[p].response, !.updated = clock]
  BY DEF StoreImport
<1>2. card \in CardType /\ One(op[p].response)
  BY <1>1 DEF InboxInv, InboxTypes, Carried, OpAt
<1>3. op[p].response = {Grant(p)}
  BY <1>2, OneOf DEF Grant
<1>4. /\ card'.rev = card.rev /\ card'.history = card.history
      /\ card'.answer = {Grant(p)}
  BY <1>1, <1>2, <1>3 DEF CardType
<1>5. card.answer # {} => {g.decision : g \in card'.answer} = {g.decision : g \in card.answer}
  BY <1>1, <1>4
<1> QED BY <1>4, <1>5 DEF Stands

\* A reopened card was answered, and the latest attempt asked for that answer.
LEMMA ReopenReconciles ==
  ASSUME InboxInv, NEW p \in Operators, NEW m \in Materials, Reopen(p, m)
  PROVE  Reconciled
<1>1. PICK a \in card.answer :
        intent.rev # 0 => intent = [rev |-> card.rev, material |-> m, decision |-> a.decision]
  BY DEF Reopen
<1>2. \A g \in card.answer : g = a
  BY DEF InboxInv, CardHolds, One
<1> SUFFICES ASSUME NEW q \in Operators, op[q].pc \in {"ask", "asked"}, op[q].rev = card.rev
             PROVE  a.decision = op[q].decision
    BY <1>2 DEF Reconciled
<1>3. /\ 0 < op[q].rev /\ op[q].rev <= intent.rev
      /\ op[q].rev = intent.rev => op[q].decision = intent.decision
      /\ op[q].rev \in Nat /\ intent.rev \in Nat
  BY DEF InboxInv, Intended, InboxTypes, OperatorType
<1>4. intent.rev = card.rev /\ intent.decision = a.decision
  BY <1>1, <1>3
<1> QED BY <1>3, <1>4

\* Only who prepares, reopens or stores an answer writes the card.
LEMMA CardSteps == InboxInv /\ [InboxNext]_inboxVars => Stands /\ Reconciled
<1> SUFFICES ASSUME InboxInv, [InboxNext]_inboxVars PROVE Stands /\ Reconciled
    OBVIOUS
<1>1. ASSUME card' = card PROVE Stands /\ Reconciled
  BY <1>1 DEF Stands, Reconciled
<1>2. ASSUME NEW p \in Operators, NEW m \in Materials, Prepare(p, m) PROVE Stands /\ Reconciled
  <2>1. \/ card' = card
        \/ card.material # m /\ card' = NextCard(m)
    BY <1>2 DEF Prepare
  <2>2. ASSUME card.material # m, card' = NextCard(m) PROVE Stands /\ Reconciled
    BY <2>2, NextCardStands DEF Reconciled
  <2> QED BY <1>1, <2>1, <2>2
<1>3. ASSUME NEW p \in Operators, NEW m \in Materials, Reopen(p, m) PROVE Stands /\ Reconciled
  BY <1>3, NextCardStands, ReopenReconciles DEF Reopen
<1>4. ASSUME NEW p \in Operators, StoreImport(p) PROVE Stands /\ Reconciled
  BY <1>4, StoreImportStands DEF Reconciled
<1>5. ASSUME NEW p \in Operators,
             \/ ShowReview(p) \/ ReportCard(p) \/ IntendIssue(p) \/ Ask(p) \/ IssuerAnswers(p)
             \/ VerifyImport(p) \/ Abandon(p)
      PROVE  card' = card
  BY <1>5 DEF ShowReview, ReportCard, IntendIssue, Ask, IssuerAnswers, VerifyImport, Abandon
<1>6. ASSUME NEW p \in Operators, NEW m \in Materials, NEW d \in Decisions, Export(p, m, d) PROVE card' = card
  BY <1>6 DEF Export
<1>7. ASSUME NEW p \in Operators, NEW g \in signed, Import(p, g) PROVE card' = card
  BY <1>7 DEF Import
<1>8. ASSUME (\E d \in Decisions : Sign(d)) \/ Revoke \/ InboxTick \/ UNCHANGED inboxVars PROVE card' = card
  BY <1>8 DEF Sign, Revoke, InboxTick, inboxVars
<1> QED BY <1>1, <1>2, <1>3, <1>4, <1>5, <1>6, <1>7, <1>8 DEF InboxNext

\* Within a revision no answer is withdrawn or turned, and a new revision records
\* what the last one ended with.
THEOREM AnswersAreKept == InboxSpec => AnswersStand
<1>1. InboxInv /\ [InboxNext]_inboxVars =>
        [IF card'.rev = card.rev
         THEN /\ card'.history = card.history
              /\ card.answer # {} => {g.decision : g \in card'.answer} = {g.decision : g \in card.answer}
         ELSE /\ card'.rev = card.rev + 1
              /\ card.rev > 0 => card'.history = Append(card.history, Retired(card))]_inboxVars
  BY CardSteps DEF Stands
<1> QED BY <1>1, InboxInvariant, PTL DEF InboxSpec, AnswersStand

\* A reopening of the same material finds every attempt at its revision asking for
\* the decision that the card has.
THEOREM ReopeningBuriesNoAttempt == InboxSpec => ReopeningIsReconciled
<1>1. InboxInv /\ [InboxNext]_inboxVars =>
        [card'.rev # card.rev /\ card'.material = card.material =>
           \A p \in Operators : op[p].pc \in {"ask", "asked"} /\ op[p].rev = card.rev =>
             \A g \in card.answer : g.decision = op[p].decision]_inboxVars
  BY CardSteps DEF Reconciled
<1> QED BY <1>1, InboxInvariant, PTL DEF InboxSpec, ReopeningIsReconciled

-----------------------------------------------------------------------------
(* The reconciliation: the inductive invariant. *)

\* A proposal: each patch writes what its change asks for of the items as they
\* were read, tests a revision, and is the only one for its item.
Proper(p) ==
  /\ p \in PacketType /\ DOMAIN p.patches \subseteq Numbers
  /\ \A k \in DOMAIN p.patches :
       LET patch == p.patches[k]
       IN  /\ patch.rev # Untested
           /\ patch.tags = DesiredTags(p.baseline[patch.change.issue].tags, patch.change)
           /\ patch.preds = NewPreds(patch.change, p.baseline)
  /\ \A j, k \in DOMAIN p.patches : p.patches[j].change.issue = p.patches[k].change.issue => j = k

\* What a work item was at an earlier time: its revision never goes back, and
\* its tags never change without it.
Earlier(old, now) == \A i \in WorkItems : /\ old[i].rev <= now[i].rev
                                          /\ old[i].rev = now[i].rev => old[i].tags = now[i].tags

\* A board that was read since the proposal: tags are those of the baseline but
\* for the items that the first n patches write.
Reached(now, p, b, n) ==
  /\ b \in BoardType /\ Earlier(b, now)
  /\ \A i \in WorkItems :
       /\ p.baseline[i].rev <= b[i].rev
       /\ (\A k \in 1..n : p.patches[k].change.issue # i) => b[i].tags = p.baseline[i].tags

Issue(k) == packet.patches[k].change.issue
Rev(k) == packet.patches[k].rev

\* A patch is done: no request still on its way can change its item again.
Settled(k) ==
  /\ Rev(k) < board[Issue(k)].rev
  /\ \A w \in wire : w.patch.change.issue = Issue(k) => w.patch.rev < board[Issue(k)].rev
  /\ count.edits = 0 => /\ board[Issue(k)].tags = packet.patches[k].tags
                        /\ packet.patches[k].preds \subseteq board[Issue(k)].preds

\* The journal: a prefix of the patches, each intended when its item had the
\* revision that it tests, and all but the last verified.
EntryHolds(k) ==
  /\ journal[k].patch = packet.patches[k]
  /\ After(journal, k - 1)[Issue(k)].rev = Rev(k)
  /\ k < Len(journal) => journal[k].status = "verified"
  /\ journal[k].status = "verified" => Reached(board, packet, journal[k].after, k) /\ Settled(k)
JournalHolds ==
  /\ journal \in Seq(EntryType) /\ Len(journal) <= Len(packet.patches)
  /\ \A k \in DOMAIN journal : EntryHolds(k)

\* The entries that the run has found or made verified.
Replayed == IF run.pc \in {"resume", "send", "wait", "readback"} THEN Len(run.entries) - 1 ELSE Len(run.entries)
BusyHolds ==
  /\ Replayed \in Nat /\ Replayed <= Len(journal) /\ Len(journal) <= Replayed + 1
  /\ \A k \in 1..Replayed : run.entries[k] = journal[k] /\ journal[k].status = "verified"
  /\ run.expected = After(journal, Replayed)
  /\ run.pc \in {"resume", "send", "wait", "readback"} => run.entries = journal
  /\ run.pc = "intend" => /\ Replayed < Len(packet.patches)
                          /\ run.expected[Issue(Replayed + 1)].rev = Rev(Replayed + 1)
  /\ run.pc \in {"intend", "send", "wait", "readback"} => run.current = run.expected
RunHolds ==
  /\ run \in RunType
  /\ run.pc # "idle" => BusyHolds
  /\ run.receipt = "applied" => /\ run.pc = "idle" /\ Len(journal) = Len(packet.patches)
                                /\ \A k \in DOMAIN journal : journal[k].status = "verified"

\* The item of a request has moved on: the request will be refused.
Late(w) == w.patch.rev < board[w.patch.change.issue].rev

\* A request writes the tags that its change makes of those of its item, if it is
\* not late; it is late when its own step or a later one has taken effect.
RequestHolds(w) ==
  /\ w.step \in Numbers /\ w.no <= packet.no /\ w.patch.rev # Untested
  /\ w.patch.rev <= board[w.patch.change.issue].rev
  /\ ~Late(w) => w.patch.tags = DesiredTags(board[w.patch.change.issue].tags, w.patch.change)
  /\ w.no < packet.no => w.patch.rev <= packet.baseline[w.patch.change.issue].rev
  /\ w.no = packet.no => w.step \in 1..Len(journal) /\ w.patch = packet.patches[w.step]
  /\ \A n \in DOMAIN landed[w.no] : w.step <= landed[w.no][n] => Late(w)
  /\ \A v \in wire : v.no = w.no => /\ w.step < v.step => Late(w)
                                    /\ w.step = v.step => w.patch = v.patch
WireHolds == wire \subseteq RequestType /\ \A w \in wire : RequestHolds(w)

\* What took effect of the proposal in force is in its journal.
LandedHolds ==
  /\ landed \in [1..MaxPackets -> Seq(Nat)]
  /\ \A p \in 1..MaxPackets : packet.no < p => landed[p] = << >>
  /\ \A n \in DOMAIN landed[packet.no] :
       LET k == landed[packet.no][n]
       IN  k \in 1..Len(journal) /\ Rev(k) < board[Issue(k)].rev

ServiceHolds ==
  /\ board \in BoardType /\ granted \in BOOLEAN
  /\ count \in [packets : 1..MaxPackets, edits : Nat, sends : 0..MaxSends]
  /\ packet.no = count.packets /\ Proper(packet)
  /\ Reached(board, packet, packet.baseline, 0)

ReconcileInv == ServiceHolds /\ JournalHolds /\ RunHolds /\ WireHolds /\ LandedHolds

-----------------------------------------------------------------------------
(* Proposals. *)

\* The numbers up to n are n.
LEMMA CountTo == ASSUME NEW n \in Nat PROVE IsFiniteSet(1..n) /\ Cardinality(1..n) = n
<1>1. IsFiniteSet(1..n) /\ Cardinality(1..n) = IF 1 > n THEN 0 ELSE n - 1 + 1
  BY FS_Interval
<1> QED BY <1>1

\* The numbers of a finite set of numbers, taken in order, are counted without a gap.
LEMMA NthOf ==
  ASSUME NEW m \in Nat, NEW S \in SUBSET (1..m), NEW n \in 1..Cardinality(S)
  PROVE  Nth(S, n) \in S /\ Cardinality({j \in S : j <= Nth(S, n)}) = n
<1>1. IsFiniteSet(1..m)
  BY FS_Interval
<1>2. IsFiniteSet(S) /\ Cardinality(S) \in Nat
  BY <1>1, FS_Subset, FS_CardinalityType
<1> DEFINE below(k) == {j \in S : j <= k}
           f == [k \in S |-> Cardinality(below(k))]
<1>3. \A k \in S : /\ IsFiniteSet(below(k)) /\ Cardinality(below(k)) \in Nat
                   /\ Cardinality(below(k)) <= Cardinality(S)
  BY <1>2, FS_Subset, FS_CardinalityType
<1>4. \A k \in S : Cardinality(below(k)) # 0
  <2>1. \A k \in S : k \in below(k)
    OBVIOUS
  <2> QED BY <1>3, <2>1, FS_EmptySet
<1>5. f \in [S -> 1..Cardinality(S)]
  BY <1>2, <1>3, <1>4
<1>6. ASSUME NEW k \in S, NEW l \in S, k < l PROVE f[k] # f[l]
  <2>1. k \in Nat /\ l \in Nat /\ \A j \in S : j \in Nat
    OBVIOUS
  <2>2. \A j \in S : j <= k => j <= l
    BY <1>6, <2>1
  <2>3. below(k) \in SUBSET below(l) /\ l \in below(l) /\ l \notin below(k)
    <3>1. \A j \in below(k) : j \in below(l)
      BY <2>2
    <3>2. l <= l /\ ~(l <= k)
      BY <1>6, <2>1
    <3> QED BY <3>1, <3>2
  <2>4. Cardinality(below(l)) # Cardinality(below(k))
    BY <1>3, <2>3, FS_Subset
  <2> QED BY <2>4
<1>7. f \in Injection(S, 1..Cardinality(S))
  <2>1. \A k, l \in S : k = l \/ k < l \/ l < k
    OBVIOUS
  <2>2. \A k, l \in S : f[k] = f[l] => k = l
    BY <1>6, <2>1
  <2> QED BY <1>5, <2>2 DEF Injection, IsInjective
<1>8. IsFiniteSet(1..Cardinality(S)) /\ Cardinality(1..Cardinality(S)) = Cardinality(S)
  BY <1>2, FS_Interval
<1>9. f \in Surjection(S, 1..Cardinality(S))
  BY <1>7, <1>8, FS_Injection
<1>10. PICK k \in S : f[k] = n
  BY <1>9 DEF Surjection
<1>11. \E l \in S : Cardinality({j \in S : j <= l}) = n
  BY <1>10
<1> QED BY <1>11 DEF Nth

\* What is made of items and of a valid request is a proper proposal.
LEMMA ProposalIsProper ==
  ASSUME NEW items \in BoardType, NEW changes \in ChangeLists, ValidRequest(changes, items),
         NEW no \in 1..MaxPackets
  PROVE  /\ Proper(Proposal(no, items, changes))
         /\ Proposal(no, items, changes).no = no /\ Proposal(no, items, changes).baseline = items
<1> DEFINE kept == {k \in DOMAIN changes : HasEffect(changes[k], items)}
           ps == Patches(items, changes)
           rank(m) == Cardinality({j \in kept : j <= m})
<1>1. changes \in Seq(ChangeType) /\ DOMAIN changes = 1..Len(changes) /\ Len(changes) \in Nat
  BY ReconcileAssumption
<1>2. kept \in SUBSET (1..Len(changes))
  BY <1>1
<1>3. /\ Cardinality(kept) \in Nat /\ Cardinality(kept) <= Len(changes)
  <2>1. PICK m \in Nat : m = Len(changes)
    BY <1>1
  <2>2. IsFiniteSet(1..m) /\ Cardinality(1..m) = m
    BY CountTo
  <2> QED BY <1>2, <2>1, <2>2, FS_Subset, FS_CardinalityType
<1>4. ps = [n \in 1..Cardinality(kept) |-> PatchOf(changes, Nth(kept, n), items)]
  BY DEF Patches
<1>5. ASSUME NEW n \in 1..Cardinality(kept)
      PROVE  Nth(kept, n) \in 1..Len(changes) /\ rank(Nth(kept, n)) = n
  BY <1>1, <1>2, NthOf
<1> HIDE DEF rank
<1>6. ASSUME NEW k \in 1..Len(changes)
      PROVE  /\ PatchOf(changes, k, items) \in PatchType
             /\ PatchOf(changes, k, items).rev # Untested
             /\ PatchOf(changes, k, items).change = changes[k]
             /\ PatchOf(changes, k, items).tags = DesiredTags(items[changes[k].issue].tags, changes[k])
             /\ PatchOf(changes, k, items).preds = NewPreds(changes[k], items)
  <2> DEFINE moved == {j \in 1..(k - 1) : changes[k].issue \in NewPreds(changes[j], items)}
             r == items[changes[k].issue].rev + Cardinality(moved)
             ts == DesiredTags(items[changes[k].issue].tags, changes[k])
             qs == NewPreds(changes[k], items)
  <2>1. changes[k] \in ChangeType
    BY <1>1
  <2>2. Cardinality(moved) \in Nat
    <3>1. IsFiniteSet(1..(k - 1))
      BY <1>1, FS_Interval
    <3>2. IsFiniteSet(moved)
      BY <3>1, FS_Subset
    <3> QED BY <3>2, FS_CardinalityType
  <2>3. /\ items[changes[k].issue].rev \in Nat \ {0}
        /\ items[changes[k].issue].tags \in SUBSET Tags
    BY <2>1 DEF BoardType, ChangeType
  <2>4. r \in Nat /\ r # 0
    BY <2>2, <2>3
  <2>5. ts \in SUBSET Tags /\ qs \in SUBSET WorkItems
    BY <2>1, <2>3 DEF DesiredTags, NewPreds, ChangeType
  <2>6. PatchOf(changes, k, items) = [change |-> changes[k], rev |-> r, tags |-> ts, preds |-> qs]
    BY DEF PatchOf
  <2> HIDE DEF moved, r, ts, qs
  <2>7. PatchOf(changes, k, items) \in PatchType
    BY <2>1, <2>4, <2>5, <2>6 DEF PatchType
  <2>8. /\ PatchOf(changes, k, items).rev = r /\ PatchOf(changes, k, items).change = changes[k]
        /\ PatchOf(changes, k, items).tags = ts /\ PatchOf(changes, k, items).preds = qs
    BY <2>6
  <2> QED BY <2>4, <2>7, <2>8 DEF ts, qs, Untested
<1>7. \A n \in 1..Cardinality(kept) : ps[n] = PatchOf(changes, Nth(kept, n), items)
  BY <1>4
<1>8. ps \in Seq(PatchType) /\ DOMAIN ps = 1..Cardinality(kept)
  <2>1. \A n \in 1..Cardinality(kept) : PatchOf(changes, Nth(kept, n), items) \in PatchType
    BY <1>5, <1>6
  <2> QED BY <1>3, <1>4, <2>1
<1> HIDE DEF ps, kept
<1>9. \A k \in DOMAIN ps :
        /\ ps[k].rev # Untested
        /\ ps[k].tags = DesiredTags(items[ps[k].change.issue].tags, ps[k].change)
        /\ ps[k].preds = NewPreds(ps[k].change, items)
  <2> SUFFICES ASSUME NEW n \in 1..Cardinality(kept)
               PROVE  /\ ps[n].rev # Untested
                      /\ ps[n].tags = DesiredTags(items[ps[n].change.issue].tags, ps[n].change)
                      /\ ps[n].preds = NewPreds(ps[n].change, items)
      BY <1>8
  <2>1. PICK k \in 1..Len(changes) : ps[n] = PatchOf(changes, k, items)
    BY <1>5, <1>7
  <2> QED BY <1>6, <2>1
<1>10. ASSUME NEW j \in DOMAIN ps, NEW k \in DOMAIN ps, ps[j].change.issue = ps[k].change.issue
       PROVE  j = k
  <2>1. ps[j].change = changes[Nth(kept, j)] /\ ps[k].change = changes[Nth(kept, k)]
    BY <1>5, <1>6, <1>7, <1>8
  <2>2. Nth(kept, j) \in DOMAIN changes /\ Nth(kept, k) \in DOMAIN changes
    BY <1>1, <1>5, <1>8
  <2>3. Nth(kept, j) = Nth(kept, k)
    BY <1>10, <2>1, <2>2 DEF ValidRequest
  <2> QED BY <1>5, <1>8, <2>3
<1>11. DOMAIN ps \subseteq Numbers
  <2>1. DOMAIN ps \subseteq DOMAIN changes
    BY <1>1, <1>3, <1>8
  <2> QED BY <2>1 DEF Numbers
<1>12. Proposal(no, items, changes) = [no |-> no, baseline |-> items, patches |-> ps]
  BY DEF Proposal, ps
<1>13. PICK p : p = Proposal(no, items, changes)
  OBVIOUS
<1>14. p.no = no /\ p.baseline = items /\ p.patches = ps /\ p \in PacketType
  BY <1>8, <1>12, <1>13 DEF PacketType
<1>15. Proper(p)
  BY <1>9, <1>10, <1>11, <1>14 DEF Proper
<1> QED BY <1>13, <1>14, <1>15

\* A patch stands for the same item, and tests the same revision, wherever it is read.
LEMMA PatchIs ==
  ASSUME NEW p, Proper(p), NEW k \in DOMAIN p.patches
  PROVE  /\ p.patches[k] \in PatchType /\ p.patches[k].change \in ChangeType
         /\ p.patches[k].change.issue \in WorkItems /\ p.patches[k].rev \in Nat \ {0}
<1>1. p.patches \in Seq(PatchType)
  BY DEF Proper, PacketType
<1>2. p.patches[k] \in PatchType
  BY <1>1
<1>3. p.patches[k].rev # Untested
  BY DEF Proper
<1> QED BY <1>2, <1>3 DEF PatchType, ChangeType, Untested

-----------------------------------------------------------------------------
(* Boards. *)

\* Being earlier composes.
LEMMA EarlierStill ==
  ASSUME NEW b \in BoardType, NEW now \in BoardType, NEW later \in BoardType,
         Earlier(b, now), Earlier(now, later)
  PROVE  Earlier(b, later)
<1> SUFFICES ASSUME NEW i \in WorkItems
             PROVE  /\ b[i].rev <= later[i].rev
                    /\ b[i].rev = later[i].rev => b[i].tags = later[i].tags
    BY DEF Earlier
<1>1. b[i].rev \in Nat /\ now[i].rev \in Nat /\ later[i].rev \in Nat
  BY DEF BoardType
<1> QED BY <1>1 DEF Earlier

\* A board read since the proposal stays one.
LEMMA StillReached ==
  ASSUME NEW p, NEW b, NEW n, NEW now \in BoardType, NEW later \in BoardType,
         Reached(now, p, b, n), Earlier(now, later)
  PROVE  Reached(later, p, b, n)
BY EarlierStill DEF Reached

\* A PATCH only moves the items it names, its own to the tags it writes.
LEMMA PatchedMoves ==
  ASSUME NEW now \in BoardType, NEW patch \in PatchType
  PROVE  LET later == Patched(now, patch)
             key == patch.change.issue
         IN  /\ later \in BoardType /\ Earlier(now, later)
             /\ later[key].rev = now[key].rev + 1
             /\ later[key].tags = patch.tags
             /\ \A i \in WorkItems : now[i].preds \subseteq later[i].preds
             /\ \A i \in WorkItems \ {key} : later[i].tags = now[i].tags
<1> DEFINE key == patch.change.issue
<1>1. PICK later : later = Patched(now, patch)
  OBVIOUS
<1>2. later = [i \in WorkItems |->
        [rev |-> now[i].rev + (IF i = key \/ i \in patch.preds THEN 1 ELSE 0),
         tags |-> IF i = key THEN patch.tags ELSE now[i].tags,
         preds |-> IF i = key THEN now[i].preds \cup patch.preds ELSE now[i].preds]]
  BY <1>1 DEF Patched
<1>3. key \in WorkItems /\ patch.tags \in SUBSET Tags /\ patch.preds \in SUBSET WorkItems
  BY DEF PatchType, ChangeType
<1> HIDE DEF key
<1>4. ASSUME NEW i \in WorkItems
      PROVE  /\ later[i] \in [rev : Nat \ {0}, tags : SUBSET Tags, preds : SUBSET WorkItems]
             /\ now[i].rev <= later[i].rev
             /\ now[i].rev = later[i].rev => now[i].tags = later[i].tags
             /\ i = key => later[i].rev = now[i].rev + 1 /\ later[i].tags = patch.tags
             /\ now[i].preds \subseteq later[i].preds
             /\ i # key => later[i].tags = now[i].tags
  <2>1. /\ now[i].rev \in Nat \ {0} /\ now[i].tags \in SUBSET Tags /\ now[i].preds \in SUBSET WorkItems
    BY DEF BoardType
  <2>2. CASE i = key
    <3>1. later[i] = [rev |-> now[i].rev + 1, tags |-> patch.tags, preds |-> now[i].preds \cup patch.preds]
      BY <1>2, <2>2
    <3> QED BY <1>3, <2>1, <2>2, <3>1
  <2>3. CASE i # key
    <3>1. PICK r : r = now[i].rev + (IF i \in patch.preds THEN 1 ELSE 0)
      OBVIOUS
    <3>2. later[i] = [rev |-> r, tags |-> now[i].tags, preds |-> now[i].preds]
      BY <1>2, <2>3, <3>1
    <3>3. r \in Nat \ {0} /\ now[i].rev <= r
      BY <2>1, <3>1
    <3> QED BY <2>1, <2>3, <3>2, <3>3
  <2> QED BY <2>2, <2>3
<1>5. later \in BoardType
  BY <1>2, <1>4 DEF BoardType
<1> QED BY <1>1, <1>3, <1>4, <1>5 DEF Earlier, key

\* The postcondition of a change, seen on a board that its patch found at the
\* revision that it tests, is the whole of what the patch writes.
LEMMA AfterIsDone ==
  ASSUME NEW p, Proper(p), NEW k \in DOMAIN p.patches, NEW now \in BoardType, NEW b,
         Reached(now, p, b, k - 1), b[p.patches[k].change.issue].rev = p.patches[k].rev,
         IsAfter(b, now, p.patches[k].change)
  PROVE  LET key == p.patches[k].change.issue
         IN  /\ Reached(now, p, now, k)
             /\ now[key].rev = p.patches[k].rev + 1
             /\ now[key].tags = p.patches[k].tags /\ p.patches[k].preds \subseteq now[key].preds
<1> DEFINE key == p.patches[k].change.issue
           change == p.patches[k].change
           new == NewPreds(change, b)
<1>1. /\ p.patches[k] \in PatchType /\ change \in ChangeType /\ key \in WorkItems
      /\ p.patches[k].rev \in Nat \ {0}
  BY PatchIs
<1>2. DOMAIN p.patches = 1..Len(p.patches) /\ Len(p.patches) \in Nat /\ p.baseline \in BoardType
  BY DEF Proper, PacketType
<1>3. k \in Nat /\ k - 1 \in Nat /\ 1..(k - 1) \subseteq DOMAIN p.patches /\ k \in 1..k
  BY <1>2
<1>4. /\ p.patches[k].tags = DesiredTags(p.baseline[key].tags, change)
      /\ p.patches[k].preds = NewPreds(change, p.baseline)
      /\ \A j \in 1..(k - 1) : p.patches[j].change.issue # key
  BY <1>3 DEF Proper
<1>5. \A i \in WorkItems :
        /\ now[i].rev = b[i].rev + (IF i = key \/ i \in new THEN 1 ELSE 0)
        /\ now[i].tags = IF i = key THEN DesiredTags(b[i].tags, change) ELSE b[i].tags
        /\ now[i].preds = IF i = key THEN b[i].preds \cup new ELSE b[i].preds
  BY DEF IsAfter
<1>6. b \in BoardType /\ \A i \in WorkItems : /\ p.baseline[i].rev <= b[i].rev
                                              /\ b[i].rev \in Nat /\ p.baseline[i].rev \in Nat
  BY <1>2 DEF Reached, BoardType
<1>7. b[key].tags = p.baseline[key].tags
  BY <1>1, <1>4 DEF Reached
<1>8. /\ now[key].rev = p.patches[k].rev + 1
      /\ now[key].tags = p.patches[k].tags
  BY <1>1, <1>4, <1>5, <1>7
<1>9. p.patches[k].preds \subseteq now[key].preds
  <2>1. now[key].preds = b[key].preds \cup (change.preds \ b[key].preds)
    BY <1>1, <1>5 DEF NewPreds
  <2>2. p.patches[k].preds \subseteq change.preds
    BY <1>4 DEF NewPreds
  <2> QED BY <2>1, <2>2
<1>10. \A i \in WorkItems : p.baseline[i].rev <= now[i].rev
  <2> SUFFICES ASSUME NEW i \in WorkItems PROVE p.baseline[i].rev <= now[i].rev
      OBVIOUS
  <2>1. PICK d \in {0, 1} : now[i].rev = b[i].rev + d
    BY <1>5
  <2> QED BY <1>6, <2>1
<1>11. ASSUME NEW i \in WorkItems, \A j \in 1..k : p.patches[j].change.issue # i
       PROVE  now[i].tags = p.baseline[i].tags
  <2>1. i # key /\ \A j \in 1..(k - 1) : p.patches[j].change.issue # i
    BY <1>3, <1>11
  <2>2. now[i].tags = b[i].tags
    BY <1>5, <2>1
  <2>3. b[i].tags = p.baseline[i].tags
    BY <2>1 DEF Reached
  <2> QED BY <2>2, <2>3
<1>12. Earlier(now, now)
  BY DEF Earlier, BoardType
<1> QED BY <1>8, <1>9, <1>10, <1>11, <1>12 DEF Reached

-----------------------------------------------------------------------------
(* The reconciliation: parts of a step. *)

\* What the run has replayed was reached, and the baseline is where it starts.
LEMMA ReplayedReached ==
  ASSUME ReconcileInv, NEW n \in 0..Len(journal), n = 0 \/ journal[n].status = "verified"
  PROVE  Reached(board, packet, After(journal, n), n)
<1>1. CASE n = 0
  BY <1>1 DEF ReconcileInv, ServiceHolds, After
<1>2. CASE n # 0
  <2>1. n \in DOMAIN journal /\ journal[n].status = "verified"
    BY <1>2 DEF ReconcileInv, JournalHolds
  <2> QED BY <1>2, <2>1 DEF ReconcileInv, JournalHolds, EntryHolds, After
<1> QED BY <1>1, <1>2

\* A run that ends leaves nothing behind it, and reports "applied" only from EndApply.
LEMMA Ended ==
  ASSUME NEW receipt \in {"none", "uncertain_unapplied"}, Ends(receipt)
  PROVE  RunHolds'
<1>1. PICK r : r = [NoRun EXCEPT !.receipt = receipt]
  OBVIOUS
<1>2. /\ NoRun \in RunType /\ NoRun.pc = "idle"
  <2>1. << >> \in Seq(EntryType) /\ 0 \in 0..MaxSends /\ FirstBoard \in BoardType
    BY ReconcileAssumption
  <2> QED BY <2>1 DEF NoRun, RunType
<1>3. r \in RunType /\ r.pc = "idle" /\ r.receipt = receipt
  BY <1>1, <1>2 DEF RunType
<1>4. run' = r
  BY <1>1 DEF Ends
<1> QED BY <1>3, <1>4 DEF RunHolds

\* A step of the run alone.
LEMMA RunMoves ==
  ASSUME ReconcileInv, granted' \in BOOLEAN, UNCHANGED <<boardVars, packet, journal, wire, count>>, RunHolds'
  PROVE  ReconcileInv'
<1>1. ServiceHolds'
  BY DEF ReconcileInv, ServiceHolds, boardVars
<1>2. JournalHolds'
  <2>1. ASSUME NEW k \in DOMAIN journal PROVE EntryHolds(k)'
    BY DEF ReconcileInv, JournalHolds, EntryHolds, Settled, After, Issue, Rev, boardVars
  <2> QED BY <2>1 DEF ReconcileInv, JournalHolds
<1>3. WireHolds'
  <2>1. ASSUME NEW w \in wire PROVE RequestHolds(w)'
    BY DEF ReconcileInv, WireHolds, RequestHolds, Late, boardVars
  <2> QED BY <2>1 DEF ReconcileInv, WireHolds
<1>4. LandedHolds'
  BY DEF ReconcileInv, LandedHolds, Issue, Rev, boardVars
<1> QED BY <1>1, <1>2, <1>3, <1>4 DEF ReconcileInv

\* The last entry of the journal is written anew.
LEMMA LastMoves ==
  ASSUME ReconcileInv, Len(journal) > 0, NEW e \in EntryType, e.patch = journal[Len(journal)].patch,
         journal' = [journal EXCEPT ![Len(journal)] = e],
         e.status = "verified" => /\ Reached(board, packet, e.after, Len(journal))
                                  /\ Settled(Len(journal)),
         UNCHANGED <<boardVars, packet, granted, wire, count>>, RunHolds'
  PROVE  ReconcileInv'
<1> DEFINE n == Len(journal)
<1>1. /\ journal \in Seq(EntryType) /\ n \in Nat /\ n <= Len(packet.patches)
      /\ DOMAIN journal = 1..n /\ n \in DOMAIN journal
      /\ \A k \in DOMAIN journal : EntryHolds(k)
  BY DEF ReconcileInv, JournalHolds
<1>2. /\ journal' \in Seq(EntryType) /\ Len(journal') = n /\ DOMAIN journal' = 1..n
      /\ journal'[n] = e /\ \A k \in 1..n : k # n => journal'[k] = journal[k]
  <2>1. journal \in Seq(EntryType) /\ n \in DOMAIN journal /\ DOMAIN journal = 1..n /\ n \in Nat
    BY <1>1
  <2>2. journal' = [journal EXCEPT ![n] = e]
    OBVIOUS
  <2> HIDE DEF n
  <2>3. journal' \in Seq(EntryType) /\ DOMAIN journal' = 1..n
    BY <2>1, <2>2
  <2> QED BY <2>1, <2>2, <2>3
<1>3. \A k \in 0..(n - 1) : After(journal, k)' = After(journal, k)
  <2>1. ASSUME NEW k \in 0..(n - 1) PROVE After(journal, k)' = After(journal, k)
    <3>1. k # 0 => k \in 1..n /\ k # n
      <4>1. n \in Nat
        BY <1>1
      <4> QED BY <4>1
    <3> QED BY <1>2, <3>1 DEF After
  <2> QED BY <2>1
<1>4. \A k : Settled(k) => Settled(k)'
  BY DEF Settled, Issue, Rev, boardVars
<1>5. ASSUME NEW k \in 1..n PROVE EntryHolds(k)'
  <2>1. EntryHolds(k) /\ k - 1 \in 0..(n - 1)
    BY <1>1
  <2>2. After(journal, k - 1)' = After(journal, k - 1)
    BY <1>3, <2>1
  <2>3. CASE k = n
    <3>1. journal[k].patch = packet.patches[k]
      BY <2>1 DEF EntryHolds
    <3>2. e.status = "verified" => Reached(board, packet, e.after, k) /\ Settled(k)'
      BY <1>4, <2>3
    <3>3. journal'[k] = e /\ ~(k < Len(journal'))
      <4>1. Len(journal') = n /\ n \in Nat /\ journal'[n] = e
        BY <1>1, <1>2
      <4> QED BY <2>3, <4>1
    <3>4. After(journal, k - 1)[Issue(k)].rev = Rev(k)
      BY <2>1 DEF EntryHolds
    <3> QED BY <2>2, <2>3, <3>1, <3>2, <3>3, <3>4 DEF EntryHolds, Issue, Rev, boardVars
  <2>4. CASE k # n
    <3>1. journal'[k] = journal[k]
      BY <1>2, <2>4
    <3>2. (k < Len(journal')) = (k < Len(journal))
      BY <1>2
    <3> QED BY <1>4, <2>1, <2>2, <3>1, <3>2 DEF EntryHolds, Issue, Rev, boardVars
  <2> QED BY <2>3, <2>4
<1>6. JournalHolds'
  BY <1>1, <1>2, <1>5 DEF JournalHolds
<1>7. ServiceHolds'
  BY DEF ReconcileInv, ServiceHolds, boardVars
<1>8. WireHolds'
  <2>1. ASSUME NEW w \in wire PROVE RequestHolds(w)'
    BY <1>2 DEF ReconcileInv, WireHolds, RequestHolds, Late, boardVars
  <2> QED BY <2>1 DEF ReconcileInv, WireHolds
<1>9. LandedHolds'
  BY <1>2 DEF ReconcileInv, LandedHolds, Issue, Rev, boardVars
<1> QED BY <1>6, <1>7, <1>8, <1>9 DEF ReconcileInv

\* The last entry's postcondition, seen on the board: the patch is done, and every
\* request for its item is late.
LEMMA LastIsDone ==
  ASSUME ReconcileInv, Len(journal) > 0,
         IsAfter(After(journal, Len(journal) - 1), board, packet.patches[Len(journal)].change)
  PROVE  Reached(board, packet, board, Len(journal)) /\ Settled(Len(journal))
<1> DEFINE n == Len(journal)
           b == After(journal, n - 1)
<1>1. /\ n \in DOMAIN journal /\ n \in DOMAIN packet.patches /\ EntryHolds(n)
      /\ n \in Nat /\ DOMAIN packet.patches = 1..Len(packet.patches)
      /\ \A k \in DOMAIN journal : EntryHolds(k)
  BY DEF ReconcileInv, JournalHolds, ServiceHolds, Proper, PacketType
<1>2. Reached(board, packet, b, n - 1)
  <2> n \in Nat /\ n > 0 /\ DOMAIN journal = 1..n
    BY <1>1 DEF ReconcileInv, JournalHolds
  <2> HIDE DEF n
  <2>1. n - 1 \in 0..n
    OBVIOUS
  <2>2. n - 1 = 0 \/ (n - 1 \in DOMAIN journal /\ n - 1 < n)
    OBVIOUS
  <2>3. n - 1 = 0 \/ journal[n - 1].status = "verified"
    BY <1>1, <2>2 DEF EntryHolds, n
  <2> QED BY <2>1, <2>3, ReplayedReached DEF n
<1>3. b[Issue(n)].rev = Rev(n) /\ board \in BoardType /\ Proper(packet)
  BY <1>1 DEF EntryHolds, ReconcileInv, ServiceHolds
<1>4. /\ Reached(board, packet, board, n)
      /\ board[Issue(n)].rev = Rev(n) + 1
      /\ board[Issue(n)].tags = packet.patches[n].tags
      /\ packet.patches[n].preds \subseteq board[Issue(n)].preds
  BY <1>1, <1>2, <1>3, AfterIsDone DEF Issue, Rev
<1>5. Issue(n) \in WorkItems /\ Rev(n) \in Nat
  BY <1>1, <1>3, PatchIs DEF Issue, Rev
<1>6. ASSUME NEW w \in wire, w.patch.change.issue = Issue(n) PROVE w.patch.rev <= Rev(n)
  <2>1. w \in RequestType /\ RequestHolds(w)
    BY DEF ReconcileInv, WireHolds
  <2>2. w.no \in Nat /\ packet.no \in Nat /\ w.no <= packet.no /\ w.patch.rev \in Nat
    BY <1>3, <2>1, ReconcileAssumption DEF RequestType, PatchType, RequestHolds, Proper, PacketType
  <2>3. CASE w.no < packet.no
    <3>1. w.patch.rev <= packet.baseline[Issue(n)].rev
      BY <1>6, <2>1, <2>3 DEF RequestHolds
    <3>2. packet.baseline[Issue(n)].rev <= b[Issue(n)].rev
      BY <1>2, <1>5 DEF Reached
    <3>3. packet.baseline[Issue(n)].rev \in Nat
      BY <1>3, <1>5 DEF Proper, PacketType, BoardType
    <3> QED BY <1>3, <1>5, <2>2, <3>1, <3>2, <3>3
  <2>4. CASE w.no = packet.no
    <3>1. w.step \in 1..n /\ w.patch = packet.patches[w.step]
      BY <2>1, <2>4 DEF RequestHolds
    <3>2. w.step \in DOMAIN packet.patches
      BY <1>1, <3>1
    <3>3. w.step = n
      BY <1>1, <1>3, <1>6, <3>1, <3>2 DEF Proper, Issue
    <3> QED BY <1>5, <3>1, <3>3 DEF Rev
  <2> QED BY <2>2, <2>3, <2>4
<1>7. \A w \in wire : w.patch.rev \in Nat
  BY DEF ReconcileInv, WireHolds, RequestType, PatchType
<1>8. Settled(n)
  BY <1>4, <1>5, <1>6, <1>7 DEF Settled
<1> QED BY <1>4, <1>8

\* The board moves on, by a person's edit or a request that lands; some requests are gone.
LEMMA BoardMoves ==
  ASSUME ReconcileInv, board' \in BoardType, Earlier(board, board'), wire' \subseteq wire,
         UNCHANGED <<packet, journal, granted>>, RunHolds', LandedHolds',
         count' \in [packets : 1..MaxPackets, edits : Nat, sends : 0..MaxSends], count'.packets = count.packets,
         count'.edits = 0 => count.edits = 0,
         \A k \in DOMAIN journal : count'.edits = 0 /\ Settled(k) =>
            board'[Issue(k)].tags = board[Issue(k)].tags /\ board[Issue(k)].preds \subseteq board'[Issue(k)].preds,
         \A v \in wire' : \A n \in DOMAIN landed'[v.no] : v.step <= landed'[v.no][n] => Late(v)'
  PROVE  ReconcileInv'
<1>1. board \in BoardType /\ Proper(packet) /\ packet.baseline \in BoardType
  BY DEF ReconcileInv, ServiceHolds, Proper, PacketType
<1>2. ServiceHolds'
  <2>1. Reached(board', packet, packet.baseline, 0)
    BY <1>1, StillReached DEF ReconcileInv, ServiceHolds
  <2> QED BY <2>1 DEF ReconcileInv, ServiceHolds
<1>3. \A i \in WorkItems : /\ board[i].rev \in Nat /\ board'[i].rev \in Nat /\ board[i].rev <= board'[i].rev
                           /\ board[i].rev = board'[i].rev => board[i].tags = board'[i].tags
  BY <1>1 DEF BoardType, Earlier
<1>4. \A w \in wire : /\ w.patch.rev \in Nat /\ w.patch.change.issue \in WorkItems
                      /\ w.no \in Nat
  BY DEF ReconcileInv, WireHolds, RequestType, PatchType, ChangeType
<1>5. JournalHolds'
  <2>1. ASSUME NEW k \in DOMAIN journal PROVE EntryHolds(k)'
    <3>1. EntryHolds(k) /\ k \in DOMAIN packet.patches
      BY DEF ReconcileInv, JournalHolds
    <3>2. Issue(k) \in WorkItems /\ Rev(k) \in Nat
      BY <1>1, <3>1, PatchIs DEF Issue, Rev
    <3>3. Issue(k)' = Issue(k) /\ Rev(k)' = Rev(k) /\ After(journal, k - 1)' = After(journal, k - 1)
      BY DEF Issue, Rev, After
    <3>4. ASSUME Settled(k) PROVE Settled(k)'
      <4>1. Rev(k) < board'[Issue(k)].rev
        <5>1. board[Issue(k)].rev \in Nat /\ board'[Issue(k)].rev \in Nat /\ board[Issue(k)].rev <= board'[Issue(k)].rev
          BY <1>3, <3>2
        <5>2. Rev(k) < board[Issue(k)].rev
          BY <3>4 DEF Settled
        <5> QED BY <3>2, <5>1, <5>2
      <4>2. \A w \in wire' : w.patch.change.issue = Issue(k) => w.patch.rev < board'[Issue(k)].rev
        <5>1. board[Issue(k)].rev \in Nat /\ board'[Issue(k)].rev \in Nat /\ board[Issue(k)].rev <= board'[Issue(k)].rev
          BY <1>3, <3>2
        <5> SUFFICES ASSUME NEW w \in wire', w.patch.change.issue = Issue(k)
                     PROVE  w.patch.rev < board'[Issue(k)].rev
            OBVIOUS
        <5>2. w \in wire /\ w.patch.rev \in Nat
          BY <1>4
        <5>3. w.patch.rev < board[Issue(k)].rev
          BY <3>4, <5>2 DEF Settled
        <5> QED BY <5>1, <5>2, <5>3
      <4>3. count'.edits = 0 => /\ board'[Issue(k)].tags = packet.patches[k].tags
                                /\ packet.patches[k].preds \subseteq board'[Issue(k)].preds
        BY <3>4 DEF Settled
      <4> QED BY <3>3, <4>1, <4>2, <4>3 DEF Settled
    <3>5. journal[k].status = "verified" => Reached(board', packet, journal[k].after, k)
      BY <1>1, <3>1, StillReached DEF EntryHolds
    <3> QED BY <3>1, <3>3, <3>4, <3>5 DEF EntryHolds
  <2> QED BY <2>1 DEF ReconcileInv, JournalHolds
<1>6. WireHolds'
  <2>1. ASSUME NEW w \in wire' PROVE RequestHolds(w)'
    <3> DEFINE i == w.patch.change.issue
    <3>1. w \in wire /\ RequestHolds(w) /\ i \in WorkItems /\ w.patch.rev \in Nat
      BY <1>4 DEF ReconcileInv, WireHolds
    <3>2. /\ board[i].rev \in Nat /\ board'[i].rev \in Nat /\ board[i].rev <= board'[i].rev
          /\ board[i].rev = board'[i].rev => board[i].tags = board'[i].tags
      BY <1>3, <3>1
    <3>3. /\ w.patch.rev <= board[i].rev
          /\ ~(w.patch.rev < board[i].rev) => w.patch.tags = DesiredTags(board[i].tags, w.patch.change)
      BY <3>1 DEF RequestHolds, Late
    <3>5. /\ w.patch.rev <= board'[i].rev
          /\ w.patch.rev < board[i].rev => w.patch.rev < board'[i].rev
          /\ ~(w.patch.rev < board'[i].rev) => board[i].rev = board'[i].rev /\ ~(w.patch.rev < board[i].rev)
      BY <3>1, <3>2, <3>3
    <3>6. ~(w.patch.rev < board'[i].rev) => w.patch.tags = DesiredTags(board'[i].tags, w.patch.change)
      BY <3>2, <3>3, <3>5
    <3>4. /\ w.step \in Numbers /\ w.no <= packet.no /\ w.patch.rev # Untested
          /\ w.no < packet.no => w.patch.rev <= packet.baseline[i].rev
          /\ w.no = packet.no => w.step \in 1..Len(journal) /\ w.patch = packet.patches[w.step]
          /\ \A v \in wire : v.no = w.no => /\ w.step < v.step => Late(w)
                                            /\ w.step = v.step => w.patch = v.patch
      BY <3>1 DEF RequestHolds
    <3> HIDE DEF i
    <3>7. Late(w) => Late(w)'
      BY <3>5 DEF Late, i
    <3>8. ~Late(w)' => w.patch.tags = DesiredTags(board'[i].tags, w.patch.change)
      BY <3>6 DEF Late, i
    <3> QED BY <3>4, <3>5, <3>7, <3>8 DEF RequestHolds, i
  <2> QED BY <2>1 DEF ReconcileInv, WireHolds
<1> QED BY <1>2, <1>5, <1>6 DEF ReconcileInv

\* Where the last entry of the journal is the patch in hand.
LEMMA AtLast ==
  ASSUME ReconcileInv, run.pc \in {"resume", "send", "wait", "readback"}
  PROVE  LET n == Len(journal)
         IN  /\ n \in Nat \ {0} /\ n \in DOMAIN packet.patches
             /\ run.entries = journal /\ run.receipt # "applied"
             /\ LastEntry = journal[n] /\ journal[n] \in EntryType /\ journal[n].patch = packet.patches[n]
             /\ run.expected = After(journal, n - 1)
             /\ run.expected[Issue(n)].rev = Rev(n)
             /\ Reached(board, packet, run.expected, n - 1)
             /\ \A k \in 1..(n - 1) : journal[k].status = "verified"
<1> DEFINE n == Len(journal)
<1>1. /\ run.pc # "idle" /\ run.entries = journal /\ run.receipt # "applied" /\ BusyHolds
  BY DEF ReconcileInv, RunHolds, BusyHolds
<1>2. Replayed = n - 1
  BY <1>1 DEF Replayed
<1>3. /\ journal \in Seq(EntryType) /\ n \in Nat /\ DOMAIN journal = 1..n
      /\ packet.patches \in Seq(PatchType) /\ n <= Len(packet.patches)
      /\ \A k \in DOMAIN journal : EntryHolds(k)
  BY DEF ReconcileInv, JournalHolds, ServiceHolds, Proper, PacketType
<1>4. n - 1 \in Nat /\ run.expected = After(journal, n - 1)
      /\ \A k \in 1..(n - 1) : journal[k].status = "verified"
  BY <1>1, <1>2 DEF BusyHolds
<1>5. n \in Nat \ {0} /\ n \in DOMAIN journal /\ n \in DOMAIN packet.patches /\ n - 1 \in 0..n
  <2> HIDE DEF n
  <2> QED BY <1>3, <1>4
<1>6. LastEntry = journal[n] /\ journal[n] \in EntryType
  BY <1>1, <1>3, <1>5 DEF LastEntry, Last
<1>7. journal[n].patch = packet.patches[n] /\ run.expected[Issue(n)].rev = Rev(n)
  BY <1>3, <1>4, <1>5 DEF EntryHolds
<1>8. n - 1 = 0 \/ journal[n - 1].status = "verified"
  <2>1. n - 1 = 0 \/ n - 1 \in 1..(n - 1)
    <3>1. n \in Nat \ {0}
      BY <1>5
    <3> HIDE DEF n
    <3> QED BY <3>1
  <2> QED BY <1>4, <2>1
<1>9. Reached(board, packet, run.expected, n - 1)
  BY <1>4, <1>5, <1>8, ReplayedReached
<1> QED BY <1>1, <1>4, <1>5, <1>6, <1>7, <1>9

\* Where everything the run has is verified.
LEMMA AtNext ==
  ASSUME ReconcileInv, run.pc \in {"check", "next", "intend"}
  PROVE  LET n == Len(run.entries)
         IN  /\ n \in 0..Len(journal) /\ Len(journal) <= n + 1 /\ run.entries \in Seq(EntryType)
             /\ run.receipt # "applied"
             /\ \A k \in 1..n : run.entries[k] = journal[k] /\ journal[k].status = "verified"
             /\ run.expected = After(journal, n)
             /\ Reached(board, packet, run.expected, n)
<1> DEFINE n == Len(run.entries)
<1>1. /\ run.receipt # "applied" /\ BusyHolds /\ run.entries \in Seq(EntryType)
  BY DEF ReconcileInv, RunHolds, RunType
<1>2. Replayed = n
  BY DEF Replayed
<1>3. /\ n \in Nat /\ n <= Len(journal) /\ Len(journal) <= n + 1
      /\ \A k \in 1..n : run.entries[k] = journal[k] /\ journal[k].status = "verified"
      /\ run.expected = After(journal, n)
  BY <1>1, <1>2 DEF BusyHolds
<1>4. Len(journal) \in Nat
  BY DEF ReconcileInv, JournalHolds
<1>5. n \in 0..Len(journal)
  BY <1>3, <1>4
<1>6. n = 0 \/ journal[n].status = "verified"
  <2>1. n = 0 \/ n \in 1..n
    BY <1>3
  <2> QED BY <1>3, <2>1
<1>7. Reached(board, packet, run.expected, n)
  BY <1>3, <1>5, <1>6, ReplayedReached
<1> QED BY <1>1, <1>3, <1>5, <1>7

\* The last entry gets its answer, and the run ends.
LEMMA LastAnswered ==
  ASSUME ReconcileInv, run.pc \in {"resume", "send", "wait", "readback"},
         NEW status \in {"uncertain_unapplied", "conflict"}, NEW after \in BoardType,
         journal' = WithStatus(status, after),
         NEW receipt \in {"none", "uncertain_unapplied"}, Ends(receipt),
         UNCHANGED <<boardVars, packet, granted, wire, count>>
  PROVE  ReconcileInv'
<1>1. /\ Len(journal) \in Nat \ {0} /\ run.entries = journal /\ journal[Len(journal)] \in EntryType
      /\ journal \in Seq(EntryType)
  BY AtLast DEF ReconcileInv, JournalHolds
<1>2. PICK e : e = [journal[Len(journal)] EXCEPT !.status = status, !.after = after]
  OBVIOUS
<1>3. e \in EntryType /\ e.patch = journal[Len(journal)].patch /\ e.status # "verified"
  BY <1>1, <1>2 DEF EntryType
<1>4. journal' = [journal EXCEPT ![Len(journal)] = e]
  BY <1>1, <1>2 DEF WithStatus
<1>5. Len(journal) > 0
  BY <1>1
<1> QED BY <1>3, <1>4, <1>5, LastMoves, Ended

\* The effect of the last entry's patch is seen, and the run goes on from the board it saw.
LEMMA LastVerified ==
  ASSUME ReconcileInv, run.pc \in {"resume", "readback"},
         IsAfter(run.expected, board, LastEntry.patch.change),
         journal' = WithStatus("verified", board),
         run' \in RunType, run'.pc \in {"check", "next"}, run'.entries = journal', run'.expected = board,
         run'.receipt # "applied", UNCHANGED <<boardVars, packet, granted, wire, count>>
  PROVE  ReconcileInv'
<1> DEFINE n == Len(journal)
<1>1. /\ n \in Nat \ {0} /\ run.entries = journal /\ journal[n] \in EntryType
      /\ journal[n].patch = packet.patches[n] /\ LastEntry = journal[n]
      /\ run.expected = After(journal, n - 1) /\ journal \in Seq(EntryType)
      /\ \A k \in 1..(n - 1) : journal[k].status = "verified"
  BY AtLast DEF ReconcileInv, JournalHolds
<1>2. n > 0 /\ board \in BoardType
  BY <1>1 DEF ReconcileInv, ServiceHolds
<1>3. Reached(board, packet, board, n) /\ Settled(n)
  BY <1>1, <1>2, LastIsDone
<1>4. PICK e : e = [journal[n] EXCEPT !.status = "verified", !.after = board]
  OBVIOUS
<1>5. e \in EntryType /\ e.patch = journal[n].patch /\ e.status = "verified" /\ e.after = board
  BY <1>1, <1>2, <1>4 DEF EntryType
<1>6. journal' = [journal EXCEPT ![n] = e]
  BY <1>1, <1>4 DEF WithStatus
<1>7. RunHolds'
  <2>1. /\ Len(journal') = n /\ journal'[n] = e /\ \A k \in 1..(n - 1) : journal'[k] = journal[k]
    <3>1. DOMAIN journal = 1..n
      BY <1>1
    <3> HIDE DEF n
    <3> QED BY <1>1, <1>2, <1>6, <3>1
  <2>2. Replayed' = n
    BY <2>1 DEF Replayed
  <2>3. \A k \in 1..n : journal'[k].status = "verified"
    <3> SUFFICES ASSUME NEW k \in 1..n PROVE journal'[k].status = "verified"
        OBVIOUS
    <3>1. k = n \/ k \in 1..(n - 1)
      BY <1>1
    <3> QED BY <1>1, <1>5, <2>1, <3>1
  <2>4. run'.expected = After(journal, n)'
    BY <1>1, <1>5, <2>1 DEF After
  <2>5. n <= n + 1 /\ n <= n /\ n \in Nat
    BY <1>1
  <2>6. BusyHolds'
    BY <2>1, <2>2, <2>3, <2>4, <2>5 DEF BusyHolds
  <2> QED BY <2>6 DEF RunHolds
<1> HIDE DEF n
<1>8. Len(journal) = n
  BY DEF n
<1> QED BY <1>2, <1>3, <1>5, <1>6, <1>7, <1>8, LastMoves

-----------------------------------------------------------------------------
(* The reconciliation: the steps, one by one. *)

\* What an ending step of the run, which writes nothing, keeps.
LEMMA RaisesKeeps ==
  ASSUME ReconcileInv, Raises, UNCHANGED <<boardVars, packet, journal, granted, wire, count>>
  PROVE  ReconcileInv'
<1>1. RunHolds'
  BY Ended DEF Raises
<1>2. granted' \in BOOLEAN
  BY DEF ReconcileInv, ServiceHolds
<1> QED BY <1>1, <1>2, RunMoves

\* The entries found verified are replayed.
LEMMA BeginApplyKeeps == ASSUME ReconcileInv, BeginApply PROVE ReconcileInv'
<1> DEFINE verified == {k \in DOMAIN journal : journal[k].status = "verified"}
           n == Len(journal)
<1>1. /\ journal \in Seq(EntryType) /\ n \in Nat /\ DOMAIN journal = 1..n
      /\ \A k \in DOMAIN journal : k < n => journal[k].status = "verified"
  BY DEF ReconcileInv, JournalHolds, EntryHolds
<1>2. PICK m \in Nat :
        /\ m = IF verified = DOMAIN journal THEN n ELSE n - 1
        /\ Cardinality(verified) = m
        /\ \A k \in 1..m : journal[k].status = "verified"
        /\ verified # DOMAIN journal => m + 1 = n
  <2>1. CASE verified = DOMAIN journal
    <3>1. Cardinality(1..n) = n
      BY <1>1, CountTo
    <3>2. Cardinality(verified) = n
      BY <1>1, <2>1, <3>1
    <3>3. \A k \in 1..n : journal[k].status = "verified"
      BY <1>1, <2>1
    <3> QED BY <1>1, <2>1, <3>2, <3>3
  <2>2. CASE verified # DOMAIN journal
    <3>1. PICK k \in 1..n : journal[k].status # "verified"
      BY <1>1, <2>2
    <3>2. k = n
      BY <1>1, <3>1
    <3>3. n # 0 /\ n - 1 \in Nat /\ n - 1 + 1 = n /\ journal[n].status # "verified"
      BY <1>1, <3>1, <3>2
    <3>4. verified = 1..(n - 1)
      <4>1. \A j \in 1..n : journal[j].status = "verified" <=> j \in 1..(n - 1)
        BY <1>1, <3>3
      <4>2. 1..(n - 1) \subseteq 1..n
        BY <3>3
      <4> QED BY <1>1, <4>1, <4>2
    <3>5. Cardinality(1..(n - 1)) = n - 1
      BY <3>3, CountTo
    <3>6. Cardinality(verified) = n - 1
      BY <3>3, <3>4, <3>5
    <3>7. \A j \in 1..(n - 1) : journal[j].status = "verified"
      BY <3>4
    <3> QED BY <2>2, <3>3, <3>6, <3>7
  <2> QED BY <2>1, <2>2
<1>3. PICK pc \in {"check", "resume"} : pc = IF verified = DOMAIN journal THEN "check" ELSE "resume"
  OBVIOUS
<1>4. /\ run' = [NoRun EXCEPT !.pc = pc, !.entries = journal, !.expected = After(journal, m)]
      /\ UNCHANGED <<boardVars, packet, journal, granted, wire, count>>
  BY <1>2, <1>3 DEF BeginApply, Goes
<1> HIDE DEF verified, n
<1>5. After(journal, m) \in BoardType
  <2>1. m \in 0..Len(journal)
    <3>1. m = n \/ m + 1 = n
      BY <1>2
    <3>2. m \in 0..n
      BY <1>1, <3>1
    <3> QED BY <3>2 DEF n
  <2>2. m = 0 \/ journal[m].status = "verified"
    BY <1>2
  <2> QED BY <2>1, <2>2, ReplayedReached DEF Reached
<1>6. /\ run' \in RunType /\ run'.pc = pc /\ run'.entries = journal /\ run'.expected = After(journal, m)
      /\ run'.receipt = "none"
  <2>1. 0 \in 0..MaxSends /\ FirstBoard \in BoardType /\ NoRun.receipt = "none"
    BY ReconcileAssumption DEF NoRun
  <2>2. NoRun \in RunType
    BY <2>1 DEF NoRun, RunType
  <2>3. PICK b : b = After(journal, m)
    OBVIOUS
  <2>4. run' = [NoRun EXCEPT !.pc = pc, !.entries = journal, !.expected = b]
    BY <1>4, <2>3
  <2> QED BY <1>1, <1>5, <2>1, <2>2, <2>3, <2>4 DEF RunType
<1>7. Replayed' = m
  BY <1>2, <1>3, <1>6 DEF Replayed, n
<1>8. m <= n /\ n <= m + 1
  BY <1>1, <1>2
<1>9. After(journal, m)' = After(journal, m)
  BY <1>4 DEF After
<1>10. BusyHolds'
  BY <1>2, <1>3, <1>4, <1>6, <1>7, <1>8, <1>9 DEF BusyHolds, n
<1>11. RunHolds'
  BY <1>3, <1>6, <1>10 DEF RunHolds
<1>12. granted' \in BOOLEAN
  BY <1>4 DEF ReconcileInv, ServiceHolds
<1> QED BY <1>4, <1>11, <1>12, RunMoves

\* An entry without an answer is dropped, verified by what is on the board, or
\* makes the run raise.
LEMMA ResumeKeeps == ASSUME ReconcileInv, Resume PROVE ReconcileInv'
<1> DEFINE n == Len(journal)
<1>1. /\ n \in Nat \ {0} /\ run.entries = journal /\ run.receipt # "applied"
      /\ run.expected = After(journal, n - 1) /\ journal \in Seq(EntryType)
      /\ \A k \in 1..(n - 1) : journal[k].status = "verified"
  BY AtLast DEF Resume, ReconcileInv, JournalHolds
<1>2. run \in RunType /\ granted \in BOOLEAN /\ board \in BoardType
  BY DEF ReconcileInv, RunHolds, ServiceHolds
<1>3. UNCHANGED <<boardVars, packet, granted, wire, count>>
  BY DEF Resume
<1>4. CASE Goes([run EXCEPT !.pc = "check", !.entries = Front(@)]) /\ UNCHANGED journal
  <2>1. PICK es : es = Front(run.entries)
    OBVIOUS
  <2>2. es = SubSeq(journal, 1, n - 1)
    BY <1>1, <2>1 DEF Front
  <2>3. /\ es \in Seq(EntryType) /\ Len(es) = n - 1
        /\ \A k \in 1..(n - 1) : es[k] = journal[k]
    <3>1. n - 1 \in Int /\ \A k \in 1..(n - 1) : journal[k] \in EntryType
      <4>1. DOMAIN journal = 1..n
        BY <1>1
      <4> HIDE DEF n
      <4>2. 1..(n - 1) \subseteq 1..n /\ n - 1 \in Int
        BY <1>1
      <4> QED BY <1>1, <4>1, <4>2
    <3>2. /\ SubSeq(journal, 1, n - 1) \in Seq(EntryType)
          /\ Len(SubSeq(journal, 1, n - 1)) = IF 1 <= n - 1 THEN n - 1 - 1 + 1 ELSE 0
          /\ \A k \in 1 .. n - 1 - 1 + 1 : SubSeq(journal, 1, n - 1)[k] = journal[1 + k - 1]
      BY <3>1, SubSeqProperties
    <3> HIDE DEF n
    <3>3. n - 1 - 1 + 1 = n - 1 /\ (~(1 <= n - 1) => n - 1 = 0)
      BY <1>1
    <3>4. \A k \in 1..(n - 1) : 1 + k - 1 = k
      BY <1>1
    <3> QED BY <2>2, <3>2, <3>3, <3>4
  <2>4. run' = [run EXCEPT !.pc = "check", !.entries = es]
    BY <1>4, <2>1 DEF Goes
  <2>5. /\ run' \in RunType /\ run'.pc = "check" /\ run'.entries = es /\ run'.expected = run.expected
        /\ run'.receipt = run.receipt
    BY <1>2, <2>3, <2>4 DEF RunType
  <2>6. Replayed' = n - 1
    BY <2>3, <2>5 DEF Replayed
  <2>7. n - 1 \in Nat /\ n - 1 <= n /\ n <= n - 1 + 1
    BY <1>1
  <2>8. After(journal, n - 1)' = After(journal, n - 1)
    BY <1>3, <1>4 DEF After
  <2>9. BusyHolds'
    BY <1>1, <1>4, <2>3, <2>5, <2>6, <2>7, <2>8 DEF BusyHolds
  <2>10. RunHolds'
    BY <1>1, <2>5, <2>9 DEF RunHolds
  <2>11. granted' \in BOOLEAN
    BY <1>2, <1>3
  <2> QED BY <1>3, <1>4, <2>10, <2>11, RunMoves
<1>5. CASE /\ IsAfter(run.expected, board, LastEntry.patch.change) /\ journal' = WithStatus("verified", board)
           /\ Goes([run EXCEPT !.pc = "check", !.expected = board, !.entries = journal'])
  <2>1. PICK e : e = [journal[n] EXCEPT !.status = "verified", !.after = board]
    OBVIOUS
  <2>2. e \in EntryType
    <3>1. journal[n] \in EntryType
      BY AtLast DEF Resume
    <3> QED BY <1>2, <2>1, <3>1 DEF EntryType
  <2>3. journal' = [journal EXCEPT ![n] = e]
    BY <1>1, <1>5, <2>1 DEF WithStatus
  <2>4. journal' \in Seq(EntryType)
    BY <1>1, <2>2, <2>3
  <2>5. /\ run' \in RunType /\ run'.pc = "check" /\ run'.entries = journal' /\ run'.expected = board
        /\ run'.receipt = run.receipt
    BY <1>2, <1>5, <2>4 DEF RunType, Goes
  <2>6. run.pc \in {"resume", "readback"}
    BY DEF Resume
  <2> QED BY <1>1, <1>3, <1>5, <2>5, <2>6, LastVerified
<1>6. CASE Raises /\ UNCHANGED journal
  BY <1>3, <1>6, RaisesKeeps
<1> QED BY <1>4, <1>5, <1>6 DEF Resume

\* The fresh read before the loop.
LEMMA CheckKeeps == ASSUME ReconcileInv, Check PROVE ReconcileInv'
<1>1. CASE Raises
  BY <1>1, RaisesKeeps DEF Check
<1>2. CASE Goes([run EXCEPT !.pc = "next"])
  <2>1. run \in RunType /\ run.pc = "check" /\ run.receipt # "applied" /\ BusyHolds
    BY DEF Check, ReconcileInv, RunHolds
  <2>2. /\ run' \in RunType /\ run'.pc = "next" /\ run'.entries = run.entries
        /\ run'.expected = run.expected /\ run'.receipt = run.receipt
    BY <1>2, <2>1 DEF RunType, Goes
  <2>3. Replayed' = Replayed /\ journal' = journal /\ packet' = packet
    BY <2>1, <2>2 DEF Replayed, Check
  <2>4. After(journal, Replayed)' = After(journal, Replayed)
    BY <2>3 DEF After
  <2>5. RunHolds'
    BY <2>1, <2>2, <2>3, <2>4 DEF RunHolds, BusyHolds
  <2>6. granted' \in BOOLEAN
    BY DEF Check, ReconcileInv, ServiceHolds
  <2> QED BY <2>5, <2>6, RunMoves DEF Check
<1> QED BY <1>1, <1>2 DEF Check

\* "applied" is reported of a journal with every patch verified.
LEMMA EndApplyKeeps == ASSUME ReconcileInv, EndApply PROVE ReconcileInv'
<1>1. CASE Raises
  BY <1>1, RaisesKeeps DEF EndApply
<1>2. CASE Ends("applied")
  <2> DEFINE n == Len(journal)
  <2>1. /\ Len(run.entries) \in 0..n /\ Len(run.entries) = Len(packet.patches)
        /\ \A k \in 1..Len(run.entries) : journal[k].status = "verified"
    BY AtNext DEF EndApply
  <2>2. /\ n <= Len(packet.patches) /\ n \in Nat /\ DOMAIN journal = 1..n
    BY DEF ReconcileInv, JournalHolds
  <2>3. n = Len(packet.patches) /\ \A k \in DOMAIN journal : journal[k].status = "verified"
    <3> HIDE DEF n
    <3>1. n = Len(run.entries)
      BY <2>1, <2>2
    <3> QED BY <2>1, <2>2, <3>1
  <2>4. PICK r : r = [NoRun EXCEPT !.receipt = "applied"]
    OBVIOUS
  <2>5. r \in RunType /\ r.pc = "idle"
    <3>1. << >> \in Seq(EntryType) /\ 0 \in 0..MaxSends /\ FirstBoard \in BoardType
      BY ReconcileAssumption
    <3> QED BY <2>4, <3>1 DEF NoRun, RunType
  <2>6. run' = r
    BY <1>2, <2>4 DEF Ends
  <2>7. RunHolds'
    BY <2>3, <2>5, <2>6 DEF RunHolds, EndApply
  <2>8. granted' \in BOOLEAN
    BY DEF EndApply, ReconcileInv, ServiceHolds
  <2> QED BY <2>7, <2>8, RunMoves DEF EndApply
<1> QED BY <1>1, <1>2 DEF EndApply

\* The fresh read before a patch finds the revision that the patch tests.
LEMMA ReadBeforeKeeps == ASSUME ReconcileInv, ReadBefore PROVE ReconcileInv'
<1>1. CASE Raises
  BY <1>1, RaisesKeeps DEF ReadBefore
<1>2. CASE board = run.expected /\ Fits(board, Planned) /\ Goes([run EXCEPT !.pc = "intend", !.current = board])
  <2>1. /\ run \in RunType /\ run.pc = "next" /\ run.receipt # "applied" /\ BusyHolds
        /\ board \in BoardType /\ Proper(packet) /\ Len(run.entries) < Len(packet.patches)
    BY DEF ReadBefore, ReconcileInv, RunHolds, ServiceHolds
  <2>2. /\ run' \in RunType /\ run'.pc = "intend" /\ run'.entries = run.entries
        /\ run'.expected = run.expected /\ run'.current = board /\ run'.receipt = run.receipt
    BY <1>2, <2>1 DEF RunType, Goes
  <2>3. Replayed = Len(run.entries) /\ Replayed' = Len(run.entries) /\ journal' = journal /\ packet' = packet
    BY <2>1, <2>2 DEF Replayed, ReadBefore
  <2>4. After(journal, Replayed)' = After(journal, Replayed)
    BY <2>3 DEF After
  <2>5. run.expected[Issue(Replayed + 1)].rev = Rev(Replayed + 1)
    <3>1. Replayed \in Nat /\ packet.patches \in Seq(PatchType) /\ Replayed < Len(packet.patches)
      BY <2>1, <2>3 DEF BusyHolds, Proper, PacketType
    <3>2. Replayed + 1 \in DOMAIN packet.patches
      BY <3>1
    <3>3. packet.patches[Replayed + 1].rev # Untested
      BY <2>1, <3>2 DEF Proper
    <3>4. Planned = packet.patches[Replayed + 1]
      BY <2>3 DEF Planned
    <3> QED BY <1>2, <3>3, <3>4 DEF Fits, Issue, Rev
  <2>6. Issue(Replayed + 1)' = Issue(Replayed + 1) /\ Rev(Replayed + 1)' = Rev(Replayed + 1)
    BY <2>3 DEF Issue, Rev
  <2>7. BusyHolds'
    BY <1>2, <2>1, <2>2, <2>3, <2>4, <2>5, <2>6 DEF BusyHolds
  <2>8. RunHolds'
    BY <2>1, <2>2, <2>7 DEF RunHolds
  <2>9. granted' \in BOOLEAN
    BY DEF ReadBefore, ReconcileInv, ServiceHolds
  <2> QED BY <2>8, <2>9, RunMoves DEF ReadBefore
<1> QED BY <1>1, <1>2 DEF ReadBefore

\* The intent takes the place of an entry that was dropped, or follows the last.
LEMMA IntendKeeps == ASSUME ReconcileInv, Intend PROVE ReconcileInv'
<1>1. CASE Raises /\ UNCHANGED journal
  BY <1>1, RaisesKeeps DEF Intend
<1> SUFFICES ASSUME journal' = Append(run.entries, [patch |-> Planned, status |-> "pending",
                                                    before |-> run.current, after |-> run.current]),
                    Goes([run EXCEPT !.pc = "send", !.entries = journal'])
             PROVE  ReconcileInv'
    BY <1>1 DEF Intend
<1>2. PICK m \in 0..Len(journal) :
      /\ m = Len(run.entries) /\ Len(journal) <= m + 1 /\ run.entries \in Seq(EntryType)
      /\ run.receipt # "applied"
      /\ \A k \in 1..m : run.entries[k] = journal[k] /\ journal[k].status = "verified"
      /\ run.expected = After(journal, m)
      /\ Reached(board, packet, run.expected, m)
  BY AtNext DEF Intend
<1>3. UNCHANGED <<boardVars, packet, granted, wire, count>> /\ run.pc = "intend"
  BY DEF Intend
<1>4. /\ run \in RunType /\ BusyHolds /\ Len(journal) \in Nat /\ Len(journal) <= Len(packet.patches)
      /\ DOMAIN journal = 1..Len(journal)
      /\ packet.patches \in Seq(PatchType) /\ \A k \in DOMAIN journal : EntryHolds(k)
  BY <1>3 DEF ReconcileInv, RunHolds, JournalHolds, ServiceHolds, Proper, PacketType
<1>5. Replayed = m
  BY <1>2, <1>3 DEF Replayed
<1>6. /\ m < Len(packet.patches) /\ run.expected[Issue(m + 1)].rev = Rev(m + 1)
      /\ run.current = run.expected
  BY <1>3, <1>4, <1>5 DEF BusyHolds
<1>7. m \in Nat /\ m + 1 \in DOMAIN packet.patches /\ m + 1 <= Len(packet.patches)
  <2>1. m \in Nat /\ Len(packet.patches) \in Nat
    BY <1>2, <1>4
  <2> QED BY <1>4, <1>6, <2>1
<1>8. PICK e : e = [patch |-> Planned, status |-> "pending", before |-> run.current, after |-> run.current]
  OBVIOUS
<1>9. e \in EntryType /\ e.patch = packet.patches[m + 1] /\ e.status = "pending"
  <2>1. Planned = packet.patches[m + 1] /\ Planned \in PatchType
    BY <1>2, <1>4, <1>7 DEF Planned
  <2>2. run.current \in BoardType
    BY <1>4 DEF RunType
  <2> QED BY <1>8, <2>1, <2>2 DEF EntryType
<1>10. /\ journal' \in Seq(EntryType) /\ Len(journal') = m + 1 /\ DOMAIN journal' = 1..(m + 1)
       /\ journal'[m + 1] = e /\ \A k \in 1..m : journal'[k] = journal[k]
  BY <1>2, <1>8, <1>9
<1>11. \A k \in 0..m : After(journal, k)' = After(journal, k)
  <2>1. ASSUME NEW k \in 0..m PROVE After(journal, k)' = After(journal, k)
    <3>1. k = 0 \/ k \in 1..m
      BY <1>7
    <3> QED BY <1>3, <1>10, <3>1 DEF After
  <2> QED BY <2>1
<1>12. \A k : Settled(k) => Settled(k)'
  BY <1>3 DEF Settled, Issue, Rev, boardVars
<1>13. ASSUME NEW k \in 1..(m + 1) PROVE EntryHolds(k)'
  <2>1. CASE k = m + 1
    <3>1. m \in 0..m /\ k - 1 = m /\ ~(k < m + 1)
      BY <1>7, <2>1
    <3>2. After(journal, k - 1)' = run.expected
      BY <1>2, <1>11, <3>1
    <3> QED BY <1>3, <1>6, <1>9, <1>10, <2>1, <3>1, <3>2 DEF EntryHolds, Issue, Rev
  <2>2. CASE k # m + 1
    <3>1. k \in 1..m /\ k - 1 \in 0..m /\ k \in 1..Len(journal)
      BY <1>2, <1>7, <2>2
    <3>2. EntryHolds(k) /\ journal'[k] = journal[k] /\ journal[k].status = "verified"
      BY <1>2, <1>4, <1>10, <3>1
    <3>3. After(journal, k - 1)' = After(journal, k - 1)
      BY <1>11, <3>1
    <3> QED BY <1>3, <1>12, <3>2, <3>3 DEF EntryHolds, Issue, Rev, boardVars
  <2> QED BY <2>1, <2>2
<1>14. JournalHolds'
  BY <1>3, <1>7, <1>10, <1>13 DEF JournalHolds
<1>15. ServiceHolds'
  BY <1>3 DEF ReconcileInv, ServiceHolds, boardVars
<1>16. \A k \in 1..Len(journal) : k \in 1..Len(journal')
  <2>1. \A k \in 1..Len(journal) : k \in 1..(m + 1)
    BY <1>2, <1>4, <1>7
  <2> QED BY <1>10, <2>1
<1>17. WireHolds'
  <2>1. ASSUME NEW w \in wire PROVE RequestHolds(w)'
    <3>1. RequestHolds(w)
      BY DEF ReconcileInv, WireHolds
    <3> QED BY <1>3, <1>16, <3>1 DEF RequestHolds, Late, boardVars
  <2> QED BY <1>3, <2>1 DEF ReconcileInv, WireHolds
<1>18. LandedHolds'
  <2>1. ASSUME NEW n \in DOMAIN landed[packet.no]
        PROVE  LET k == landed[packet.no][n]
               IN  k \in 1..Len(journal') /\ Rev(k) < board[Issue(k)].rev
    BY <1>16 DEF ReconcileInv, LandedHolds
  <2> QED BY <1>3, <2>1 DEF ReconcileInv, LandedHolds, Issue, Rev, boardVars
<1>19. RunHolds'
  <2>1. /\ run' \in RunType /\ run'.pc = "send" /\ run'.entries = journal' /\ run'.expected = run.expected
        /\ run'.current = run.current /\ run'.receipt = run.receipt
    BY <1>4, <1>10 DEF RunType, Goes
  <2>2. Replayed' = m /\ m <= m + 1 /\ m + 1 <= m + 1
    <3>1. Len(run'.entries) = m + 1
      BY <1>10, <2>1
    <3>2. Replayed' = m + 1 - 1
      BY <2>1, <3>1 DEF Replayed
    <3> QED BY <1>7, <3>2
  <2>3. run'.expected = After(journal, m)'
    <3>1. m \in 0..m
      BY <1>7
    <3> QED BY <1>2, <1>11, <2>1, <3>1
  <2>4. \A k \in 1..m : run'.entries[k] = journal'[k] /\ journal'[k].status = "verified"
    BY <1>2, <1>10, <2>1
  <2>5. BusyHolds'
    <3>1. Replayed' \in Nat /\ Replayed' <= Len(journal') /\ Len(journal') <= Replayed' + 1
      BY <1>7, <1>10, <2>2
    <3> QED BY <1>6, <2>1, <2>2, <2>3, <2>4, <3>1 DEF BusyHolds
  <2> QED BY <1>2, <2>1, <2>5 DEF RunHolds
<1> QED BY <1>14, <1>15, <1>17, <1>18, <1>19 DEF ReconcileInv

\* The request that leaves finds the work item at the revision it tests, or is late.
LEMMA SendKeeps == ASSUME ReconcileInv, Send PROVE ReconcileInv'
<1>1. CASE ~granted /\ Raises /\ UNCHANGED <<wire, count>>
  BY <1>1, RaisesKeeps DEF Send
<1> DEFINE n == Len(journal)
           new == [no |-> packet.no, step |-> Len(run.entries), patch |-> LastEntry.patch,
                   attempt |-> count.sends + 1]
<1> SUFFICES ASSUME count.sends < MaxSends, wire' = wire \cup {new}, count' = [count EXCEPT !.sends = @ + 1],
                    Goes([run EXCEPT !.pc = "wait", !.attempt = count.sends + 1])
             PROVE  ReconcileInv'
    BY <1>1 DEF Send
<1>2. UNCHANGED <<boardVars, packet, journal, granted>> /\ run.pc = "send"
  BY DEF Send
<1>3. /\ n \in Nat \ {0} /\ n \in DOMAIN packet.patches
      /\ run.entries = journal /\ run.receipt # "applied"
      /\ LastEntry.patch = packet.patches[n]
      /\ run.expected[Issue(n)].rev = Rev(n)
      /\ Reached(board, packet, run.expected, n - 1)
      /\ \A k \in 1..(n - 1) : journal[k].status = "verified"
  BY <1>2, AtLast
<1>4. /\ count \in [packets : 1..MaxPackets, edits : Nat, sends : 0..MaxSends] /\ Proper(packet)
      /\ board \in BoardType /\ run \in RunType /\ DOMAIN journal = 1..n
      /\ \A k \in DOMAIN journal : EntryHolds(k)
      /\ DOMAIN packet.patches = 1..Len(packet.patches) /\ Len(packet.patches) \in Nat
  BY DEF ReconcileInv, ServiceHolds, RunHolds, JournalHolds, Proper, PacketType
<1>5. count.sends + 1 \in 1..MaxSends /\ count' \in [packets : 1..MaxPackets, edits : Nat, sends : 0..MaxSends]
      /\ count'.packets = count.packets /\ count'.edits = count.edits
  <2>1. count.sends \in Nat /\ MaxSends \in Nat
    BY <1>4, ReconcileAssumption
  <2>2. count.sends + 1 \in 1..MaxSends /\ count.sends + 1 \in 0..MaxSends
    BY <2>1
  <2> QED BY <1>4, <2>2
<1>6. PICK u : u = new
  OBVIOUS
<1>7. /\ u.no = packet.no /\ u.step = n /\ u.patch = packet.patches[n]
      /\ u.patch.change.issue = Issue(n) /\ u.patch.rev = Rev(n)
  BY <1>3, <1>6 DEF Issue, Rev
<1>8. /\ packet.patches[n] \in PatchType /\ Issue(n) \in WorkItems /\ Rev(n) \in Nat \ {0}
      /\ u \in RequestType
  <2>1. /\ packet.patches[n] \in PatchType /\ Issue(n) \in WorkItems /\ Rev(n) \in Nat \ {0}
    BY <1>3, <1>4, PatchIs DEF Issue, Rev
  <2>2. packet.no \in 1..MaxPackets
    BY <1>4 DEF Proper, PacketType
  <2> QED BY <1>3, <1>5, <1>6, <2>1, <2>2 DEF RequestType
<1>9. wire' = wire \cup {u}
  BY <1>6
<1> HIDE DEF new, n
<1>10. ServiceHolds'
  BY <1>2, <1>5 DEF ReconcileInv, ServiceHolds, boardVars
<1>11. JournalHolds'
  <2>1. ASSUME NEW k \in 1..n PROVE EntryHolds(k)'
    <3>1. EntryHolds(k)
      BY <1>4
    <3>2. ASSUME Settled(k) PROVE Settled(k)'
      <4>1. u.patch.change.issue = Issue(k) => u.patch.rev < board[Issue(k)].rev
        <5>1. CASE k = n
          BY <1>7, <3>2, <5>1 DEF Settled
        <5>2. CASE k # n
          <6>1. k \in DOMAIN packet.patches
            BY <1>3, <1>4
          <6> QED BY <1>3, <1>4, <1>7, <5>2, <6>1 DEF Proper, Issue
        <5> QED BY <5>1, <5>2
      <4> QED BY <1>2, <1>5, <1>9, <3>2, <4>1 DEF Settled, Issue, Rev, boardVars
    <3> QED BY <1>2, <3>1, <3>2 DEF EntryHolds, After, Issue, Rev, boardVars
  <2> QED BY <1>2, <1>4, <2>1 DEF ReconcileInv, JournalHolds
<1>12. ASSUME NEW w \in wire, w.no = packet.no
       PROVE  /\ w.step <= n /\ w.step \in Nat
              /\ w.step < n => Late(w)
              /\ w.step = n => w.patch = packet.patches[n]
  <2>1. w.step \in 1..n /\ w.patch = packet.patches[w.step]
    BY <1>12 DEF ReconcileInv, WireHolds, RequestHolds, n
  <2>2. ASSUME w.step < n PROVE Late(w)
    <3>1. w.step \in 1..(n - 1)
      BY <1>3, <2>1, <2>2
    <3>2. Settled(w.step)
      BY <1>3, <1>4, <2>1, <3>1 DEF EntryHolds
    <3> QED BY <2>1, <3>2 DEF Settled, Late, Issue, Rev
  <2> QED BY <2>1, <2>2
<1>13. ASSUME NEW w \in wire PROVE RequestHolds(w)'
  <2>1. RequestHolds(w)
    BY DEF ReconcileInv, WireHolds
  <2>2. u.no = w.no => /\ w.step < u.step => Late(w)
                       /\ w.step = u.step => w.patch = u.patch
    BY <1>7, <1>12
  <2> QED BY <1>2, <1>9, <2>1, <2>2 DEF RequestHolds, Late, boardVars
<1>14. RequestHolds(u)'
  <2>1. /\ run.expected \in BoardType /\ Earlier(run.expected, board)
        /\ run.expected[Issue(n)].tags = packet.baseline[Issue(n)].tags
    <3>1. \A k \in 1..(n - 1) : packet.patches[k].change.issue # Issue(n)
      <4> SUFFICES ASSUME NEW k \in 1..(n - 1) PROVE packet.patches[k].change.issue # Issue(n)
          OBVIOUS
      <4>1. k \in DOMAIN packet.patches /\ k # n
        BY <1>3, <1>4
      <4> QED BY <1>3, <1>4, <4>1 DEF Proper, Issue
    <3> QED BY <1>3, <1>8, <3>1 DEF Reached
  <2>2. /\ Rev(n) <= board[Issue(n)].rev
        /\ Rev(n) = board[Issue(n)].rev => packet.baseline[Issue(n)].tags = board[Issue(n)].tags
    BY <1>3, <1>8, <2>1 DEF Earlier
  <2>3. board[Issue(n)].rev \in Nat
    BY <1>4, <1>8 DEF BoardType
  <2>4. ~Late(u) => u.patch.tags = DesiredTags(board[Issue(n)].tags, u.patch.change)
    <3>1. packet.patches[n].tags = DesiredTags(packet.baseline[Issue(n)].tags, packet.patches[n].change)
      BY <1>3, <1>4 DEF Proper, Issue
    <3>2. ~Late(u) => Rev(n) = board[Issue(n)].rev
      BY <1>7, <1>8, <2>2, <2>3 DEF Late
    <3> QED BY <1>7, <2>2, <3>1, <3>2
  <2>5. \A j \in DOMAIN landed[packet.no] : n <= landed[packet.no][j] => Late(u)
    <3> SUFFICES ASSUME NEW j \in DOMAIN landed[packet.no], n <= landed[packet.no][j] PROVE Late(u)
        OBVIOUS
    <3>1. PICK k : k = landed[packet.no][j]
      OBVIOUS
    <3>2. k \in 1..n /\ Rev(k) < board[Issue(k)].rev
      BY <3>1 DEF ReconcileInv, LandedHolds, n
    <3>3. k = n
      BY <1>3, <3>1, <3>2
    <3> QED BY <1>7, <3>2, <3>3 DEF Late
  <2>6. u.step \in Numbers /\ u.no <= packet.no /\ ~(u.no < packet.no) /\ u.patch.rev # Untested
        /\ u.step \in 1..n
    <3>1. packet.no \in Nat
      BY <1>4, ReconcileAssumption DEF Proper, PacketType
    <3>2. n \in Numbers /\ packet.patches[n].rev # Untested
      BY <1>3, <1>4 DEF Proper
    <3> QED BY <1>3, <1>7, <3>1, <3>2
  <2>7. \A v \in wire' : v.no = u.no => /\ u.step < v.step => Late(u)
                                        /\ u.step = v.step => u.patch = v.patch
    <3> SUFFICES ASSUME NEW v \in wire', v.no = u.no
                 PROVE  /\ u.step < v.step => Late(u)
                        /\ u.step = v.step => u.patch = v.patch
        OBVIOUS
    <3>1. CASE v = u
      BY <1>3, <1>7, <3>1
    <3>2. CASE v \in wire
      BY <1>3, <1>7, <1>12, <3>2
    <3> QED BY <1>9, <3>1, <3>2
  <2>8. Late(u)' = Late(u)
    BY <1>2 DEF Late, boardVars
  <2>9. u.patch.rev <= board[u.patch.change.issue].rev
    BY <1>7, <2>2
  <2> QED BY <1>2, <1>7, <2>4, <2>5, <2>6, <2>7, <2>8, <2>9 DEF RequestHolds, boardVars, n
<1>15. WireHolds'
  BY <1>8, <1>9, <1>13, <1>14 DEF ReconcileInv, WireHolds
<1>16. LandedHolds'
  BY <1>2 DEF ReconcileInv, LandedHolds, Issue, Rev, boardVars
<1>17. RunHolds'
  <2>1. count.sends + 1 \in 0..MaxSends
    BY <1>5
  <2>2. /\ run' \in RunType /\ run'.pc = "wait" /\ run'.entries = run.entries /\ run'.expected = run.expected
        /\ run'.current = run.current /\ run'.receipt = run.receipt
    BY <1>4, <2>1 DEF RunType, Goes
  <2>3. Replayed' = Replayed
    BY <1>2, <2>2 DEF Replayed
  <2>4. After(journal, Replayed)' = After(journal, Replayed)
    BY <1>2, <2>3 DEF After
  <2>5. BusyHolds
    BY <1>2 DEF ReconcileInv, RunHolds
  <2>6. BusyHolds'
    BY <1>2, <2>2, <2>3, <2>4, <2>5 DEF BusyHolds
  <2> QED BY <1>3, <2>2, <2>6 DEF RunHolds
<1> QED BY <1>10, <1>11, <1>15, <1>16, <1>17 DEF ReconcileInv

\* An answer is taken for what it is, or for uncertain.
LEMMA AnswerKeeps == ASSUME ReconcileInv, Answer PROVE ReconcileInv'
<1>1. /\ run \in RunType /\ run.pc = "wait" /\ run.receipt # "applied" /\ BusyHolds
      /\ UNCHANGED <<boardVars, packet, journal, granted, wire, count>>
  BY DEF Answer, ReconcileInv, RunHolds
<1>2. PICK u \in BOOLEAN : run' = [run EXCEPT !.pc = "readback", !.uncertain = u]
  <2>1. CASE Goes([run EXCEPT !.pc = "readback"])
    <3>1. run' = [run EXCEPT !.pc = "readback", !.uncertain = run.uncertain] /\ run.uncertain \in BOOLEAN
      BY <1>1, <2>1 DEF Goes, RunType
    <3> QED BY <3>1
  <2>2. CASE Goes([run EXCEPT !.pc = "readback", !.uncertain = TRUE])
    BY <2>2 DEF Goes
  <2> QED BY <2>1, <2>2 DEF Answer
<1>3. /\ run' \in RunType /\ run'.pc = "readback" /\ run'.entries = run.entries /\ run'.expected = run.expected
      /\ run'.current = run.current /\ run'.receipt = run.receipt
  BY <1>1, <1>2 DEF RunType
<1>4. Replayed' = Replayed
  BY <1>1, <1>3 DEF Replayed
<1>5. After(journal, Replayed)' = After(journal, Replayed)
  BY <1>1, <1>4 DEF After
<1>6. BusyHolds'
  BY <1>1, <1>3, <1>4, <1>5 DEF BusyHolds
<1>7. RunHolds' /\ granted' \in BOOLEAN
  BY <1>1, <1>3, <1>6 DEF RunHolds, ReconcileInv, ServiceHolds
<1> QED BY <1>1, <1>7, RunMoves

\* A conflict is written down, and the run raises.
LEMMA ConflictKeeps == ASSUME ReconcileInv, Conflict PROVE ReconcileInv'
<1>1. run.current \in BoardType
  BY DEF ReconcileInv, RunHolds, RunType
<1> QED BY <1>1, LastAnswered DEF Conflict, Raises

\* The read after the PATCH decides what the journal says of it.
LEMMA ReadAfterKeeps == ASSUME ReconcileInv, ReadAfter PROVE ReconcileInv'
<1>1. /\ run \in RunType /\ run.pc = "readback" /\ run.current = run.expected /\ run.current \in BoardType
      /\ board \in BoardType /\ UNCHANGED <<boardVars, packet, granted, wire, count>>
  BY DEF ReadAfter, ReconcileInv, RunHolds, RunType, BusyHolds, ServiceHolds
<1>2. CASE journal' = WithStatus("uncertain_unapplied", run.current) /\ Ends("uncertain_unapplied")
  BY <1>1, <1>2, LastAnswered
<1>3. CASE journal' = WithStatus("conflict", run.current) /\ Raises
  BY <1>1, <1>3, LastAnswered DEF Raises
<1>4. CASE /\ IsAfter(run.current, board, LastEntry.patch.change) /\ journal' = WithStatus("verified", board)
           /\ Goes([run EXCEPT !.pc = "next", !.entries = journal', !.expected = board,
                               !.attempt = 0, !.reply = "none", !.uncertain = FALSE])
  <2> DEFINE n == Len(journal)
  <2>1. /\ n \in Nat \ {0} /\ run.entries = journal /\ run.receipt # "applied"
        /\ journal[n] \in EntryType /\ journal \in Seq(EntryType)
    BY <1>1, AtLast DEF ReconcileInv, JournalHolds
  <2>2. PICK e : e = [journal[n] EXCEPT !.status = "verified", !.after = board]
    OBVIOUS
  <2>3. e \in EntryType
    BY <1>1, <2>1, <2>2 DEF EntryType
  <2>4. journal' = [journal EXCEPT ![n] = e]
    BY <1>4, <2>1, <2>2 DEF WithStatus
  <2>5. journal' \in Seq(EntryType) /\ 0 \in 0..MaxSends
    BY <2>1, <2>3, <2>4, ReconcileAssumption
  <2>6. /\ run' \in RunType /\ run'.pc = "next" /\ run'.entries = journal' /\ run'.expected = board
        /\ run'.receipt = run.receipt
    BY <1>1, <1>4, <2>5 DEF RunType, Goes
  <2> QED BY <1>1, <1>4, <2>1, <2>6, LastVerified
<1> QED BY <1>2, <1>3, <1>4 DEF ReadAfter

\* The run is told of its answer, or nothing happens to it.
LEMMA ReplyKeeps ==
  ASSUME ReconcileInv, UNCHANGED <<packet, journal>>, NEW reply \in {"none", "ok", "conflict"},
         run' = run \/ run' = [run EXCEPT !.reply = reply]
  PROVE  RunHolds'
<1>1. RunHolds
  BY DEF ReconcileInv
<1>2. /\ run' \in RunType /\ run'.pc = run.pc /\ run'.entries = run.entries /\ run'.expected = run.expected
      /\ run'.current = run.current /\ run'.receipt = run.receipt
  BY <1>1 DEF RunHolds, RunType
<1>3. Replayed' = Replayed
  BY <1>2 DEF Replayed
<1>4. After(journal, Replayed)' = After(journal, Replayed)
  BY <1>3 DEF After
<1>5. BusyHolds => BusyHolds'
  BY <1>2, <1>3, <1>4 DEF BusyHolds, Issue, Rev
<1> QED BY <1>1, <1>2, <1>5 DEF RunHolds

\* A request that is gone, or refused, leaves the rest as it was.
LEMMA GoneKeeps ==
  ASSUME ReconcileInv, NEW w \in wire, wire' = wire \ {w}, RunHolds',
         UNCHANGED <<boardVars, packet, journal, granted, count>>
  PROVE  ReconcileInv'
<1>1. board \in BoardType /\ count \in [packets : 1..MaxPackets, edits : Nat, sends : 0..MaxSends]
  BY DEF ReconcileInv, ServiceHolds
<1>2. Earlier(board, board')
  BY <1>1 DEF Earlier, BoardType, boardVars
<1>3. LandedHolds'
  BY DEF ReconcileInv, LandedHolds, Issue, Rev, boardVars
<1>4. \A v \in wire' : \A n \in DOMAIN landed'[v.no] : v.step <= landed'[v.no][n] => Late(v)'
  BY DEF ReconcileInv, WireHolds, RequestHolds, Late, boardVars
<1>5. \A k \in DOMAIN journal : board'[Issue(k)].tags = board[Issue(k)].tags
                              /\ board[Issue(k)].preds \subseteq board'[Issue(k)].preds
  BY DEF boardVars
<1>6. board' \in BoardType /\ wire' \subseteq wire /\ count' = count
  BY <1>1 DEF boardVars
<1> QED BY <1>1, <1>2, <1>3, <1>4, <1>5, <1>6, BoardMoves

\* A request that finds the revision it tests makes every request before it in its
\* proposal, and every other one for its step, late.
LEMMA LandingKeeps ==
  ASSUME ReconcileInv, NEW w \in wire, Fits(board, w.patch), wire' = wire \ {w}, RunHolds',
         board' = Patched(board, w.patch), landed' = [landed EXCEPT ![w.no] = Append(@, w.step)],
         UNCHANGED <<packet, journal, granted, count>>
  PROVE  ReconcileInv'
<1> DEFINE key == w.patch.change.issue
<1>1. /\ w \in RequestType /\ RequestHolds(w) /\ w.patch \in PatchType /\ w.no \in 1..MaxPackets
      /\ key \in WorkItems /\ w.patch.rev \in Nat /\ w.step \in Nat
  BY DEF ReconcileInv, WireHolds, RequestType, PatchType, ChangeType
<1>2. /\ board \in BoardType /\ count \in [packets : 1..MaxPackets, edits : Nat, sends : 0..MaxSends]
      /\ landed \in [1..MaxPackets -> Seq(Nat)]
  BY DEF ReconcileInv, ServiceHolds, LandedHolds
<1>3. w.patch.rev = board[key].rev /\ board[key].rev \in Nat
  BY <1>1, <1>2 DEF Fits, RequestHolds, BoardType
<1>4. ~Late(w)
  BY <1>3 DEF Late
<1>5. /\ board' \in BoardType /\ Earlier(board, board')
      /\ board'[key].rev = board[key].rev + 1
      /\ \A i \in WorkItems : board[i].preds \subseteq board'[i].preds
      /\ \A i \in WorkItems \ {key} : board'[i].tags = board[i].tags
  BY <1>1, <1>2, PatchedMoves
<1>6. Late(w)'
  BY <1>3, <1>5 DEF Late
<1>7. /\ landed' \in [1..MaxPackets -> Seq(Nat)]
      /\ \A p \in 1..MaxPackets : p # w.no => landed'[p] = landed[p]
      /\ \A n \in DOMAIN landed'[w.no] : \/ n \in DOMAIN landed[w.no] /\ landed'[w.no][n] = landed[w.no][n]
                                       \/ landed'[w.no][n] = w.step
  <2>1. PICK l : l = Append(landed[w.no], w.step)
    OBVIOUS
  <2>2. landed[w.no] \in Seq(Nat)
    BY <1>1, <1>2
  <2>3. /\ l \in Seq(Nat)
        /\ \A n \in DOMAIN l : \/ n \in DOMAIN landed[w.no] /\ l[n] = landed[w.no][n]
                              \/ l[n] = w.step
    BY <1>1, <2>1, <2>2
  <2>4. landed' = [landed EXCEPT ![w.no] = l]
    BY <2>1
  <2> QED BY <1>1, <1>2, <2>3, <2>4
<1>8. \A i \in WorkItems : board[i].rev \in Nat /\ board'[i].rev \in Nat /\ board[i].rev <= board'[i].rev
  BY <1>2, <1>5 DEF BoardType, Earlier
<1>9. ASSUME NEW v \in wire PROVE Late(v) => Late(v)'
  <2>1. v.patch.rev \in Nat /\ v.patch.change.issue \in WorkItems
    BY DEF ReconcileInv, WireHolds, RequestType, PatchType, ChangeType
  <2>2. PICK i \in WorkItems : i = v.patch.change.issue
    BY <2>1
  <2>3. board[i].rev \in Nat /\ board'[i].rev \in Nat /\ board[i].rev <= board'[i].rev
    BY <1>8
  <2> QED BY <2>1, <2>2, <2>3 DEF Late
<1>10. ASSUME NEW v \in wire', NEW n \in DOMAIN landed'[v.no], v.step <= landed'[v.no][n]
       PROVE  Late(v)'
  <2>1. v \in wire /\ v.no \in 1..MaxPackets /\ v.step \in Nat
    BY DEF ReconcileInv, WireHolds, RequestType
  <2>2. RequestHolds(v)
    BY <2>1 DEF ReconcileInv, WireHolds
  <2>3. CASE n \in DOMAIN landed[v.no] /\ landed'[v.no][n] = landed[v.no][n]
    BY <1>9, <1>10, <2>1, <2>2, <2>3 DEF RequestHolds
  <2>4. CASE v.no = w.no /\ v.step < w.step
    BY <1>9, <2>1, <2>2, <2>4 DEF RequestHolds
  <2>5. CASE v.no = w.no /\ v.step = w.step
    <3>1. v.patch = w.patch
      BY <2>2, <2>5 DEF RequestHolds
    <3> QED BY <1>6, <3>1 DEF Late
  <2>6. CASE v.no = w.no /\ landed'[v.no][n] = w.step
    <3>1. v.step < w.step \/ v.step = w.step
      BY <1>1, <1>10, <2>1, <2>6
    <3> QED BY <2>4, <2>5, <2>6, <3>1
  <2>7. CASE v.no # w.no
    BY <1>7, <2>1, <2>3, <2>7
  <2> QED BY <1>7, <2>3, <2>6, <2>7
<1>11. LandedHolds'
  <2>1. packet.no \in 1..MaxPackets /\ Proper(packet)
    BY DEF ReconcileInv, ServiceHolds, Proper, PacketType
  <2>2. ASSUME NEW p \in 1..MaxPackets, packet.no < p PROVE landed'[p] = << >>
    <3>1. w.no <= packet.no
      BY <1>1 DEF RequestHolds
    <3>2. p # w.no
      BY <1>1, <2>1, <2>2, <3>1
    <3> QED BY <1>7, <2>2, <3>2 DEF ReconcileInv, LandedHolds
  <2>3. ASSUME NEW n \in DOMAIN landed'[packet.no]
        PROVE  LET k == landed'[packet.no][n]
               IN  k \in 1..Len(journal) /\ Rev(k) < board'[Issue(k)].rev
    <3>1. CASE n \in DOMAIN landed[packet.no] /\ landed'[packet.no][n] = landed[packet.no][n]
      <4>1. PICK k : k = landed[packet.no][n]
        OBVIOUS
      <4>2. k \in 1..Len(journal) /\ Rev(k) < board[Issue(k)].rev
        BY <3>1, <4>1 DEF ReconcileInv, LandedHolds
      <4>3. k \in DOMAIN packet.patches
        <5>1. Len(journal) \in Nat /\ Len(journal) <= Len(packet.patches) /\ packet.patches \in Seq(PatchType)
          BY <2>1 DEF ReconcileInv, JournalHolds, Proper, PacketType
        <5> QED BY <4>2, <5>1
      <4>4. Issue(k) \in WorkItems /\ Rev(k) \in Nat
        BY <2>1, <4>3, PatchIs DEF Issue, Rev
      <4>5. Rev(k) < board'[Issue(k)].rev
        <5>1. /\ board[Issue(k)].rev \in Nat /\ board'[Issue(k)].rev \in Nat
              /\ board[Issue(k)].rev <= board'[Issue(k)].rev
          BY <1>8, <4>4
        <5> QED BY <4>2, <4>4, <5>1
      <4> QED BY <3>1, <4>1, <4>2, <4>5
    <3>2. CASE packet.no = w.no /\ landed'[packet.no][n] = w.step
      <4>1. w.step \in 1..Len(journal) /\ w.patch = packet.patches[w.step]
        BY <1>1, <3>2 DEF RequestHolds
      <4>2. Rev(w.step) < board'[Issue(w.step)].rev
        BY <1>6, <4>1 DEF Late, Rev, Issue
      <4> QED BY <3>2, <4>1, <4>2
    <3> QED BY <1>7, <2>1, <3>1, <3>2
  <2> QED BY <1>7, <2>2, <2>3 DEF LandedHolds, Issue, Rev
<1>12. ASSUME NEW k \in DOMAIN journal, Settled(k)
       PROVE  board'[Issue(k)].tags = board[Issue(k)].tags /\ board[Issue(k)].preds \subseteq board'[Issue(k)].preds
  <2>1. Issue(k) \in WorkItems
    <3>1. k \in DOMAIN packet.patches /\ Proper(packet)
      BY DEF ReconcileInv, JournalHolds, ServiceHolds, Proper, PacketType
    <3> QED BY <3>1, PatchIs DEF Issue
  <2>2. Issue(k) # key
    BY <1>3, <1>12 DEF Settled
  <2> QED BY <1>5, <2>1, <2>2
<1>13. wire' \subseteq wire /\ count' = count
  OBVIOUS
<1> HIDE DEF key
<1> QED BY <1>2, <1>5, <1>10, <1>11, <1>12, <1>13, BoardMoves

\* What the service takes or loses.
LEMMA ServiceKeeps == ASSUME ReconcileInv, Service PROVE ReconcileInv'
<1> PICK w \in wire : Deliver(w) \/ Lose(w)
    BY DEF Service
<1>1. CASE Lose(w)
  <2>1. RunHolds'
    <3>1. run' = run /\ packet' = packet /\ journal' = journal
      BY <1>1 DEF Lose
    <3> QED BY <3>1, "none" \in {"none", "ok", "conflict"}, ReplyKeeps
  <2> QED BY <1>1, <2>1, GoneKeeps DEF Lose
<1>2. CASE Deliver(w)
  <2>1. PICK reply \in {"ok", "conflict"} : reply = IF Fits(board, w.patch) THEN "ok" ELSE "conflict"
    OBVIOUS
  <2>2. /\ run' = run \/ run' = [run EXCEPT !.reply = reply]
        /\ UNCHANGED <<packet, journal, granted, count>> /\ wire' = wire \ {w}
    BY <1>2, <2>1 DEF Deliver, Goes
  <2>3. RunHolds'
    BY <2>2, ReplyKeeps
  <2>4. CASE Fits(board, w.patch)
    <3>1. board' = Patched(board, w.patch) /\ landed' = [landed EXCEPT ![w.no] = Append(@, w.step)]
      BY <1>2, <2>4 DEF Deliver
    <3> QED BY <2>2, <2>3, <2>4, <3>1, LandingKeeps
  <2>5. CASE ~Fits(board, w.patch)
    <3>1. UNCHANGED boardVars
      BY <1>2, <2>5 DEF Deliver, boardVars
    <3> QED BY <2>2, <2>3, <3>1, GoneKeeps
  <2> QED BY <2>4, <2>5
<1> QED BY <1>1, <1>2

\* A person's edit is a revision more.
LEMMA EditKeeps == ASSUME ReconcileInv, Edit PROVE ReconcileInv'
<1>1. PICK i \in WorkItems, t \in Tags :
        board' = [board EXCEPT ![i].rev = @ + 1, ![i].tags = IF t \in @ THEN @ \ {t} ELSE @ \cup {t}]
  BY DEF Edit
<1>2. /\ board \in BoardType /\ count \in [packets : 1..MaxPackets, edits : Nat, sends : 0..MaxSends]
      /\ count' = [count EXCEPT !.edits = @ + 1] /\ UNCHANGED <<packet, journal, run, granted, wire, landed>>
  BY DEF ReconcileInv, ServiceHolds, Edit
<1>3. /\ count' \in [packets : 1..MaxPackets, edits : Nat, sends : 0..MaxSends]
      /\ count'.packets = count.packets /\ count'.edits # 0
  BY <1>2
<1>4. PICK ts : ts = IF t \in board[i].tags THEN board[i].tags \ {t} ELSE board[i].tags \cup {t}
  OBVIOUS
<1>5. PICK x : x = [board[i] EXCEPT !.rev = @ + 1, !.tags = ts]
  OBVIOUS
<1>6. board' = [board EXCEPT ![i] = x]
  BY <1>1, <1>2, <1>4, <1>5 DEF BoardType
<1>7. /\ x \in [rev : Nat \ {0}, tags : SUBSET Tags, preds : SUBSET WorkItems]
      /\ x.rev = board[i].rev + 1 /\ board[i].rev \in Nat
  <2>1. /\ board[i] \in [rev : Nat \ {0}, tags : SUBSET Tags, preds : SUBSET WorkItems]
    BY <1>2 DEF BoardType
  <2>2. ts \in SUBSET Tags
    BY <1>4, <2>1
  <2>3. PICK r \in Nat : r = board[i].rev
    BY <2>1
  <2>4. r + 1 \in Nat \ {0} /\ x = [board[i] EXCEPT !.rev = r + 1, !.tags = ts]
    BY <1>5, <2>3
  <2> QED BY <2>1, <2>2, <2>3, <2>4
<1>8. board' \in BoardType /\ board'[i] = x /\ \A j \in WorkItems \ {i} : board'[j] = board[j]
  BY <1>2, <1>6, <1>7 DEF BoardType
<1>9. Earlier(board, board')
  <2> SUFFICES ASSUME NEW j \in WorkItems
               PROVE  /\ board[j].rev <= board'[j].rev
                      /\ board[j].rev = board'[j].rev => board[j].tags = board'[j].tags
      BY DEF Earlier
  <2>1. CASE j = i
    <3>1. board[i].rev <= board[i].rev + 1 /\ board[i].rev # board[i].rev + 1
      BY <1>7
    <3> QED BY <1>7, <1>8, <2>1, <3>1
  <2>2. CASE j # i
    <3>1. board[j].rev \in Nat
      BY <1>2 DEF BoardType
    <3> QED BY <1>8, <2>2, <3>1
  <2> QED BY <2>1, <2>2
<1>10. RunHolds'
  BY <1>2, "none" \in {"none", "ok", "conflict"}, ReplyKeeps
<1>11. \A j \in WorkItems : board[j].rev \in Nat /\ board'[j].rev \in Nat /\ board[j].rev <= board'[j].rev
  BY <1>2, <1>8, <1>9 DEF BoardType, Earlier
<1>12. LandedHolds'
  <2>1. ASSUME NEW n \in DOMAIN landed[packet.no]
        PROVE  LET k == landed[packet.no][n]
               IN  k \in 1..Len(journal) /\ Rev(k) < board'[Issue(k)].rev
    <3>1. PICK k : k = landed[packet.no][n]
      OBVIOUS
    <3>2. k \in 1..Len(journal) /\ Rev(k) < board[Issue(k)].rev
      BY <3>1 DEF ReconcileInv, LandedHolds
    <3>3. k \in DOMAIN packet.patches /\ Proper(packet)
      <4>1. /\ Len(journal) \in Nat /\ Len(journal) <= Len(packet.patches)
            /\ packet.patches \in Seq(PatchType) /\ Proper(packet)
        BY DEF ReconcileInv, JournalHolds, ServiceHolds, Proper, PacketType
      <4> QED BY <3>2, <4>1
    <3>4. Issue(k) \in WorkItems /\ Rev(k) \in Nat
      BY <3>3, PatchIs DEF Issue, Rev
    <3>5. /\ board[Issue(k)].rev \in Nat /\ board'[Issue(k)].rev \in Nat
          /\ board[Issue(k)].rev <= board'[Issue(k)].rev
      BY <1>11, <3>4
    <3>6. Rev(k) < board'[Issue(k)].rev
      BY <3>2, <3>4, <3>5
    <3> QED BY <3>1, <3>2, <3>6
  <2> QED BY <1>2, <2>1 DEF ReconcileInv, LandedHolds, Issue, Rev
<1>13. ASSUME NEW v \in wire, NEW n \in DOMAIN landed[v.no], v.step <= landed[v.no][n]
       PROVE  Late(v)'
  <2>1. v.patch.rev \in Nat /\ v.patch.change.issue \in WorkItems
    BY DEF ReconcileInv, WireHolds, RequestType, PatchType, ChangeType
  <2>2. Late(v)
    BY <1>13 DEF ReconcileInv, WireHolds, RequestHolds
  <2>3. PICK j \in WorkItems : j = v.patch.change.issue
    BY <2>1
  <2>4. board[j].rev \in Nat /\ board'[j].rev \in Nat /\ board[j].rev <= board'[j].rev
    BY <1>11
  <2>5. v.patch.rev < board[j].rev
    BY <2>2, <2>3 DEF Late
  <2>6. v.patch.rev < board'[j].rev
    BY <2>1, <2>4, <2>5
  <2> QED BY <2>3, <2>6 DEF Late
<1>14. \A v \in wire' : \A n \in DOMAIN landed'[v.no] : v.step <= landed'[v.no][n] => Late(v)'
  BY <1>2, <1>13
<1> QED BY <1>2, <1>3, <1>8, <1>9, <1>10, <1>12, <1>14, BoardMoves

\* A new proposal is read from the board; what is still on its way was for an
\* earlier one, and for revisions that are not ahead of it.
LEMMA ProposeKeeps == ASSUME ReconcileInv, Propose PROVE ReconcileInv'
<1>1. PICK changes \in ChangeLists :
        ValidRequest(changes, board) /\ packet' = Proposal(count.packets + 1, board, changes)
  BY DEF Propose
<1>2. /\ board \in BoardType /\ count \in [packets : 1..MaxPackets, edits : Nat, sends : 0..MaxSends]
      /\ packet.no = count.packets /\ count.packets < MaxPackets
      /\ count' = [count EXCEPT !.packets = @ + 1] /\ journal' = << >> /\ granted' = TRUE /\ Raises
      /\ UNCHANGED <<board, wire, landed>>
  BY DEF ReconcileInv, ServiceHolds, Propose
<1>3. count.packets \in Nat /\ count.packets + 1 \in 1..MaxPackets
  BY <1>2, ReconcileAssumption
<1>4. /\ count' \in [packets : 1..MaxPackets, edits : Nat, sends : 0..MaxSends]
      /\ count'.packets = count.packets + 1
  BY <1>2, <1>3
<1>5. Proper(packet') /\ packet'.no = count.packets + 1 /\ packet'.baseline = board
  BY <1>1, <1>2, <1>3, ProposalIsProper
<1>6. Reached(board, packet', board, 0)
  <2>1. \A i \in WorkItems : board[i].rev \in Nat
    BY <1>2 DEF BoardType
  <2> QED BY <1>2, <1>5, <2>1 DEF Reached, Earlier
<1>7. ServiceHolds'
  <2>1. Proper(packet)'
    BY <1>5 DEF Proper
  <2> QED BY <1>2, <1>4, <1>5, <1>6, <2>1 DEF ServiceHolds
<1>8. JournalHolds'
  <2>1. packet'.patches \in Seq(PatchType)
    BY <1>5 DEF Proper, PacketType
  <2>2. /\ << >> \in Seq(EntryType) /\ Len(<< >>) = 0 /\ DOMAIN << >> = {} /\ 0 <= Len(packet'.patches)
    BY <2>1
  <2> QED BY <1>2, <2>2 DEF JournalHolds
<1>9. RunHolds'
  BY <1>2, Ended DEF Raises
<1>10. ASSUME NEW w \in wire PROVE RequestHolds(w)'
  <2>1. RequestHolds(w) /\ w.no \in Nat
    BY DEF ReconcileInv, WireHolds, RequestType
  <2>2. w.no < packet'.no /\ w.no <= packet'.no /\ w.no # packet'.no
    BY <1>2, <1>3, <1>5, <2>1 DEF RequestHolds
  <2> QED BY <1>2, <1>5, <2>1, <2>2 DEF RequestHolds, Late
<1>11. WireHolds'
  BY <1>2, <1>10 DEF ReconcileInv, WireHolds
<1>12. LandedHolds'
  <2>1. landed[packet'.no] = << >> /\ \A p \in 1..MaxPackets : packet'.no < p => packet.no < p
    BY <1>2, <1>3, <1>5 DEF ReconcileInv, LandedHolds
  <2>2. \A n \in DOMAIN << >> : FALSE
    OBVIOUS
  <2> QED BY <1>2, <2>1, <2>2 DEF ReconcileInv, LandedHolds
<1> QED BY <1>7, <1>8, <1>9, <1>11, <1>12 DEF ReconcileInv

\* A run dies, or the grant changes.
LEMMA AsideReconcileKeeps ==
  ASSUME ReconcileInv, ApplierDies \/ Regrant \/ UNCHANGED reconcileVars PROVE ReconcileInv'
<1>1. CASE ApplierDies
  BY <1>1, RaisesKeeps DEF ApplierDies
<1>2. CASE Regrant \/ UNCHANGED reconcileVars
  <2>1. /\ UNCHANGED <<boardVars, packet, journal, run, wire, count>>
        /\ granted' = granted \/ granted' = ~granted
    BY <1>2 DEF Regrant, reconcileVars, boardVars
  <2>2. granted' \in BOOLEAN
    BY <2>1 DEF ReconcileInv, ServiceHolds
  <2>3. RunHolds'
    <3>1. run' = run /\ packet' = packet /\ journal' = journal
      BY <2>1
    <3> QED BY <3>1, "none" \in {"none", "ok", "conflict"}, ReplyKeeps
  <2> QED BY <2>1, <2>2, <2>3, RunMoves
<1> QED BY <1>1, <1>2

\* A first proposal is read from the board, and nothing is on its way.
LEMMA ReconcileStarts == ReconcileInit => ReconcileInv
<1> SUFFICES ASSUME ReconcileInit PROVE ReconcileInv
    OBVIOUS
<1>1. /\ FirstBoard \in BoardType /\ MaxPackets \in Nat \ {0} /\ MaxSends \in Nat
      /\ 1 \in 1..MaxPackets /\ 0 \in 0..MaxSends
  BY ReconcileAssumption
<1>2. PICK changes \in ChangeLists : ValidRequest(changes, FirstBoard) /\ packet = Proposal(1, FirstBoard, changes)
  BY DEF ReconcileInit
<1>3. Proper(packet) /\ packet.no = 1 /\ packet.baseline = FirstBoard
  BY <1>1, <1>2, ProposalIsProper
<1>4. /\ board = FirstBoard /\ journal = << >> /\ run = NoRun /\ granted = TRUE /\ wire = {}
      /\ landed = [p \in 1..MaxPackets |-> << >>] /\ count = [packets |-> 1, edits |-> 0, sends |-> 0]
  BY DEF ReconcileInit
<1>5. ServiceHolds
  <2>1. \A i \in WorkItems : board[i].rev \in Nat
    BY <1>1, <1>4 DEF BoardType
  <2>2. Reached(board, packet, packet.baseline, 0)
    BY <1>1, <1>3, <1>4, <2>1 DEF Reached, Earlier
  <2> QED BY <1>1, <1>3, <1>4, <2>2 DEF ServiceHolds
<1>6. JournalHolds
  <2>1. packet.patches \in Seq(PatchType)
    BY <1>3 DEF Proper, PacketType
  <2>2. /\ << >> \in Seq(EntryType) /\ Len(<< >>) = 0 /\ DOMAIN << >> = {} /\ 0 <= Len(packet.patches)
    BY <2>1
  <2> QED BY <1>4, <2>2 DEF JournalHolds
<1>7. RunHolds
  <2>1. << >> \in Seq(EntryType)
    OBVIOUS
  <2> QED BY <1>1, <1>4, <2>1 DEF RunHolds, NoRun, RunType
<1>8. WireHolds
  BY <1>4 DEF WireHolds
<1>9. LandedHolds
  <2>1. \A p \in 1..MaxPackets : landed[p] = << >>
    BY <1>4
  <2>2. \A n \in DOMAIN << >> : FALSE
    OBVIOUS
  <2>3. << >> \in Seq(Nat)
    OBVIOUS
  <2> QED BY <1>1, <1>3, <1>4, <2>1, <2>2, <2>3 DEF LandedHolds
<1> QED BY <1>5, <1>6, <1>7, <1>8, <1>9 DEF ReconcileInv

\* Every step of the run, of the service and of people keeps the invariant.
LEMMA ReconcileSteps == ReconcileInv /\ [ReconcileNext]_reconcileVars => ReconcileInv'
<1> SUFFICES ASSUME ReconcileInv, [ReconcileNext]_reconcileVars PROVE ReconcileInv'
    OBVIOUS
<1>1. CASE Applying
  BY <1>1, BeginApplyKeeps, ResumeKeeps, CheckKeeps, EndApplyKeeps, ReadBeforeKeeps, IntendKeeps,
     SendKeeps, AnswerKeeps, ConflictKeeps, ReadAfterKeeps DEF Applying
<1>2. CASE Service
  BY <1>2, ServiceKeeps
<1>3. CASE Propose \/ Edit
  BY <1>3, ProposeKeeps, EditKeeps
<1> QED BY <1>1, <1>2, <1>3, AsideReconcileKeeps DEF ReconcileNext

\* The invariant holds in every state of a reconciliation.
THEOREM ReconcileInvariant == ReconcileSpec => []ReconcileInv
BY ReconcileStarts, ReconcileSteps, PTL DEF ReconcileSpec

-----------------------------------------------------------------------------
(* What the invariant says. *)

\* The journal of a run that reported "applied" has every patch verified, and a
\* verified patch is settled.
LEMMA AppliedFromInvariant == ReconcileInv => AppliedIsComplete
<1> SUFFICES ASSUME ReconcileInv PROVE AppliedIsComplete
    OBVIOUS
<1>1. ReconcileTypeOK
  BY DEF ReconcileInv, ServiceHolds, JournalHolds, RunHolds, WireHolds, Proper, ReconcileTypeOK
<1>2. ASSUME run.receipt = "applied", count.edits = 0, NEW k \in DOMAIN packet.patches
      PROVE  /\ board[Issue(k)].tags = packet.patches[k].tags
             /\ packet.patches[k].preds \subseteq board[Issue(k)].preds
  <2>1. Len(journal) = Len(packet.patches) /\ \A j \in DOMAIN journal : journal[j].status = "verified"
    BY <1>2 DEF ReconcileInv, RunHolds
  <2>2. k \in DOMAIN journal
    BY <2>1 DEF ReconcileInv, JournalHolds, ServiceHolds, Proper, PacketType
  <2>3. Settled(k)
    BY <2>1, <2>2 DEF ReconcileInv, JournalHolds, EntryHolds
  <2> QED BY <1>2, <2>3 DEF Settled
<1> QED BY <1>1, <1>2 DEF AppliedIsComplete, Issue

\* For any board, changes and proposals, and whatever is killed, lost or late: what
\* "applied" reported is on the board as long as nobody edits it.
THEOREM AppliedStaysComplete == ReconcileSpec => []AppliedIsComplete
BY ReconcileInvariant, AppliedFromInvariant, PTL

\* Only a request that lands changes what has landed, and it is the one that is gone.
LEMMA LandingIs ==
  ASSUME [ReconcileNext]_reconcileVars, landed' # landed
  PROVE  \E w \in wire : /\ wire' = wire \ {w} /\ Fits(board, w.patch)
                         /\ board' = Patched(board, w.patch)
                         /\ landed' = [landed EXCEPT ![w.no] = Append(@, w.step)]
<1>1. ASSUME Propose \/ Applying \/ ApplierDies \/ Edit \/ Regrant \/ UNCHANGED reconcileVars
      PROVE  landed' = landed
  <2>1. ASSUME Applying PROVE landed' = landed
    BY <2>1 DEF Applying, BeginApply, Resume, Check, EndApply, ReadBefore, Intend, Send, Answer, Conflict,
       ReadAfter, boardVars
  <2> QED BY <1>1, <2>1 DEF Propose, ApplierDies, Edit, Regrant, reconcileVars, boardVars
<1>2. PICK w \in wire : Deliver(w) \/ Lose(w)
  BY <1>1 DEF ReconcileNext, Service
<1>3. Deliver(w) /\ Fits(board, w.patch)
  BY <1>2 DEF Deliver, Lose, boardVars
<1> QED BY <1>3 DEF Deliver

\* A PATCH that lands finds the tags that it was made from.
LEMMA LandingRespects ==
  ASSUME ReconcileInv, [ReconcileNext]_reconcileVars, NEW w \in wire, landed' # landed, w \notin wire'
  PROVE  board'[w.patch.change.issue].tags = DesiredTags(board[w.patch.change.issue].tags, w.patch.change)
<1>1. /\ Fits(board, w.patch) /\ board' = Patched(board, w.patch)
  BY LandingIs
<1>2. /\ RequestHolds(w) /\ w.patch \in PatchType /\ board \in BoardType
  BY DEF ReconcileInv, WireHolds, RequestType, ServiceHolds
<1>3. w.patch.change.issue \in WorkItems
  BY <1>2 DEF PatchType, ChangeType
<1>4. w.patch.rev = board[w.patch.change.issue].rev /\ board[w.patch.change.issue].rev \in Nat
  BY <1>1, <1>2, <1>3 DEF Fits, RequestHolds, BoardType
<1>5. ~Late(w)
  BY <1>4 DEF Late
<1>6. board'[w.patch.change.issue].tags = w.patch.tags
  BY <1>1, <1>2, PatchedMoves
<1> QED BY <1>2, <1>5, <1>6 DEF RequestHolds

\* For any board, changes and edits: a PATCH that takes effect, late or not, only
\* changes the tags the operator asked for.
THEOREM EditsOfPeopleSurvive == ReconcileSpec => HumanEditsSurvive
<1>1. ReconcileInv /\ [ReconcileNext]_reconcileVars =>
        [\A w \in wire : landed' # landed /\ w \notin wire' =>
           LET key == w.patch.change.issue
           IN  board'[key].tags = DesiredTags(board[key].tags, w.patch.change)]_reconcileVars
  BY LandingRespects
<1> QED BY <1>1, ReconcileInvariant, PTL DEF ReconcileSpec, HumanEditsSurvive

\* What lands comes after everything of its proposal that landed before.
LEMMA LandingIsNext ==
  ASSUME ReconcileInv, [ReconcileNext]_reconcileVars
  PROVE  [Serial!Next]_landed
<1> SUFFICES ASSUME landed' # landed PROVE Serial!Next
    OBVIOUS
<1>1. PICK w \in wire : /\ Fits(board, w.patch)
                        /\ landed' = [landed EXCEPT ![w.no] = Append(@, w.step)]
  BY LandingIs
<1>2. /\ RequestHolds(w) /\ w.patch \in PatchType /\ board \in BoardType /\ w.no \in 1..MaxPackets
      /\ w.step \in Numbers /\ w.step \in Nat /\ landed \in [1..MaxPackets -> Seq(Nat)]
  BY DEF ReconcileInv, WireHolds, RequestHolds, RequestType, ServiceHolds, LandedHolds
<1>3. w.patch.change.issue \in WorkItems
  BY <1>2 DEF PatchType, ChangeType
<1>4. w.patch.rev = board[w.patch.change.issue].rev /\ board[w.patch.change.issue].rev \in Nat
  BY <1>1, <1>2, <1>3 DEF Fits, RequestHolds, BoardType
<1>5. ~Late(w)
  BY <1>4 DEF Late
<1>6. \A n \in DOMAIN landed[w.no] : landed[w.no][n] < w.step
  <2> SUFFICES ASSUME NEW n \in DOMAIN landed[w.no] PROVE landed[w.no][n] < w.step
      OBVIOUS
  <2>1. landed[w.no][n] \in Nat
    BY <1>2
  <2>2. ~(w.step <= landed[w.no][n])
    BY <1>2, <1>5 DEF RequestHolds
  <2> QED BY <1>2, <2>1, <2>2
<1> QED BY <1>1, <1>2, <1>6 DEF Serial!Next

\* For any board, changes and proposals, however often the run is killed or left
\* without an answer: the patches of a proposal take effect in their order, each at
\* most once.
THEOREM PatchesAreSerial == ReconcileSpec => SerialSpec
<1>1. ReconcileInit => Serial!Init
  BY DEF ReconcileInit, Serial!Init
<1>2. ReconcileInv /\ [ReconcileNext]_reconcileVars => [Serial!Next]_landed
  BY LandingIsNext
<1> QED BY <1>1, <1>2, ReconcileInvariant, PTL DEF ReconcileSpec, SerialSpec, Serial!Spec
=============================================================================
