---------------------------- MODULE ApprovalInbox ----------------------------
(***************************************************************************)
(* atlas_approval.py: one approval request, asked of a person through an   *)
(* external issuer that signs answers.  The request's card counts its      *)
(* revisions; a materially changed request or an explicit reopening makes  *)
(* a new one.  Operators are processes that prepare, reopen, issue and     *)
(* import; each holds the inbox only while it writes (a flock tried once), *)
(* and reads, verification and the issuer run outside of it.               *)
(***************************************************************************)
EXTENDS Integers, FiniteSets, SequencesExt

CONSTANTS
  Operators, Materials, Decisions,
  Life,                                  \* how long a grant is valid
  MaxRevision, MaxGrants, MaxClock       \* bounds of the exploration

ASSUME InboxAssumption == MaxRevision \in Nat

VARIABLES
  card,    \* the stored card
  shown,   \* revision and material of the readable review beside it
  intent,  \* <request>.issuer-intent.json
  op,      \* the operators
  inbox,   \* who holds inbox.lock
  signed,  \* grants the issuer signed; anybody may carry them
  revoked, \* grants the trust registry revokes
  clock,
  asked    \* history: the revisions the issuer was invoked for

inboxVars == <<card, shown, intent, op, inbox, signed, revoked, clock, asked>>

NoCard == [rev |-> 0, material |-> "none", answer |-> {}, updated |-> 0, history |-> << >>]
NoOperator == [pc |-> "idle", request |-> "none", rev |-> 0, decision |-> "none", response |-> {}]

InboxInit ==
  /\ card = NoCard /\ shown = <<0, "none">>
  /\ intent = [rev |-> 0, material |-> "none", decision |-> "none"]
  /\ op = [p \in Operators |-> NoOperator]
  /\ inbox = {} /\ signed = {} /\ revoked = {} /\ clock = 0 /\ asked = << >>

OpAt(p, pc) == op[p].pc = pc
OpTo(p, pc) == op' = [op EXCEPT ![p].pc = pc]
Grant(p) == CHOOSE g \in op[p].response : TRUE

\* _verify_response with verify_grant: the answer is to this very revision, and
\* signed by a grant valid at the time and not revoked.
Verified(c, g, time) ==
  /\ g.rev = c.rev /\ g.material = c.material
  /\ g.from <= time /\ time < g.from + Life
  /\ g \notin revoked

Retired(c) == [rev |-> c.rev, material |-> c.material, answer |-> c.answer]
NextCard(material) == [rev |-> card.rev + 1, material |-> material, answer |-> {}, updated |-> clock,
                       history |-> IF card.rev = 0 THEN << >> ELSE Append(card.history, Retired(card))]
-----------------------------------------------------------------------------
(* prepare and reopen.                                                      *)

\* Mutant of Prepare: an unchanged request is reported without a look at its review.
PrepareTrusting(p, m) ==
  /\ OpAt(p, "idle") /\ inbox = {} /\ inbox' = {p}
  /\ IF card.material = m
     THEN OpTo(p, "report") /\ UNCHANGED card
     ELSE card.rev < MaxRevision /\ card' = NextCard(m) /\ OpTo(p, "review")
  /\ UNCHANGED <<shown, intent, signed, revoked, clock, asked>>

Prepare(p, m) ==
  /\ OpAt(p, "idle") /\ inbox = {} /\ inbox' = {p}
  /\ \/ card.material = m /\ UNCHANGED card
     \/ card.material # m /\ card.rev < MaxRevision /\ card' = NextCard(m)
  /\ OpTo(p, "review")
  /\ UNCHANGED <<shown, intent, signed, revoked, clock, asked>>

\* Mutant of Reopen: the issuer's latest attempt is not looked at.
ReopenHasty(p, m) ==
  /\ OpAt(p, "idle") /\ inbox = {} /\ inbox' = {p}
  /\ card.material = m /\ card.rev < MaxRevision
  /\ \E g \in card.answer : Verified(card, g, card.updated)
  /\ card' = NextCard(m)
  /\ OpTo(p, "review")
  /\ UNCHANGED <<shown, intent, signed, revoked, clock, asked>>

\* The revision was answered, by a grant good when it was imported, and the
\* issuer's latest attempt, if any, asked for that very answer.
Reopen(p, m) ==
  /\ OpAt(p, "idle") /\ inbox = {} /\ inbox' = {p}
  /\ card.material = m /\ card.rev < MaxRevision
  /\ \E g \in card.answer :
       /\ Verified(card, g, card.updated)
       /\ intent.rev # 0 => intent = [rev |-> card.rev, material |-> m, decision |-> g.decision]
  /\ card' = NextCard(m)
  /\ OpTo(p, "review")
  /\ UNCHANGED <<shown, intent, signed, revoked, clock, asked>>

\* The artifacts are written after the card.
ShowReview(p) ==
  /\ OpAt(p, "review")
  /\ shown' = <<card.rev, card.material>>
  /\ OpTo(p, "report")
  /\ UNCHANGED <<card, intent, inbox, signed, revoked, clock, asked>>

ReportCard(p) ==
  /\ OpAt(p, "report")
  /\ inbox' = {} /\ op' = [op EXCEPT ![p] = NoOperator]
  /\ UNCHANGED <<card, shown, intent, signed, revoked, clock, asked>>
-----------------------------------------------------------------------------
(* operator_issue.                                                          *)

\* export_request, without the lock.
Export(p, m, d) ==
  /\ OpAt(p, "idle") /\ card.material = m
  /\ op' = [op EXCEPT ![p] = [NoOperator EXCEPT !.pc = "exported", !.request = m, !.rev = card.rev, !.decision = d]]
  /\ UNCHANGED <<card, shown, intent, inbox, signed, revoked, clock, asked>>

\* Mutant of IntendIssue: an attempt recorded for the revision does not matter.
IntendIssueAgain(p) ==
  /\ OpAt(p, "exported") /\ inbox = {}
  /\ card.material = op[p].request /\ card.rev = op[p].rev /\ card.answer = {}
  /\ intent' = [rev |-> card.rev, material |-> card.material, decision |-> op[p].decision]
  /\ OpTo(p, "ask")
  /\ UNCHANGED <<card, shown, inbox, signed, revoked, clock, asked>>

\* Under the lock: nothing changed, nothing was answered or attempted.
IntendIssue(p) ==
  /\ OpAt(p, "exported") /\ inbox = {}
  /\ card.material = op[p].request /\ card.rev = op[p].rev /\ card.answer = {}
  /\ intent.rev # card.rev
  /\ intent' = [rev |-> card.rev, material |-> card.material, decision |-> op[p].decision]
  /\ OpTo(p, "ask")
  /\ UNCHANGED <<card, shown, inbox, signed, revoked, clock, asked>>

\* _invoke_issuer.
Ask(p) ==
  /\ OpAt(p, "ask")
  /\ asked' = Append(asked, op[p].rev)
  /\ OpTo(p, "asked")
  /\ UNCHANGED <<card, shown, intent, inbox, signed, revoked, clock>>

NewGrant(rev, m, d) == [rev |-> rev, material |-> m, decision |-> d, from |-> clock]

\* The person consents; the adapter's output arrives, or it is killed at its deadline.
IssuerAnswers(p) ==
  /\ OpAt(p, "asked") /\ Cardinality(signed) < MaxGrants
  /\ LET g == NewGrant(op[p].rev, op[p].request, op[p].decision)
     IN  /\ signed' = signed \cup {g}
         /\ \/ op' = [op EXCEPT ![p].pc = "import", ![p].response = {g}]
            \/ op' = [op EXCEPT ![p] = NoOperator]
  /\ UNCHANGED <<card, shown, intent, inbox, revoked, clock, asked>>
-----------------------------------------------------------------------------
(* import_response.                                                         *)

Import(p, g) ==
  /\ OpAt(p, "idle")
  /\ op' = [op EXCEPT ![p] = [NoOperator EXCEPT !.pc = "import", !.request = g.material, !.response = {g}]]
  /\ UNCHANGED <<card, shown, intent, inbox, signed, revoked, clock, asked>>

\* Outside the lock.
VerifyImport(p) ==
  /\ OpAt(p, "import")
  /\ card.material = op[p].request /\ Verified(card, Grant(p), clock)
  /\ op' = [op EXCEPT ![p].pc = "verified", ![p].rev = card.rev]
  /\ UNCHANGED <<card, shown, intent, inbox, signed, revoked, clock, asked>>

\* Mutants of StoreImport: what was verified before the lock is not verified
\* again; an answer already there is overwritten.
StoreImportUnchecked(p) ==
  /\ OpAt(p, "verified") /\ inbox = {}
  /\ \A old \in card.answer : old.decision = Grant(p).decision
  /\ card' = [card EXCEPT !.answer = op[p].response, !.updated = clock]
  /\ op' = [op EXCEPT ![p] = NoOperator]
  /\ UNCHANGED <<shown, intent, inbox, signed, revoked, clock, asked>>
StoreImportOver(p) ==
  /\ OpAt(p, "verified") /\ inbox = {}
  /\ card.material = op[p].request /\ card.rev = op[p].rev /\ Verified(card, Grant(p), clock)
  /\ card' = [card EXCEPT !.answer = op[p].response, !.updated = clock]
  /\ op' = [op EXCEPT ![p] = NoOperator]
  /\ UNCHANGED <<shown, intent, inbox, signed, revoked, clock, asked>>

\* Everything is verified again under the lock.  The same answer again changes
\* nothing, a newly signed grant of the same decision replaces the old one, another
\* decision is refused.
StoreImport(p) ==
  /\ OpAt(p, "verified") /\ inbox = {}
  /\ card.material = op[p].request /\ card.rev = op[p].rev /\ Verified(card, Grant(p), clock)
  /\ \A old \in card.answer : old.decision = Grant(p).decision
  /\ card' = IF card.answer = op[p].response THEN card
             ELSE [card EXCEPT !.answer = op[p].response, !.updated = clock]
  /\ op' = [op EXCEPT ![p] = NoOperator]
  /\ UNCHANGED <<shown, intent, inbox, signed, revoked, clock, asked>>

\* A check fails, the lock is taken, or the process dies; its lock is freed.
Abandon(p) ==
  /\ ~OpAt(p, "idle")
  /\ op' = [op EXCEPT ![p] = NoOperator]
  /\ inbox' = inbox \ {p}
  /\ UNCHANGED <<card, shown, intent, signed, revoked, clock, asked>>
-----------------------------------------------------------------------------
(* The people outside: an answer signed without the adapter, from an         *)
(* exported subject; a revocation; time.                                     *)

Sign(d) ==
  /\ card.rev > 0 /\ Cardinality(signed) < MaxGrants
  /\ signed' = signed \cup {NewGrant(card.rev, card.material, d)}
  /\ UNCHANGED <<card, shown, intent, op, inbox, revoked, clock, asked>>
Revoke ==
  /\ revoked = {}
  /\ \E g \in signed : revoked' = {g}
  /\ UNCHANGED <<card, shown, intent, op, inbox, signed, clock, asked>>
InboxTick ==
  /\ clock < MaxClock /\ clock' = clock + 1
  /\ UNCHANGED <<card, shown, intent, op, inbox, signed, revoked, asked>>

InboxNext ==
  \/ \E p \in Operators :
       \/ \E m \in Materials : \/ Prepare(p, m) \/ Reopen(p, m)
                               \/ \E d \in Decisions : Export(p, m, d)
       \/ \E g \in signed : Import(p, g)
       \/ ShowReview(p) \/ ReportCard(p) \/ IntendIssue(p) \/ Ask(p) \/ IssuerAnswers(p)
       \/ VerifyImport(p) \/ StoreImport(p) \/ Abandon(p)
  \/ \E d \in Decisions : Sign(d)
  \/ Revoke \/ InboxTick

InboxSpec == InboxInit /\ [][InboxNext]_inboxVars
-----------------------------------------------------------------------------
\* The types of the variables, and whose answer a card may have.
InboxTypeOK ==
  /\ card.rev \in 0..MaxRevision /\ card.material \in Materials \cup {"none"}
  /\ card.answer \subseteq signed /\ Cardinality(card.answer) <= 1
  /\ \A g \in card.answer : g.rev = card.rev /\ g.material = card.material
  /\ Len(card.history) = IF card.rev = 0 THEN 0 ELSE card.rev - 1
  /\ intent.rev <= card.rev
  /\ inbox = {p \in Operators : op[p].pc \in {"review", "report"}} /\ Cardinality(inbox) <= 1

\* A person is asked at most once for a revision, whatever died, timed out or was
\* retried.  Who prepares or reopens reports a card whose readable review is the
\* current one, even when an earlier writer died between the card and its review;
\* and whatever answer the card has was signed for the revision and the material
\* it shows.
AskedOnceAsShown ==
  /\ InboxTypeOK
  /\ \A i, j \in DOMAIN asked : asked[i] = asked[j] => i = j
  /\ \A p \in Operators : OpAt(p, "report") => shown = <<card.rev, card.material>>

\* Within a revision an answer stands: it is never withdrawn nor turned into
\* another decision, and a new revision keeps on record what the last one ended with.
AnswersStand ==
  [][IF card'.rev = card.rev
     THEN /\ card'.history = card.history
          /\ card.answer # {} => {g.decision : g \in card'.answer} = {g.decision : g \in card.answer}
     ELSE /\ card'.rev = card.rev + 1
          /\ card.rev > 0 => card'.history = Append(card.history, Retired(card))]_inboxVars

\* Reopening the same material never buries an attempt of the issuer whose
\* answer may still come with another decision.
ReopeningIsReconciled ==
  [][card'.rev # card.rev /\ card'.material = card.material =>
       \A p \in Operators : op[p].pc \in {"ask", "asked"} /\ op[p].rev = card.rev =>
         \A g \in card.answer : g.decision = op[p].decision]_inboxVars
=============================================================================
