------------------------------ MODULE MCConsent ------------------------------
(* What people consent to: the answer to a request, and a change of the board *)
(* applied from a reviewed proposal.  The two share no state: the part chosen *)
(* at first runs, the other rests.                                            *)
EXTENDS AzureReconcile, ApprovalInbox, TLC

VARIABLE part
allVars == <<part, reconcileVars, inboxVars>>

\* A part that rests has one initial state.
ConsentInit ==
  /\ part \in {"reconcile", "inbox"} /\ ReconcileInit /\ InboxInit
  /\ part = "inbox" => packet = Proposal(1, FirstBoard, CHOOSE l \in ChangeLists : ValidRequest(l, FirstBoard))

ReconcilePart == part = "reconcile" /\ ReconcileNext /\ UNCHANGED inboxVars
InboxPart == part = "inbox" /\ InboxNext /\ UNCHANGED reconcileVars
ConsentNext == UNCHANGED part /\ (ReconcilePart \/ InboxPart)
ConsentSpec == ConsentInit /\ [][ConsentNext]_allVars

\* Two work items, two change lists: a link and a tag on both ends; a tag
\* exchanged and a link the other way round.
CONSTANTS a, b, mine, theirs
TwoWorkItems == {a, b}
TwoTags == {mine, theirs}
TwoBoards == [i \in TwoWorkItems |-> [rev |-> 1, tags |-> IF i = a THEN {theirs} ELSE {}, preds |-> {}]]
Change(i, plus, minus, preds) == [issue |-> i, add |-> plus, remove |-> minus, preds |-> preds]
TwoRequests == {<<Change(a, {}, {}, {b}), Change(b, {mine}, {}, {})>>,
                <<Change(a, {mine}, {theirs}, {}), Change(b, {}, {}, {a})>>}

\* Two operators, two versions of the request, two decisions.
CONSTANTS op1, op2, m1, m2, accepted, rejected
TwoOperators == {op1, op2}
TwoMaterials == {m1, m2}
TwoDecisions == {accepted, rejected}

Alike == Permutations(TwoOperators) \cup Permutations(TwoMaterials) \cup Permutations(TwoDecisions)
=============================================================================
