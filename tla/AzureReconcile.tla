--------------------------- MODULE AzureReconcile ---------------------------
(***************************************************************************)
(* atlas_azure_reconcile.py: a reviewed proposal of Azure Board changes is *)
(* applied one PATCH at a time, each tested against the revision of its    *)
(* work item, with a journal that is written before every PATCH and after  *)
(* every answer.  A run may be killed anywhere, an answer may be lost, a   *)
(* PATCH may arrive late, and people edit the board meanwhile.             *)
(*                                                                         *)
(* A work item is its revision, its tags (a terminal state counts as one   *)
(* more tag) and its predecessors; the successor link is the same edge     *)
(* seen from the other end and moves that item's revision too.             *)
(***************************************************************************)
EXTENDS Naturals, FiniteSets, SequencesExt

CONSTANTS
  WorkItems, Tags,
  FirstBoard,   \* the board before anything happens
  ChangeLists,     \* the change lists an operator may ask for, sorted by work item
  MaxPackets,   \* bound on proposals (model checking only)
  MaxEdits,     \* bound on edits by people (model checking only)
  MaxSends      \* bound on PATCH requests (model checking only)

ChangeType == [issue : WorkItems, add : SUBSET Tags, remove : SUBSET Tags, preds : SUBSET WorkItems]
BoardType == [WorkItems -> [rev : Nat \ {0}, tags : SUBSET Tags, preds : SUBSET WorkItems]]

\* Changes name items and tags that exist, and revisions count from one
\* (_validate_projection); at least one proposal may be made.
ASSUME ReconcileAssumption ==
  /\ FirstBoard \in BoardType
  /\ \A changes \in ChangeLists : changes \in Seq(ChangeType)
  /\ MaxPackets \in Nat \ {0} /\ MaxSends \in Nat

VARIABLES
  board,    \* the work items as the service holds them
  packet,   \* the proposal in force: its baseline, its changes, its patches
  journal,  \* the entries in <packet hash>.json
  run,      \* the invocation of apply_proposal that holds .lock, if any
  granted,  \* the grant, the gates and the freshness of the proposal hold now
  wire,     \* PATCH requests on their way to the service
  landed,   \* history: per packet, the patches that took effect
  count     \* history: proposals, edits and requests so far

boardVars == <<board, landed>>
reconcileVars == <<board, packet, journal, run, granted, wire, landed, count>>
-----------------------------------------------------------------------------
(* The pure part: a proposal and its postcondition.                         *)

DesiredTags(tags, change) == (tags \ change.remove) \cup change.add

Edges(items) == UNION {{<<i, j>> : j \in items[i].preds} : i \in WorkItems}

\* _validate_graph: Kahn's algorithm finishes every node, so no set of items
\* waits for itself.
ValidGraph(edges) ==
  \A S \in SUBSET WorkItems \ {{}} : \E i \in S : \A j \in S : <<i, j>> \notin edges

NewPreds(change, items) == change.preds \ items[change.issue].preds

\* _changes: no item twice, every endpoint was read, and the additions close no cycle.
ValidRequest(changes, items) ==
  /\ \A j, k \in DOMAIN changes : changes[j].issue = changes[k].issue => j = k
  /\ ValidGraph(Edges(items) \cup UNION {{<<c.issue, j>> : j \in c.preds} : c \in Range(changes)})

HasEffect(change, items) ==
  NewPreds(change, items) # {} \/ DesiredTags(items[change.issue].tags, change) # items[change.issue].tags

Untested == 0  \* the revision of a patch without a test operation

\* Mutant of PatchOf: the PATCH carries no test of the revision.
PatchOfBlind(changes, k, items) ==
  [change |-> changes[k], rev |-> Untested, tags |-> DesiredTags(items[changes[k].issue].tags, changes[k]),
   preds |-> NewPreds(changes[k], items)]

\* _patches, one change: what it writes and the revision it must find, given
\* that the links before it each moved the revisions of both ends.
PatchOf(changes, k, items) ==
  LET key == changes[k].issue
  IN  [change |-> changes[k],
       rev |-> items[key].rev + Cardinality({j \in 1..(k - 1) : key \in NewPreds(changes[j], items)}),
       tags |-> DesiredTags(items[key].tags, changes[k]),
       preds |-> NewPreds(changes[k], items)]

\* The n-th number of S.
Nth(S, n) == CHOOSE k \in S : Cardinality({j \in S : j <= k}) = n

\* One patch for each change that changes anything, in their order.
Patches(items, changes) ==
  LET kept == {k \in DOMAIN changes : HasEffect(changes[k], items)}
  IN  [n \in 1..Cardinality(kept) |-> PatchOf(changes, Nth(kept, n), items)]

\* build_proposal
Proposal(no, items, changes) ==
  [no |-> no, baseline |-> items, patches |-> Patches(items, changes)]

\* The service answers 409 or 412 unless the test of the revision holds.
Fits(items, patch) == patch.rev \in {Untested, items[patch.change.issue].rev}

\* The service performs a PATCH on the items it has.
Patched(items, patch) ==
  LET key == patch.change.issue
  IN  [i \in WorkItems |->
        [rev |-> items[i].rev + (IF i = key \/ i \in patch.preds THEN 1 ELSE 0),
         tags |-> IF i = key THEN patch.tags ELSE items[i].tags,
         preds |-> IF i = key THEN items[i].preds \cup patch.preds ELSE items[i].preds]]

\* _check_after: exactly the change's own effect lies between the two reads.
IsAfter(before, after, change) ==
  LET new == NewPreds(change, before)
      key == change.issue
  IN  /\ \A i \in WorkItems :
           /\ after[i].rev = before[i].rev + (IF i = key \/ i \in new THEN 1 ELSE 0)
           /\ after[i].tags = IF i = key THEN DesiredTags(before[i].tags, change) ELSE before[i].tags
           /\ after[i].preds = IF i = key THEN before[i].preds \cup new ELSE before[i].preds
      /\ ValidGraph(Edges(after))
-----------------------------------------------------------------------------
NoRun == [pc |-> "idle", entries |-> << >>, expected |-> FirstBoard, current |-> FirstBoard,
          attempt |-> 0, reply |-> "none", uncertain |-> FALSE, receipt |-> "none"]

ReconcileInit ==
  /\ board = FirstBoard
  /\ \E changes \in ChangeLists : ValidRequest(changes, FirstBoard) /\ packet = Proposal(1, FirstBoard, changes)
  /\ journal = << >>
  /\ run = NoRun
  /\ granted = TRUE
  /\ wire = {}
  /\ landed = [p \in 1..MaxPackets |-> << >>]
  /\ count = [packets |-> 1, edits |-> 0, sends |-> 0]

Ends(receipt) == run' = [NoRun EXCEPT !.receipt = receipt]
Raises == Ends("none")
Goes(new) == run' = new
Planned == packet.patches[Len(run.entries) + 1]
LastEntry == Last(run.entries)
WithStatus(status, after) ==
  [run.entries EXCEPT ![Len(run.entries)] = [@ EXCEPT !.status = status, !.after = after]]
\* What the board was after the first n entries.
After(entries, n) == IF n = 0 THEN packet.baseline ELSE entries[n].after

\* The operator reviews and authorizes a new proposal, read from the board now.
Propose ==
  /\ run.pc = "idle"
  /\ count.packets < MaxPackets
  /\ \E changes \in ChangeLists :
       /\ ValidRequest(changes, board)
       /\ packet' = Proposal(count.packets + 1, board, changes)
  /\ count' = [count EXCEPT !.packets = @ + 1]
  /\ journal' = << >>
  /\ granted' = TRUE
  /\ Raises
  /\ UNCHANGED <<board, wire, landed>>

\* apply_proposal up to the replay of the verified entries; a conflicted
\* journal is refused.
BeginApply ==
  /\ run.pc = "idle" /\ granted
  /\ \A i \in DOMAIN journal : journal[i].status # "conflict"
  /\ LET verified == {k \in DOMAIN journal : journal[k].status = "verified"}
     IN  Goes([NoRun EXCEPT !.pc = IF verified = DOMAIN journal THEN "check" ELSE "resume",
                            !.entries = journal, !.expected = After(journal, Cardinality(verified))])
  /\ UNCHANGED <<boardVars, packet, journal, granted, wire, count>>

\* Mutant of Resume: an intent without an answer counts as done.
ResumeTrusting ==
  /\ run.pc = "resume"
  /\ journal' = WithStatus("verified", board)
  /\ Goes([run EXCEPT !.pc = "check", !.expected = board, !.entries = journal'])
  /\ UNCHANGED <<boardVars, packet, granted, wire, count>>

\* The last entry has no answer: its effect is on the board, or nothing is, or
\* the board is somewhere else and the run raises.
Resume ==
  /\ run.pc = "resume"
  /\ \/ /\ board = run.expected
        /\ Goes([run EXCEPT !.pc = "check", !.entries = Front(@)])
        /\ UNCHANGED journal
     \/ /\ board # run.expected
        /\ IsAfter(run.expected, board, LastEntry.patch.change)
        /\ IF granted
           THEN /\ journal' = WithStatus("verified", board)
                /\ Goes([run EXCEPT !.pc = "check", !.expected = board, !.entries = journal'])
           ELSE Raises /\ UNCHANGED journal
     \/ /\ board # run.expected
        /\ ~IsAfter(run.expected, board, LastEntry.patch.change)
        /\ Raises
        /\ UNCHANGED journal
  /\ UNCHANGED <<boardVars, packet, granted, wire, count>>

\* The fresh read before the loop.
Check ==
  /\ run.pc = "check"
  /\ IF board = run.expected THEN Goes([run EXCEPT !.pc = "next"]) ELSE Raises
  /\ UNCHANGED <<boardVars, packet, journal, granted, wire, count>>

\* The loop ends: one more authorization, and the receipt.
EndApply ==
  /\ run.pc = "next" /\ Len(run.entries) = Len(packet.patches)
  /\ IF granted THEN Ends("applied") ELSE Raises
  /\ UNCHANGED <<boardVars, packet, journal, granted, wire, count>>

\* The fresh read before a patch must be what the journal left, at the revision
\* the patch tests.
ReadBefore ==
  /\ run.pc = "next" /\ Len(run.entries) < Len(packet.patches)
  /\ IF board = run.expected /\ Fits(board, Planned)
     THEN Goes([run EXCEPT !.pc = "intend", !.current = board])
     ELSE Raises
  /\ UNCHANGED <<boardVars, packet, journal, granted, wire, count>>

\* authorize_write, then the intent is made durable.
Intend ==
  /\ run.pc = "intend"
  /\ IF granted
     THEN /\ journal' = Append(run.entries, [patch |-> Planned, status |-> "pending",
                                              before |-> run.current, after |-> run.current])
          /\ Goes([run EXCEPT !.pc = "send", !.entries = journal'])
     ELSE Raises /\ UNCHANGED journal
  /\ UNCHANGED <<boardVars, packet, granted, wire, count>>

\* before_write authorizes once more inside the throttle's slot; the request leaves.
Send ==
  /\ run.pc = "send"
  /\ \/ /\ granted /\ count.sends < MaxSends
        /\ wire' = wire \cup {[no |-> packet.no, step |-> Len(run.entries), patch |-> LastEntry.patch,
                               attempt |-> count.sends + 1]}
        /\ count' = [count EXCEPT !.sends = @ + 1]
        /\ Goes([run EXCEPT !.pc = "wait", !.attempt = count.sends + 1])
     \/ ~granted /\ Raises /\ UNCHANGED <<wire, count>>
  /\ UNCHANGED <<boardVars, packet, journal, granted>>

\* The service takes a request, now or long after its sender gave up; the
\* answer reaches the sender if it still waits for this one.
Deliver(w) ==
  /\ LET fits == Fits(board, w.patch)
     IN  /\ board' = IF fits THEN Patched(board, w.patch) ELSE board
         /\ landed' = IF fits THEN [landed EXCEPT ![w.no] = Append(@, w.step)] ELSE landed
         /\ Goes(IF run.pc = "wait" /\ run.attempt = w.attempt
                 THEN [run EXCEPT !.reply = IF fits THEN "ok" ELSE "conflict"] ELSE run)
  /\ wire' = wire \ {w}
  /\ UNCHANGED <<packet, journal, granted, count>>

Lose(w) == wire' = wire \ {w} /\ UNCHANGED <<boardVars, packet, journal, run, granted, count>>

\* 2xx; or 408, 429, 5xx, a timeout or a broken answer: AzureUncertainWrite,
\* and a write is never attempted twice by the client.
Answer ==
  /\ run.pc = "wait"
  /\ \/ run.reply = "ok" /\ Goes([run EXCEPT !.pc = "readback"])
     \/ Goes([run EXCEPT !.pc = "readback", !.uncertain = TRUE])
  /\ UNCHANGED <<boardVars, packet, journal, granted, wire, count>>

\* 409 or 412: AzureRevisionConflict.
Conflict ==
  /\ run.pc = "wait" /\ run.reply = "conflict"
  /\ journal' = WithStatus("conflict", run.current)
  /\ Raises
  /\ UNCHANGED <<boardVars, packet, granted, wire, count>>

\* The read after the PATCH: nothing happened yet, exactly the change did, or
\* something else.
ReadAfter ==
  /\ run.pc = "readback"
  /\ \/ /\ run.uncertain /\ board = run.current
        /\ journal' = WithStatus("uncertain_unapplied", run.current)
        /\ Ends("uncertain_unapplied")
     \/ /\ ~(run.uncertain /\ board = run.current)
        /\ IsAfter(run.current, board, LastEntry.patch.change)
        /\ journal' = WithStatus("verified", board)
        /\ Goes([run EXCEPT !.pc = "next", !.entries = journal', !.expected = board,
                            !.attempt = 0, !.reply = "none", !.uncertain = FALSE])
     \/ /\ ~(run.uncertain /\ board = run.current)
        /\ ~IsAfter(run.current, board, LastEntry.patch.change)
        /\ journal' = WithStatus("conflict", run.current)
        /\ Raises
  /\ UNCHANGED <<boardVars, packet, granted, wire, count>>

\* The process dies or a read raises: .lock goes with the process.
ApplierDies == /\ run.pc # "idle"
       /\ Raises
       /\ UNCHANGED <<boardVars, packet, journal, granted, wire, count>>

\* A person changes a tag.
Edit ==
  /\ count.edits < MaxEdits
  /\ \E i \in WorkItems, t \in Tags :
       board' = [board EXCEPT ![i].rev = @ + 1,
                              ![i].tags = IF t \in @ THEN @ \ {t} ELSE @ \cup {t}]
  /\ count' = [count EXCEPT !.edits = @ + 1]
  /\ UNCHANGED <<packet, journal, run, granted, wire, landed>>

\* The grant expires, is revoked or is renewed.
Regrant == granted' = ~granted /\ UNCHANGED <<boardVars, packet, journal, run, wire, count>>

Applying == \/ BeginApply \/ Resume \/ Check \/ EndApply \/ ReadBefore \/ Intend \/ Send
            \/ Answer \/ Conflict \/ ReadAfter
Service == \E w \in wire : Deliver(w) \/ Lose(w)
ReconcileNext == Propose \/ Applying \/ Service \/ ApplierDies \/ Edit \/ Regrant

ReconcileSpec == ReconcileInit /\ [][ReconcileNext]_reconcileVars
-----------------------------------------------------------------------------
PatchType == [change : ChangeType, rev : Nat, tags : SUBSET Tags, preds : SUBSET WorkItems]
PacketType == [no : 1..MaxPackets, baseline : BoardType, patches : Seq(PatchType)]
EntryType == [patch : PatchType, status : {"pending", "uncertain_unapplied", "verified", "conflict"},
              before : BoardType, after : BoardType]
RunType == [pc : {"idle", "resume", "check", "next", "intend", "send", "wait", "readback"},
            entries : Seq(EntryType), expected : BoardType, current : BoardType, attempt : 0..MaxSends,
            reply : {"none", "ok", "conflict"}, uncertain : BOOLEAN,
            receipt : {"none", "applied", "uncertain_unapplied"}]
RequestType == [no : 1..MaxPackets, step : Nat, patch : PatchType, attempt : 1..MaxSends]
ReconcileTypeOK ==
  /\ board \in BoardType
  /\ packet \in PacketType
  /\ journal \in Seq(EntryType) /\ Len(journal) <= Len(packet.patches)
  /\ run \in RunType
  /\ granted \in BOOLEAN
  /\ wire \subseteq RequestType

\* A PATCH that takes effect, late or not, changes the tags the operator asked
\* for and leaves every tag a person set since the proposal was read.
HumanEditsSurvive ==
  [][\A w \in wire : landed' # landed /\ w \notin wire' =>
       LET key == w.patch.change.issue
       IN  board'[key].tags = DesiredTags(board[key].tags, w.patch.change)]_reconcileVars

\* What "applied" reported is on the board as long as no person edits it, late
\* PATCHes of an earlier proposal or not.
AppliedIsComplete ==
  /\ ReconcileTypeOK
  /\ run.receipt = "applied" /\ count.edits = 0 =>
       \A k \in DOMAIN packet.patches :
         LET p == packet.patches[k]
         IN  board[p.change.issue].tags = p.tags /\ p.preds \subseteq board[p.change.issue].preds

\* Every patch takes effect at most once, and in the order of the proposal.
Numbers == UNION {DOMAIN changes : changes \in ChangeLists}
Serial == INSTANCE SerialEffects WITH Packets <- 1..MaxPackets, Steps <- Numbers, effects <- landed
SerialSpec == Serial!Spec
=============================================================================
