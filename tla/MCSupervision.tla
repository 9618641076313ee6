---------------------------- MODULE MCSupervision ----------------------------
(* Who starts a child and answers for it: the worker that ends a process    *)
(* group, the Azure supervisor, the harness runs of one runtime, and the    *)
(* controllers of one bounded cycle.  They share no state: the part chosen  *)
(* at first runs, the others rest in their one initial state, and fairness  *)
(* is owed by the part that runs.                                           *)
EXTENDS ProcessGroup, Supervisor, HarnessRuns, CycleJournal

VARIABLE part

\* Two items of two roles; one role of them is done before, or all but one.
TwoItems == 1..2
HalfBefore == <<1, 0>>
FirstBefore == {HalfBefore, <<2, 1>>}
ThreeControllers == {"c1", "c2", "c3"}

allVars == <<part, groupVars, supVars, runVars, journalVars>>

SupervisionInit ==
  /\ part \in {"group", "supervisor", "runs", "journal"}
  /\ GroupInit /\ SupInit /\ RunsInit /\ JournalInit
  /\ part # "group" => kept
  /\ part # "journal" => stored = HalfBefore

\* Controllers are alike: the first one to start is c1, the next one c2.
InOrder == /\ Is("c1", "idle") => Is("c2", "idle")
           /\ Is("c2", "idle") => Is("c3", "idle")

GroupPart == part = "group" /\ GroupNext /\ UNCHANGED <<supVars, runVars, journalVars>>
SupervisorPart == part = "supervisor" /\ SupNext /\ UNCHANGED <<groupVars, runVars, journalVars>>
RunsPart == part = "runs" /\ RunsNext /\ UNCHANGED <<groupVars, supVars, journalVars>>
JournalPart == part = "journal" /\ JournalNext /\ InOrder' /\ UNCHANGED <<groupVars, supVars, runVars>>
SupervisionNext == UNCHANGED part /\ (GroupPart \/ SupervisorPart \/ RunsPart \/ JournalPart)

\* RunsFairness, owed by the part that runs.
SupervisionFairness == \A r \in Runs : /\ WF_runVars(part = "runs" /\ Client(r))
                                       /\ WF_runVars(part = "runs" /\ Supervise(r))

SupervisionSpec == SupervisionInit /\ [][SupervisionNext]_allVars /\ SupervisionFairness

\* The first item may be worked on or have its board item changed first; the
\* second one is only assessed.  The first board item is edited at most once, by
\* people or by a child.
Entry(def, actions, proposal) == [def |-> def, actions |-> actions, proposal |-> proposal]
ToPublish == {"assess", "local_execute", "draft_pr"}
TwoEntries == <<{Entry(1, ToPublish, 0), Entry(2, ToPublish \cup {"board_write"}, 1)}, {Entry(1, {"assess"}, 0)}>>
OneEdit == <<2, 1>>

ThreeKin == 1..3
TwoRuns == 1..2
=============================================================================
