----------------------------- MODULE MCLocalLane -----------------------------
(* The local lane: the store of the work items, and the items themselves.    *)
(* The part chosen at first runs, the other one rests.                       *)
EXTENDS WorkItems, WorkItemStore, TLC

VARIABLE part

\* Invocations are alike: a worker marks the first one that is unused.
InOrder == \A w \in Workers, n \in Invocations :
             worker'[w].inv \notin {n, None, worker[w].inv} /\ Unused(n) => worker'[w].inv < n
StorePart == part = "store" /\ StoreNext /\ UNCHANGED vars
ItemsPart == part = "items" /\ Next /\ InOrder /\ UNCHANGED storeVars
LocalNext == UNCHANGED part /\ (StorePart \/ ItemsPart)
LocalInit == part \in {"store", "items"} /\ StoreInit /\ Init
LocalSpec == LocalInit /\ [][LocalNext]_<<part, storeVars, vars>>

\* Item a must be accepted before c may start; a and b write to overlapping
\* paths, c to a disjoint one.
CONSTANTS a, b, c, w1, w2, r1, p1, p2, p3
ThreeItems == {a, b, c}
OneItem == {a}
TwoWorkers == {w1, w2}
OneRole == {r1}
FirstFive == 1..5
Field(path) == [repo |-> "repo", base |-> Unknown, scope |-> {path}]
ItemFields == [i \in Items |-> CASE i = a -> Field(<<"src", Glob>>)
                                 [] i = b -> Field(<<"src", "b">>)
                                 [] OTHER -> Field(<<"docs">>)]
Dependencies == [i \in Items |-> IF i = c THEN {a} ELSE {}]

ThreeProcs == {p1, p2, p3}
ProcSymmetry == Permutations(ThreeProcs)

\* The properties say nothing once a lock was stolen: such states are not extended.
NotYetStolen == ~stolen
=============================================================================
