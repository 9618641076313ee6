----------------------------- MODULE AtomicStore -----------------------------
(***************************************************************************)
(* What the callers of AtlasWorkItemStore assume of it: each update reads  *)
(* the store and replaces it in one step, and no update is ever undone.    *)
(* The store is abstracted to how many updates of each process it holds.   *)
(***************************************************************************)
EXTENDS Naturals

CONSTANTS Procs

VARIABLE store

Init == store = [p \in Procs |-> 0]

\* One load / change / save by p, seen by the others as a single step.
Update(p) == store' = [store EXCEPT ![p] = @ + 1]

Next == \E p \in Procs : Update(p)

Spec == Init /\ [][Next]_store
=============================================================================
