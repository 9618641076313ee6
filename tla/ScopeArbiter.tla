---------------------------- MODULE ScopeArbiter ----------------------------
(***************************************************************************)
(* What the local lane promises about the items it has in progress: items  *)
(* that exclude each other are never in progress together, an item starts  *)
(* only when all it depends on is accepted, and acceptance is for good.    *)
(***************************************************************************)
CONSTANTS
  Items,
  DependsOn,  \* the items each item depends on
  Excludes    \* the pairs of items with overlapping repository, branch and scope

VARIABLES
  active,    \* items in progress, or whose last child process may still run
  accepted   \* items done with the review they need

Init == active = {} /\ accepted = {}

Admit(i) == /\ i \notin active \cup accepted
            /\ \A j \in active : <<i, j>> \notin Excludes
            /\ DependsOn[i] \subseteq accepted
            /\ active' = active \cup {i}
            /\ UNCHANGED accepted

\* Items leave for good or to be tried again; one of them may be accepted.
Leave(S) == /\ active' = active \ S
            /\ \/ UNCHANGED accepted
               \/ \E i \in S \cap active : accepted' = accepted \cup {i}

Next == \/ \E i \in Items : Admit(i)
        \/ \E S \in SUBSET Items : Leave(S)

Spec == Init /\ [][Next]_<<active, accepted>>
=============================================================================
