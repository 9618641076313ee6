----------------------------- MODULE MCWorkItems -----------------------------
(***************************************************************************)
(* Model-checking instance of WorkItems.  Item a must be accepted before c *)
(* may start; a and b write to overlapping paths, c to a disjoint one.     *)
(***************************************************************************)
EXTENDS WorkItems, TLC

CONSTANTS a, b, c, w1, w2, n1, n2, n3, r1, r2

ThreeItems == {a, b, c}
TwoItems == {a, b}
TwoWorkers == {w1, w2}
ThreeInvocations == {n1, n2, n3}
TwoRoles == {r1, r2}
OneRole == {r1}

Field(path) == [repo |-> "repo", base |-> Unknown, scope |-> {path}]
ItemFields == [i \in Items |-> CASE i = a -> Field(<<"src", Glob>>)
                                 [] i = b -> Field(<<"src", "b">>)
                                 [] OTHER -> Field(<<"docs">>)]
Dependencies == [i \in Items |-> IF i = c THEN {a} ELSE {}]
GatedItem == {a}
ContractedItem == {a}
=============================================================================
