----------------------------- MODULE Scheduling -----------------------------
(***************************************************************************)
(* The conflict rules of the local scheduler (atlas_work_items.py): when   *)
(* two work items may not be in progress together.  A write scope is a     *)
(* path pattern, here the sequence of its path segments.                   *)
(***************************************************************************)
EXTENDS Naturals, Sequences, SequencesExt

CONSTANTS
  Unknown,  \* a missing execution repository or base branch
  Glob,     \* a segment with one of the characters * ? [ {
  Odd       \* a segment that makes the pattern ambiguous: ".." or a backslash, or the root "/"

\* unknown_or_equal
UnknownOrEqual(left, right) == Unknown \in {left, right} \/ left = right

\* prefix: a pattern reserves the directory before its first glob; an ambiguous
\* one reserves the repository, the empty prefix.
Globs(scope) == {k \in DOMAIN scope : scope[k] = Glob}
First(positions) == CHOOSE k \in positions : \A l \in positions : k <= l
ScopePrefix(scope) ==
  IF \E k \in DOMAIN scope : scope[k] = Odd THEN << >>
  ELSE IF Globs(scope) = {} THEN scope
  ELSE SubSeq(scope, 1, First(Globs(scope)) - 1)

\* write_scopes_overlap: undeclared scopes overlap with everything, declared
\* ones when one prefix lies inside another.
WriteScopesOverlap(left, right) ==
  \/ left = {} \/ right = {}
  \/ \E a \in left, b \in right :
       \/ IsPrefix(ScopePrefix(a), ScopePrefix(b))
       \/ IsPrefix(ScopePrefix(b), ScopePrefix(a))

\* active_scope_conflict over the three scheduler fields of an item
ActiveScopeConflict(x, y) ==
  /\ UnknownOrEqual(x.repo, y.repo)
  /\ UnknownOrEqual(x.base, y.base)
  /\ WriteScopesOverlap(x.scope, y.scope)
=============================================================================
