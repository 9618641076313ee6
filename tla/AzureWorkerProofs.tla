-------------------------- MODULE AzureWorkerProofs --------------------------
(***************************************************************************)
(* What AzureWorker keeps for any packets, scopes, paths and bounds: one    *)
(* push and one pull request of an accepted and reviewed commit, and no     *)
(* path that two claimed packets may both write.                            *)
(***************************************************************************)
EXTENDS AzureWorker, FiniteSetTheorems, SequenceTheorems, WellFoundedInduction, TLAPS
-----------------------------------------------------------------------------
(* Scopes: the prefixes compared at the claim cover the globs matched later. *)

\* A set of natural numbers that is not empty has a least element.
LEMMA LeastNumber == ASSUME NEW T \in SUBSET Nat, T # {} PROVE \E x \in T : \A y \in T : x <= y
<1> DEFINE R == OpToRel(<, Nat)
<1>1. IsWellFoundedOn(R, Nat)
  BY NatLessThanWellFounded
<1>2. \A y, x \in T : <<y, x>> \in R <=> y < x
  <2>1. \A y, x \in Nat : <<y, x>> \in Nat \X Nat /\ <<y, x>>[1] = y /\ <<y, x>>[2] = x
    OBVIOUS
  <2> QED BY <2>1 DEF OpToRel
<1> HIDE DEF R
<1>3. PICK x \in T : \A y \in T : ~(<<y, x>> \in R)
  BY <1>1, WFMin
<1>4. \A y \in T : ~(y < x) /\ y \in Nat /\ x \in Nat
  BY <1>2, <1>3
<1> QED BY <1>3, <1>4

\* The first n elements of a sequence.
LEMMA FirstElements ==
  ASSUME NEW S, NEW s \in Seq(S), NEW n \in 0..Len(s)
  PROVE  /\ SubSeq(s, 1, n) \in Seq(S) /\ Len(SubSeq(s, 1, n)) = n
         /\ \A i \in 1..n : SubSeq(s, 1, n)[i] = s[i]
<1>1. Len(s) \in Nat /\ n \in Nat /\ n <= Len(s)
  OBVIOUS
<1>2. \A i \in 1..n : s[i] \in S
  BY <1>1
<1>3. /\ SubSeq(s, 1, n) \in Seq(S)
      /\ Len(SubSeq(s, 1, n)) = IF 1 <= n THEN n - 1 + 1 ELSE 0
      /\ \A i \in 1..(n - 1 + 1) : SubSeq(s, 1, n)[i] = s[1 + i - 1]
  BY <1>1, <1>2, SubSeqProperties
<1> QED BY <1>1, <1>3

\* A prefix agrees element by element, and one that does is a prefix.
LEMMA PrefixByElement ==
  ASSUME NEW S, NEW s \in Seq(S), NEW t \in Seq(S)
  PROVE  IsPrefix(s, t) <=> Len(s) <= Len(t) /\ \A i \in 1..Len(s) : s[i] = t[i]
<1>1. Len(s) \in Nat /\ Len(t) \in Nat
  OBVIOUS
<1>2. ASSUME Len(s) <= Len(t)
      PROVE  SubSeq(s, 1, Len(s)) = SubSeq(t, 1, Len(s)) <=> \A i \in 1..Len(s) : s[i] = t[i]
  <2> DEFINE a == SubSeq(s, 1, Len(s))
             b == SubSeq(t, 1, Len(s))
  <2>1. /\ a \in Seq(S) /\ Len(a) = Len(s) /\ \A i \in 1..Len(s) : a[i] = s[i]
        /\ b \in Seq(S) /\ Len(b) = Len(s) /\ \A i \in 1..Len(s) : b[i] = t[i]
    BY <1>1, <1>2, FirstElements
  <2> HIDE DEF a, b
  <2>2. a = b <=> \A i \in 1..Len(s) : a[i] = b[i]
    BY <2>1, <1>1, SMTT(20)
  <2>3. a = b <=> \A i \in 1..Len(s) : s[i] = t[i]
    BY <2>1, <2>2
  <2> QED BY <2>3 DEF a, b
<1> QED BY <1>2 DEF IsPrefix

\* The components before the first glob: no glob is among them, and if there is one
\* in the scope, the next one is.
LEMMA RootOf ==
  ASSUME NEW S, NEW s \in Seq(S)
  PROVE  LET r == ScopeRoot(s)
         IN  /\ r \in Seq(S) /\ Len(r) <= Len(s) /\ \A i \in 1..Len(r) : r[i] = s[i] /\ s[i] # AnyName
             /\ AnyName \notin Range(s) => r = s
<1> DEFINE globs == {i \in DOMAIN s : s[i] = AnyName}
<1>1. DOMAIN s = 1..Len(s) /\ Len(s) \in Nat
  OBVIOUS
<1>2. CASE globs = {}
  <2>1. ScopeRoot(s) = s
    BY <1>2 DEF ScopeRoot
  <2>2. \A i \in 1..Len(s) : s[i] # AnyName
    BY <1>1, <1>2
  <2> QED BY <2>1, <2>2
<1>3. CASE globs # {}
  <2> DEFINE Is(i) == i \in globs /\ \A j \in globs : i <= j
             g == CHOOSE i \in globs : \A j \in globs : i <= j
  <2>1. globs \subseteq Nat
    BY <1>1
  <2>2. \E i \in globs : \A j \in globs : i <= j
    BY <1>3, <2>1, LeastNumber
  <2>3. g \in globs /\ \A j \in globs : g <= j
    BY <2>2
  <2>4. ScopeRoot(s) = SubSeq(s, 1, g - 1)
    BY <1>3 DEF ScopeRoot
  <2> HIDE DEF g
  <2>5. g \in 1..Len(s) /\ s[g] = AnyName
    BY <1>1, <2>3
  <2> DEFINE n == g - 1
  <2>6. n \in 0..Len(s) /\ n <= Len(s)
    BY <1>1, <2>5
  <2>7. /\ SubSeq(s, 1, n) \in Seq(S) /\ Len(SubSeq(s, 1, n)) = n
        /\ \A i \in 1..n : SubSeq(s, 1, n)[i] = s[i]
    BY <2>6, FirstElements
  <2>8. ASSUME NEW i \in 1..n PROVE s[i] # AnyName
    <3>1. i \in 1..Len(s) /\ i < g
      BY <1>1, <2>5
    <3>2. i \notin globs
      BY <2>3, <2>5, <3>1
    <3> QED BY <1>1, <3>1, <3>2
  <2>9. AnyName \in Range(s)
    BY <1>1, <2>5 DEF Range
  <2> QED BY <2>4, <2>6, <2>7, <2>8, <2>9
<1> QED BY <1>2, <1>3

\* A path that a glob matches lies below the glob's root: the components before the
\* first glob are matched one to one (fnmatch in path_allowed, _scope_root).
LEMMA GlobBelowRoot ==
  ASSUME NEW S, NEW s \in Seq(S), NEW path \in Seq(S), GlobMatches(path, s)
  PROVE  IsPrefix(ScopeRoot(s), path)
<1> DEFINE r == ScopeRoot(s)
           n == Len(r)
<1>1. /\ r \in Seq(S) /\ n <= Len(s) /\ \A i \in 1..n : r[i] = s[i] /\ s[i] # AnyName
  BY RootOf
<1>2. /\ DOMAIN s = 1..Len(s) /\ Len(s) \in Nat /\ DOMAIN path = 1..Len(path) /\ Len(path) \in Nat
      /\ n \in Nat
  BY <1>1
<1>3. PICK f \in [DOMAIN path -> DOMAIN s] :
        /\ \A i, j \in DOMAIN path : i <= j => f[i] <= f[j]
        /\ Range(f) = DOMAIN s
        /\ \A i \in DOMAIN path : s[f[i]] = AnyName \/ s[f[i]] = path[i]
        /\ \A i, j \in DOMAIN path : i # j /\ f[i] = f[j] => s[f[i]] = AnyName
  BY DEF GlobMatches
<1> HIDE DEF r, n
<1> DEFINE Fixed(k) == k \in 1..Len(path) /\ f[k] = k
           T == {k \in 1..n : ~Fixed(k)}
<1>4. T = {}
  <2> SUFFICES ASSUME T # {} PROVE FALSE
    OBVIOUS
  <2>1. T \subseteq Nat
    BY <1>2
  <2>2. PICK k \in T : \A j \in T : k <= j
    BY <2>1, LeastNumber
  <2>3. k \in 1..n /\ k \in 1..Len(s) /\ ~Fixed(k)
    BY <1>1, <1>2
  <2>4. \A j \in 1..(k - 1) : Fixed(j)
    <3>1. ASSUME NEW j \in 1..(k - 1), ~Fixed(j) PROVE FALSE
      <4>1. j \in 1..n /\ j < k
        BY <2>3, <1>2
      <4>2. j \in T
        BY <4>1, <3>1
      <4> QED BY <4>1, <4>2, <2>2, <2>3
    <3> QED BY <3>1
  <2>5. PICK i \in 1..Len(path) : f[i] = k
    BY <1>2, <1>3, <2>3 DEF Range
  <2>6. ~(i < k)
    <3>1. ASSUME i < k PROVE FALSE
      <4>1. i \in 1..(k - 1)
        BY <2>3, <2>5, <3>1, <1>2
      <4> QED BY <2>4, <2>5, <3>1, <4>1
    <3> QED BY <3>1
  <2>7. k \in 1..Len(path) /\ k <= i
    BY <2>3, <2>5, <2>6, <1>2
  <2>8. f[k] <= k /\ f[k] \in 1..Len(s)
    BY <1>2, <1>3, <2>5, <2>7
  <2>9. f[k] < k
    BY <2>3, <2>7, <2>8
  <2>10. Fixed(f[k])
    <3>1. f[k] \in 1..(k - 1)
      BY <2>3, <2>8, <2>9, <1>2
    <3> QED BY <2>4, <3>1
  <2>11. s[f[k]] = AnyName
    BY <1>2, <1>3, <2>7, <2>9, <2>10
  <2>12. f[k] \in 1..n
    BY <2>3, <2>8, <2>9, <1>2
  <2> QED BY <1>1, <2>11, <2>12
<1>5. \A k \in 1..n : Fixed(k)
  BY <1>4
<1>6. \A k \in 1..n : r[k] = path[k]
  <2> SUFFICES ASSUME NEW k \in 1..n PROVE r[k] = path[k]
    OBVIOUS
  <2>1. Fixed(k)
    BY <1>5
  <2>2. r[k] = s[k] /\ s[k] # AnyName
    BY <1>1 DEF n
  <2>3. s[f[k]] = path[k]
    BY <1>2, <1>3, <2>1, <2>2
  <2> QED BY <2>1, <2>2, <2>3
<1>7. n <= Len(path)
  <2>1. CASE n = 0
    BY <2>1, <1>2
  <2>2. CASE n # 0
    <3>1. n \in 1..n
      BY <2>2, <1>2
    <3>2. Fixed(n)
      BY <3>1, <1>5
    <3> QED BY <3>2, <1>2
  <2> QED BY <2>1, <2>2
<1>8. r \in Seq(S)
  BY <1>1 DEF r
<1>9. IsPrefix(r, path)
  BY <1>6, <1>7, <1>8, PrefixByElement DEF n
<1> QED BY <1>9 DEF r

\* A path that a scope allows lies below one of its roots.
LEMMA AllowedBelowRoot ==
  ASSUME NEW S, NEW scopes \in SUBSET Seq(S), NEW path \in Seq(S), PathAllowed(path, scopes)
  PROVE  \E s \in scopes : IsPrefix(ScopeRoot(s), path)
<1>1. PICK s \in scopes : IF AnyName \in Range(s) THEN GlobMatches(path, s) ELSE IsPrefix(s, path)
  BY DEF PathAllowed
<1>2. CASE AnyName \in Range(s)
  BY <1>1, <1>2, GlobBelowRoot
<1>3. CASE AnyName \notin Range(s)
  <2>1. ScopeRoot(s) = s
    BY <1>3, RootOf
  <2> QED BY <1>1, <1>3, <2>1
<1> QED BY <1>2, <1>3

\* Two prefixes of one path: the shorter is a prefix of the longer.
LEMMA PrefixesOfOne ==
  ASSUME NEW S, NEW s \in Seq(S), NEW t \in Seq(S), NEW path \in Seq(S),
         IsPrefix(s, path), IsPrefix(t, path)
  PROVE  IsPrefix(s, t) \/ IsPrefix(t, s)
<1>1. /\ Len(s) <= Len(path) /\ \A i \in 1..Len(s) : s[i] = path[i]
      /\ Len(t) <= Len(path) /\ \A i \in 1..Len(t) : t[i] = path[i]
  BY PrefixByElement
<1>2. Len(s) \in Nat /\ Len(t) \in Nat
  OBVIOUS
<1>3. CASE Len(s) <= Len(t)
  <2>1. \A i \in 1..Len(s) : s[i] = t[i]
    BY <1>1, <1>2, <1>3
  <2> QED BY <1>3, <2>1, PrefixByElement
<1>4. CASE Len(t) <= Len(s)
  <2>1. \A i \in 1..Len(t) : t[i] = s[i]
    BY <1>1, <1>2, <1>4
  <2> QED BY <1>4, <2>1, PrefixByElement
<1> QED BY <1>2, <1>3, <1>4

Components == UNION {Range(s) : s \in (UNION ScopeChoices) \cup FilePaths}

\* Scopes and paths are sequences over one set of components.
LEMMA OverComponents ==
  /\ \A choice \in ScopeChoices : choice \subseteq Seq(Components)
  /\ FilePaths \subseteq Seq(Components)
<1>1. ASSUME NEW s, s \in Seq(Range(s)), Range(s) \subseteq Components PROVE s \in Seq(Components)
  BY <1>1
<1>2. \A choice \in ScopeChoices : \A s \in choice : Range(s) \subseteq Components /\ s \in Seq(Range(s))
  BY PathAssumption DEF Components
<1>3. \A path \in FilePaths : Range(path) \subseteq Components /\ path \in Seq(Range(path))
  BY PathAssumption DEF Components
<1> QED BY <1>1, <1>2, <1>3

\* Scopes that the claim takes for disjoint share no path.
LEMMA DisjointScopes ==
  ASSUME NEW left \in ScopeChoices, NEW right \in ScopeChoices, ~ScopesOverlap(left, right), NEW path \in FilePaths
  PROVE  ~(PathAllowed(path, left) /\ PathAllowed(path, right))
<1> SUFFICES ASSUME PathAllowed(path, left), PathAllowed(path, right) PROVE FALSE
  OBVIOUS
<1>1. left \in SUBSET Seq(Components) /\ right \in SUBSET Seq(Components) /\ path \in Seq(Components)
  BY OverComponents
<1>2. PICK s \in left : IsPrefix(ScopeRoot(s), path)
  BY <1>1, AllowedBelowRoot
<1>3. PICK t \in right : IsPrefix(ScopeRoot(t), path)
  BY <1>1, AllowedBelowRoot
<1>4. ScopeRoot(s) \in Seq(Components) /\ ScopeRoot(t) \in Seq(Components)
  BY <1>1, RootOf
<1>5. IsPrefix(ScopeRoot(s), ScopeRoot(t)) \/ IsPrefix(ScopeRoot(t), ScopeRoot(s))
  BY <1>1, <1>2, <1>3, <1>4, PrefixesOfOne
<1> QED BY <1>5 DEF ScopesOverlap
-----------------------------------------------------------------------------
(* The inductive invariant.                                                 *)

WorkerPcs == WorkerRoles \cup {"none", "start", "pick", "accept", "pick_again", "accept_again", "finish", "done"}
WorkerType == [pc : WorkerPcs, candidate : 0..MaxCommits, launched : BOOLEAN]
PublisherPcs == {"idle", "prs", "refs", "decide", "intend_push", "push", "intend_post", "post"}
PublisherType == [pc : PublisherPcs, stage : {"first", "pushed", "posted"}, claim : ClaimType,
                  prs : SUBSET PrType, branch : 0..MaxCommits]
RemoteType == [branch : 0..MaxCommits, prs : SUBSET PrType]
Candidates == AzurePackets \X (0..MaxCommits)
PastType == [accepted : SUBSET Candidates, passed : SUBSET Candidates,
             pushes : [AzurePackets -> Nat], posts : [AzurePackets -> Nat], faults : Nat]

AzureTypes == /\ scope \in [AzurePackets -> ScopeChoices]
              /\ claims \in [AzurePackets -> ClaimType]
              /\ head \in [AzurePackets -> 0..MaxCommits]
              /\ executor \in [AzurePackets -> WorkerType]
              /\ publisher \in [AzurePackets -> PublisherType]
              /\ remote \in [AzurePackets -> RemoteType]
              /\ sent \subseteq ApiCalls /\ authorized \in BOOLEAN /\ past \in PastType

\* A commit that was accepted and reviewed.
Certified(p, n) == n > 0 /\ <<p, n>> \in past.accepted /\ <<p, n>> \in past.passed

\* The worker: it works on a claim that is not publishable yet, on a candidate HEAD
\* has not left behind, with the receipts of the steps it has taken.
WorkerHolds(p) ==
  /\ executor[p].pc = "none" <=> claims[p].state = "none"
  /\ executor[p].pc \notin {"none", "done"} => claims[p].state \in {"claimed", "running"}
  /\ executor[p].candidate <= head[p]
  /\ executor[p].pc \in {"accept", "review", "repair", "pick_again", "accept_again", "review_again", "finish"} =>
       executor[p].candidate > 0
  /\ executor[p].pc \in {"review", "review_again", "finish"} => <<p, executor[p].candidate>> \in past.accepted
  /\ executor[p].pc = "finish" => <<p, executor[p].candidate>> \in past.passed

\* A write that is still ahead of a publisher u was not tried by the claim c, one
\* that was not tried or is about to leave was not requested, and one that is
\* about to leave is on record.
WritesHold(c, u, pushes, posts) ==
  /\ u.stage = "first" /\ u.pc \in {"prs", "refs", "decide"} =>
       /\ c.branch_write_attempted => u.claim.branch_write_attempted
       /\ c.pr_write_attempted => u.claim.pr_write_attempted
  /\ u.stage = "pushed" /\ u.pc \in {"prs", "refs", "decide"} => ~c.pr_write_attempted
  /\ u.pc = "intend_push" => ~c.branch_write_attempted
  /\ u.pc \in {"intend_push", "push", "intend_post"} => ~c.pr_write_attempted
  /\ u.pc = "push" => c.branch_write_attempted
  /\ u.pc = "post" => c.pr_write_attempted
  /\ ~c.branch_write_attempted \/ u.pc = "push" => pushes = 0
  /\ ~c.pr_write_attempted \/ u.pc = "post" => posts = 0
  /\ pushes \in {0, 1} /\ posts \in {0, 1}

\* The publisher works on the candidate of the claim.
PublisherHolds(p) ==
  /\ claims[p].state \in Publishable => Certified(p, claims[p].candidate)
  /\ publisher[p].pc # "idle" => /\ claims[p].state \in Publishable
                                 /\ publisher[p].claim.candidate = claims[p].candidate
  /\ WritesHold(claims[p], publisher[p], past.pushes[p], past.posts[p])

\* What is out at the service or on its way there; pull requests stay, with their
\* candidates.
RemoteHolds(p) ==
  /\ IsFiniteSet(remote[p].prs)
  /\ remote[p].branch # 0 => Certified(p, remote[p].branch)
  /\ \A r \in remote[p].prs : Certified(p, r.candidate)
  /\ \A m \in sent : m.packet = p => Certified(p, m.candidate)
  /\ publisher[p].pc \in {"refs", "decide"} =>
       \A r \in publisher[p].prs : \E q \in remote[p].prs : q.candidate = r.candidate
  /\ claims[p].state = "pr_open" => \E r \in remote[p].prs : r.candidate = claims[p].candidate

Disjoint == \A p, q \in AzurePackets :
              p # q /\ claims[p].state # "none" /\ claims[q].state # "none" => ~ScopesOverlap(scope[p], scope[q])

AzureInv == /\ AzureTypes /\ Disjoint
            /\ \A p \in AzurePackets : WorkerHolds(p) /\ PublisherHolds(p) /\ RemoteHolds(p)
-----------------------------------------------------------------------------
(* Parts of a step.                                                         *)

ClaimStates == {"none", "claimed", "running", "blocked"} \cup Publishable

\* SetState changes the state of one claim and nothing else.
LEMMA StateSet ==
  ASSUME AzureTypes, NEW p \in AzurePackets, NEW s \in ClaimStates, SetState(p, s)
  PROVE  \E c \in ClaimType : /\ claims' = [claims EXCEPT ![p] = c] /\ c.state = s
                              /\ c.candidate = claims[p].candidate
                              /\ c.branch_write_attempted = claims[p].branch_write_attempted
                              /\ c.pr_write_attempted = claims[p].pr_write_attempted
<1>1. claims[p] \in ClaimType /\ DOMAIN claims = AzurePackets
  BY DEF AzureTypes
<1>2. PICK c : c = [claims[p] EXCEPT !.state = s]
  OBVIOUS
<1>3. /\ c.state = s /\ c.candidate = claims[p].candidate
      /\ c.branch_write_attempted = claims[p].branch_write_attempted
      /\ c.pr_write_attempted = claims[p].pr_write_attempted
  BY <1>1, <1>2 DEF ClaimType
<1>4. c \in ClaimType
  BY <1>1, <1>2 DEF ClaimType, ClaimStates
<1>5. claims' = [claims EXCEPT ![p] = c]
  BY <1>1, <1>2 DEF SetState, AzureTypes
<1> QED BY <1>3, <1>4, <1>5

\* Moves takes one worker on, with the candidate it has.
LEMMA WorkerMoves ==
  ASSUME AzureTypes, NEW p \in AzurePackets, NEW pc \in WorkerPcs, Moves(p, pc)
  PROVE  \E w \in WorkerType : /\ executor' = [executor EXCEPT ![p] = w] /\ w.pc = pc
                               /\ w.candidate = executor[p].candidate
<1>1. executor[p] \in WorkerType /\ DOMAIN executor = AzurePackets
  BY DEF AzureTypes
<1>2. PICK w : w = [executor[p] EXCEPT !.pc = pc, !.launched = FALSE]
  OBVIOUS
<1>3. w \in WorkerType /\ w.pc = pc /\ w.candidate = executor[p].candidate
  BY <1>1, <1>2 DEF WorkerType
<1>4. executor' = [executor EXCEPT ![p] = w]
  BY <1>1, <1>2 DEF Moves, AzureTypes
<1> QED BY <1>3, <1>4

\* A packet that a step does not touch is as it should be after it.
LEMMA Elsewhere ==
  ASSUME AzureInv, NEW q \in AzurePackets, claims'[q] = claims[q], executor'[q] = executor[q],
         publisher'[q] = publisher[q], head'[q] = head[q], remote'[q] = remote[q],
         past'.pushes[q] = past.pushes[q], past'.posts[q] = past.posts[q],
         past.accepted \subseteq past'.accepted, past.passed \subseteq past'.passed,
         \A m \in sent' : m.packet = q => m \in sent
  PROVE  WorkerHolds(q)' /\ PublisherHolds(q)' /\ RemoteHolds(q)'
<1>1. WorkerHolds(q) /\ PublisherHolds(q) /\ RemoteHolds(q)
  BY DEF AzureInv
<1>2. \A n : Certified(q, n) => Certified(q, n)'
  BY DEF Certified
<1>3. WorkerHolds(q)'
  BY <1>1 DEF WorkerHolds
<1>4. PublisherHolds(q)'
  BY <1>1, <1>2 DEF PublisherHolds
<1>5. RemoteHolds(q)'
  BY <1>1, <1>2 DEF RemoteHolds
<1> QED BY <1>3, <1>4, <1>5

\* No new claim, no new conflict.
LEMMA DisjointKept ==
  ASSUME AzureInv, UNCHANGED scope,
         \A q \in AzurePackets : claims'[q].state # "none" => claims[q].state # "none"
  PROVE  Disjoint'
BY DEF AzureInv, Disjoint

\* A step of a worker: what is left to show of it.
LEMMA WorkerStep ==
  ASSUME AzureInv, NEW p \in AzurePackets, NEW c \in ClaimType, NEW w \in WorkerType,
         claims' = [claims EXCEPT ![p] = c], executor' = [executor EXCEPT ![p] = w],
         UNCHANGED <<scope, head, publisher, remote, sent, authorized>>,
         past' \in PastType, past'.pushes = past.pushes, past'.posts = past.posts,
         past.accepted \subseteq past'.accepted, past.passed \subseteq past'.passed,
         Disjoint', claims[p].state \notin Publishable,
         c.branch_write_attempted = claims[p].branch_write_attempted,
         c.pr_write_attempted = claims[p].pr_write_attempted,
         c.state \in Publishable => c.state = "prepared" /\ Certified(p, c.candidate)',
         w.pc = "none" <=> c.state = "none",
         w.pc \notin {"none", "done"} => c.state \in {"claimed", "running"},
         w.candidate <= head[p],
         w.pc \in {"accept", "review", "repair", "pick_again", "accept_again", "review_again", "finish"} =>
           w.candidate > 0,
         w.pc \in {"review", "review_again", "finish"} => <<p, w.candidate>> \in past'.accepted,
         w.pc = "finish" => <<p, w.candidate>> \in past'.passed
  PROVE  AzureInv'
<1>1. AzureTypes /\ WorkerHolds(p) /\ PublisherHolds(p) /\ RemoteHolds(p)
  BY DEF AzureInv
<1>2. claims'[p] = c /\ executor'[p] = w
      /\ \A q \in AzurePackets \ {p} : claims'[q] = claims[q] /\ executor'[q] = executor[q]
  BY <1>1 DEF AzureTypes
<1>3. AzureTypes'
  BY <1>1 DEF AzureTypes
<1>4. publisher[p].pc = "idle"
  BY <1>1 DEF PublisherHolds
<1>5. WorkerHolds(p)'
  BY <1>2 DEF WorkerHolds
<1>6. \A n : Certified(p, n) => Certified(p, n)'
  BY DEF Certified
<1>7. PublisherHolds(p)'
  BY <1>1, <1>2, <1>4 DEF PublisherHolds, WritesHold
<1>8. RemoteHolds(p)'
  BY <1>1, <1>2, <1>4, <1>6 DEF RemoteHolds, Publishable
<1>9. ASSUME NEW q \in AzurePackets \ {p} PROVE WorkerHolds(q)' /\ PublisherHolds(q)' /\ RemoteHolds(q)'
  BY <1>2, Elsewhere
<1> QED BY <1>3, <1>5, <1>7, <1>8, <1>9 DEF AzureInv
-----------------------------------------------------------------------------
(* execute, step by step.                                                   *)

\* A worker at work has an unfinished claim.
LEMMA AtWork ==
  ASSUME AzureInv, NEW p \in AzurePackets
  PROVE  /\ claims[p] \in ClaimType /\ executor[p] \in WorkerType /\ head[p] \in 0..MaxCommits
         /\ past \in PastType /\ AzureTypes /\ WorkerHolds(p)
         /\ executor[p].pc \notin {"none", "done"} =>
              claims[p].state \in {"claimed", "running"} /\ claims[p].state \notin Publishable
BY DEF AzureInv, AzureTypes, WorkerHolds, Publishable

\* One more receipt of an acceptance or of a review; one more fault.
LEMMA PastGrows ==
  ASSUME past \in PastType, NEW e \in Candidates
  PROVE  /\ past' = [past EXCEPT !.accepted = @ \cup {e}] =>
              /\ past' \in PastType /\ past'.accepted = past.accepted \cup {e} /\ past'.passed = past.passed
              /\ past'.pushes = past.pushes /\ past'.posts = past.posts
         /\ past' = [past EXCEPT !.passed = @ \cup {e}] =>
              /\ past' \in PastType /\ past'.passed = past.passed \cup {e} /\ past'.accepted = past.accepted
              /\ past'.pushes = past.pushes /\ past'.posts = past.posts
BY DEF PastType

\* A fault, or none: the receipts and the counts of requests stay.
LEMMA PastFault ==
  ASSUME past \in PastType, UNCHANGED past \/ past' = [past EXCEPT !.faults = @ + 1]
  PROVE  /\ past' \in PastType /\ past'.accepted = past.accepted /\ past'.passed = past.passed
         /\ past'.pushes = past.pushes /\ past'.posts = past.posts
<1>1. past.faults \in Nat /\ past.faults + 1 \in Nat
  BY DEF PastType
<1> QED BY <1>1 DEF PastType

\* execute up to the claim.
LEMMA ClaimKeeps == ASSUME AzureInv, NEW p \in AzurePackets, ClaimPacket(p) PROVE AzureInv'
<1>1. /\ claims[p].state = "none" /\ SetState(p, "claimed") /\ Moves(p, "start")
      /\ UNCHANGED <<scope, head, publisher, remote, sent, authorized, past>>
      /\ \A q \in AzurePackets : claims[q].state # "none" => ~ScopesOverlap(scope[p], scope[q])
  BY DEF ClaimPacket
<1>2. AzureTypes /\ WorkerHolds(p) /\ past \in PastType /\ executor[p] \in WorkerType /\ head[p] \in 0..MaxCommits
  BY AtWork
<1>3. PICK c \in ClaimType : /\ claims' = [claims EXCEPT ![p] = c] /\ c.state = "claimed"
                             /\ c.branch_write_attempted = claims[p].branch_write_attempted
                             /\ c.pr_write_attempted = claims[p].pr_write_attempted
  BY <1>1, <1>2, StateSet DEF ClaimStates
<1>4. PICK w \in WorkerType : /\ executor' = [executor EXCEPT ![p] = w] /\ w.pc = "start"
                              /\ w.candidate = executor[p].candidate
  BY <1>1, <1>2, WorkerMoves DEF WorkerPcs
<1>5. claims'[p] = c /\ \A q \in AzurePackets \ {p} : claims'[q] = claims[q]
  BY <1>2, <1>3 DEF AzureTypes
<1>6. \A left, right : ScopesOverlap(left, right) => ScopesOverlap(right, left)
  BY DEF ScopesOverlap
<1>7. Disjoint'
  BY <1>1, <1>5, <1>6 DEF AzureInv, Disjoint
<1>8. w.candidate <= head[p]
  BY <1>2, <1>4 DEF WorkerHolds
<1> QED BY <1>1, <1>2, <1>3, <1>4, <1>7, <1>8, WorkerStep DEF Publishable

\* A step that leaves the claim as it is.
LEMMA WorkerOnlyStep ==
  ASSUME AzureInv, NEW p \in AzurePackets, executor[p].pc \notin {"none", "done"},
         NEW w \in WorkerType, executor' = [executor EXCEPT ![p] = w],
         UNCHANGED <<scope, claims, head, publisher, remote, sent, authorized>>,
         past' \in PastType, past'.pushes = past.pushes, past'.posts = past.posts,
         past.accepted \subseteq past'.accepted, past.passed \subseteq past'.passed,
         w.pc # "none", w.candidate <= head[p],
         w.pc \in {"accept", "review", "repair", "pick_again", "accept_again", "review_again", "finish"} =>
           w.candidate > 0,
         w.pc \in {"review", "review_again", "finish"} => <<p, w.candidate>> \in past'.accepted,
         w.pc = "finish" => <<p, w.candidate>> \in past'.passed
  PROVE  AzureInv'
<1>1. /\ claims[p] \in ClaimType /\ AzureTypes
      /\ claims[p].state \in {"claimed", "running"} /\ claims[p].state \notin Publishable
  BY AtWork
<1>2. claims' = [claims EXCEPT ![p] = claims[p]]
  BY <1>1 DEF AzureTypes
<1>3. Disjoint'
  BY DisjointKept
<1>4. claims[p].state # "none"
  BY <1>1
<1> QED BY <1>1, <1>2, <1>3, <1>4, WorkerStep

\* Start: the first role is next.
LEMMA StartKeeps == ASSUME AzureInv, NEW p \in AzurePackets, Start(p) PROVE AzureInv'
<1>1. /\ executor[p].pc = "start" /\ SetState(p, "running") /\ Moves(p, "planning")
      /\ UNCHANGED <<scope, head, publisher, remote, sent, authorized, past>>
  BY DEF Start
<1>2. /\ AzureTypes /\ WorkerHolds(p) /\ past \in PastType
      /\ claims[p].state \in {"claimed", "running"} /\ claims[p].state \notin Publishable
  BY <1>1, AtWork
<1>3. PICK c \in ClaimType : /\ claims' = [claims EXCEPT ![p] = c] /\ c.state = "running"
                             /\ c.branch_write_attempted = claims[p].branch_write_attempted
                             /\ c.pr_write_attempted = claims[p].pr_write_attempted
  BY <1>1, <1>2, StateSet DEF ClaimStates
<1>4. PICK w \in WorkerType : /\ executor' = [executor EXCEPT ![p] = w] /\ w.pc = "planning"
                              /\ w.candidate = executor[p].candidate
  <2>1. "planning" \in WorkerPcs
    BY DEF WorkerPcs, WorkerRoles
  <2> QED BY <1>1, <1>2, <2>1, WorkerMoves
<1>5. Disjoint'
  <2>1. \A q \in AzurePackets : claims'[q].state # "none" => claims[q].state # "none"
    BY <1>2, <1>3 DEF AzureTypes
  <2> QED BY <1>1, <2>1, DisjointKept
<1>6. w.candidate <= head[p]
  BY <1>2, <1>4 DEF WorkerHolds
<1> QED BY <1>1, <1>2, <1>3, <1>4, <1>5, <1>6, WorkerStep DEF Publishable

\* _role launches.
LEMMA LaunchKeeps == ASSUME AzureInv, NEW p \in AzurePackets, LaunchRole(p) PROVE AzureInv'
<1>1. /\ executor[p].pc \in {"planning", "implementation", "review", "repair", "review_again"}
      /\ executor' = [executor EXCEPT ![p].launched = TRUE]
      /\ UNCHANGED <<scope, claims, head, publisher, remote, sent, authorized, past>>
  BY DEF LaunchRole, WorkerRoles
<1>2. AzureTypes /\ WorkerHolds(p) /\ past \in PastType /\ executor[p] \in WorkerType
  BY AtWork
<1>3. PICK w : w = [executor[p] EXCEPT !.launched = TRUE]
  OBVIOUS
<1>4. w \in WorkerType /\ w.pc = executor[p].pc /\ w.candidate = executor[p].candidate
  BY <1>2, <1>3 DEF WorkerType
<1>5. executor' = [executor EXCEPT ![p] = w]
  BY <1>1, <1>2, <1>3 DEF AzureTypes
<1> QED BY <1>1, <1>2, <1>4, <1>5, WorkerOnlyStep DEF WorkerHolds

\* A role answers.
LEMMA AnswersKeeps == ASSUME AzureInv, NEW p \in AzurePackets, Answers(p) PROVE AzureInv'
<1>1. AzureTypes /\ WorkerHolds(p) /\ past \in PastType /\ executor[p] \in WorkerType /\ head[p] \in 0..MaxCommits
  BY AtWork
<1>2. UNCHANGED <<scope, claims, head, publisher, remote, sent, authorized>>
  BY DEF Answers
<1>3. ASSUME NEW pc \in {"implementation", "pick", "pick_again", "repair"}, Passes(p, pc),
             executor[p].pc \in {"planning", "implementation", "repair", "review"},
             pc \in {"pick_again", "repair"} => executor[p].pc \in {"repair", "review"}
      PROVE  AzureInv'
  <2>1. Moves(p, pc) /\ UNCHANGED past
    BY <1>3 DEF Passes
  <2>2. PICK w \in WorkerType : /\ executor' = [executor EXCEPT ![p] = w] /\ w.pc = pc
                                /\ w.candidate = executor[p].candidate
    BY <1>1, <2>1, WorkerMoves DEF WorkerPcs, WorkerRoles
  <2>3. w.candidate <= head[p]
    BY <1>1, <2>2 DEF WorkerHolds
  <2>4. w.pc \in {"repair", "pick_again"} => w.candidate > 0
    BY <1>1, <1>3, <2>2 DEF WorkerHolds
  <2> QED BY <1>1, <1>2, <1>3, <2>1, <2>2, <2>3, <2>4, WorkerOnlyStep
<1>4. ASSUME executor[p].pc \in {"review", "review_again"}, head[p] = executor[p].candidate, Moves(p, "finish"),
             past' = [past EXCEPT !.passed = @ \cup {<<p, head[p]>>}]
      PROVE  AzureInv'
  <2>1. PICK w \in WorkerType : /\ executor' = [executor EXCEPT ![p] = w] /\ w.pc = "finish"
                                /\ w.candidate = executor[p].candidate
    BY <1>1, <1>4, WorkerMoves DEF WorkerPcs
  <2>2. <<p, head[p]>> \in Candidates
    BY <1>1 DEF Candidates
  <2>3. /\ past' \in PastType /\ past'.passed = past.passed \cup {<<p, head[p]>>} /\ past'.accepted = past.accepted
        /\ past'.pushes = past.pushes /\ past'.posts = past.posts
    BY <1>1, <1>4, <2>2, PastGrows
  <2>4. w.candidate <= head[p] /\ w.candidate > 0 /\ <<p, w.candidate>> \in past'.accepted
        /\ <<p, w.candidate>> \in past'.passed
    BY <1>1, <1>4, <2>1, <2>3 DEF WorkerHolds
  <2> QED BY <1>1, <1>2, <1>4, <2>1, <2>3, <2>4, WorkerOnlyStep
<1> QED BY <1>3, <1>4 DEF Answers

\* The candidate is picked.
LEMMA PickKeeps == ASSUME AzureInv, NEW p \in AzurePackets, Pick(p) PROVE AzureInv'
<1>1. /\ executor[p].pc \in {"pick", "pick_again"} /\ (executor[p].pc = "pick" => head[p] # 0)
      /\ UNCHANGED <<scope, claims, head, publisher, remote, sent, authorized, past>>
      /\ executor' = [executor EXCEPT ![p].candidate = head[p],
                                  ![p].pc = IF @ = "pick" THEN "accept" ELSE "accept_again"]
  BY DEF Pick
<1>2. AzureTypes /\ WorkerHolds(p) /\ past \in PastType /\ executor[p] \in WorkerType /\ head[p] \in 0..MaxCommits
  BY AtWork
<1>3. PICK w : w = [executor[p] EXCEPT !.candidate = head[p],
                                     !.pc = IF @ = "pick" THEN "accept" ELSE "accept_again"]
  OBVIOUS
<1>4. w \in WorkerType /\ w.pc \in {"accept", "accept_again"} /\ w.candidate = head[p]
  BY <1>1, <1>2, <1>3 DEF WorkerType, WorkerPcs
<1>5. executor' = [executor EXCEPT ![p] = w]
  BY <1>1, <1>2, <1>3 DEF AzureTypes
<1>6. head[p] > 0
  <2>1. head[p] \in Nat /\ executor[p].candidate \in Nat
    BY <1>2, WorkerBounds DEF WorkerType
  <2>2. CASE executor[p].pc = "pick"
    BY <1>1, <2>1, <2>2
  <2>3. CASE executor[p].pc = "pick_again"
    <3>1. executor[p].candidate > 0 /\ executor[p].candidate <= head[p]
      BY <1>2, <2>3 DEF WorkerHolds
    <3> QED BY <2>1, <3>1
  <2> QED BY <1>1, <2>2, <2>3
<1>7. w.candidate <= head[p] /\ w.candidate > 0
  <2>1. \A n \in 0..MaxCommits : n <= n
    BY WorkerBounds
  <2> QED BY <1>2, <1>4, <1>6, <2>1
<1> QED BY <1>1, <1>2, <1>4, <1>5, <1>7, WorkerOnlyStep

\* _acceptance passes.
LEMMA AcceptKeeps == ASSUME AzureInv, NEW p \in AzurePackets, Accept(p) PROVE AzureInv'
<1> DEFINE next == IF executor[p].pc = "accept" THEN "review" ELSE "review_again"
<1>1. /\ executor[p].pc \in {"accept", "accept_again"} /\ head[p] = executor[p].candidate
      /\ past' = [past EXCEPT !.accepted = @ \cup {<<p, head[p]>>}] /\ Moves(p, next)
      /\ UNCHANGED <<scope, claims, head, publisher, remote, sent, authorized>>
  BY DEF Accept
<1>2. AzureTypes /\ WorkerHolds(p) /\ past \in PastType /\ executor[p] \in WorkerType /\ head[p] \in 0..MaxCommits
  BY AtWork
<1>3. next \in {"review", "review_again"}
  OBVIOUS
<1> HIDE DEF next
<1>4. PICK w \in WorkerType : /\ executor' = [executor EXCEPT ![p] = w] /\ w.pc = next
                              /\ w.candidate = executor[p].candidate
  BY <1>1, <1>2, <1>3, WorkerMoves DEF WorkerPcs, WorkerRoles
<1>5. <<p, head[p]>> \in Candidates
  BY <1>2 DEF Candidates
<1>6. /\ past' \in PastType /\ past'.accepted = past.accepted \cup {<<p, head[p]>>} /\ past'.passed = past.passed
      /\ past'.pushes = past.pushes /\ past'.posts = past.posts
  BY <1>1, <1>2, <1>5, PastGrows
<1>7. w.candidate <= head[p] /\ w.candidate > 0 /\ <<p, w.candidate>> \in past'.accepted
  BY <1>1, <1>2, <1>4, <1>6 DEF WorkerHolds
<1> QED BY <1>1, <1>2, <1>3, <1>4, <1>6, <1>7, WorkerOnlyStep

\* The candidate is prepared.
LEMMA FinishKeeps == ASSUME AzureInv, NEW p \in AzurePackets, FinishPacket(p) PROVE AzureInv'
<1>1. /\ executor[p].pc = "finish" /\ head[p] = executor[p].candidate
      /\ claims' = [claims EXCEPT ![p].state = "prepared", ![p].candidate = head[p]] /\ Moves(p, "done")
      /\ UNCHANGED <<scope, head, publisher, remote, sent, authorized, past>>
  BY DEF FinishPacket
<1>2. /\ AzureTypes /\ WorkerHolds(p) /\ past \in PastType /\ claims[p] \in ClaimType /\ head[p] \in 0..MaxCommits
      /\ claims[p].state \in {"claimed", "running"} /\ claims[p].state \notin Publishable
  BY <1>1, AtWork
<1>3. PICK c : c = [claims[p] EXCEPT !.state = "prepared", !.candidate = head[p]]
  OBVIOUS
<1>4. /\ c.state = "prepared" /\ c.candidate = head[p]
      /\ c.branch_write_attempted = claims[p].branch_write_attempted
      /\ c.pr_write_attempted = claims[p].pr_write_attempted
  BY <1>2, <1>3 DEF ClaimType
<1>5. c \in ClaimType
  BY <1>2, <1>3 DEF ClaimType, Publishable
<1>6. claims' = [claims EXCEPT ![p] = c]
  BY <1>1, <1>2, <1>3 DEF AzureTypes
<1>7. PICK w \in WorkerType : /\ executor' = [executor EXCEPT ![p] = w] /\ w.pc = "done"
                              /\ w.candidate = executor[p].candidate
  <2>1. Moves(p, "done") /\ AzureTypes
    BY <1>1, <1>2
  <2> QED BY <2>1, WorkerMoves DEF WorkerPcs
<1>8. Disjoint'
  <2>1. \A q \in AzurePackets : claims'[q].state # "none" => claims[q].state # "none"
    BY <1>2, <1>6 DEF AzureTypes
  <2> QED BY <1>1, <2>1, DisjointKept
<1>9. Certified(p, c.candidate)'
  BY <1>1, <1>2, <1>4 DEF WorkerHolds, Certified
<1>10. w.candidate <= head[p]
  BY <1>2, <1>7 DEF WorkerHolds
<1> QED BY <1>1, <1>2, <1>4, <1>5, <1>6, <1>7, <1>8, <1>9, <1>10, WorkerStep DEF Publishable

\* Any step raises.
LEMMA BlocksKeeps == ASSUME AzureInv, NEW p \in AzurePackets, Blocks(p) PROVE AzureInv'
<1>1. /\ executor[p].pc \notin {"none", "done"} /\ FailsAs(p, "blocked") /\ Moves(p, "done")
      /\ UNCHANGED <<scope, head, publisher, remote, sent, authorized>>
  BY DEF Blocks
<1>2. /\ AzureTypes /\ WorkerHolds(p) /\ past \in PastType /\ claims[p] \in ClaimType
      /\ claims[p].state \in {"claimed", "running"} /\ claims[p].state \notin Publishable
  BY <1>1, AtWork
<1>3. PICK c \in ClaimType : /\ claims' = [claims EXCEPT ![p] = c] /\ c.state \in {"blocked", claims[p].state}
                             /\ c.branch_write_attempted = claims[p].branch_write_attempted
                             /\ c.pr_write_attempted = claims[p].pr_write_attempted
  <2>1. CASE SetState(p, "blocked")
    BY <1>2, <2>1, StateSet DEF ClaimStates
  <2>2. CASE UNCHANGED claims
    <3>1. claims' = [claims EXCEPT ![p] = claims[p]]
      BY <1>2, <2>2 DEF AzureTypes
    <3> QED BY <1>2, <3>1
  <2> QED BY <1>1, <2>1, <2>2 DEF FailsAs
<1>4. /\ past' \in PastType /\ past'.accepted = past.accepted /\ past'.passed = past.passed
      /\ past'.pushes = past.pushes /\ past'.posts = past.posts
  BY <1>1, <1>2, PastFault DEF FailsAs
<1>5. PICK w \in WorkerType : /\ executor' = [executor EXCEPT ![p] = w] /\ w.pc = "done"
                              /\ w.candidate = executor[p].candidate
  BY <1>1, <1>2, WorkerMoves DEF WorkerPcs
<1>6. Disjoint'
  <2>1. \A q \in AzurePackets : claims'[q].state # "none" => claims[q].state # "none"
    BY <1>2, <1>3 DEF AzureTypes
  <2> QED BY <1>1, <2>1, DisjointKept
<1>7. w.candidate <= head[p]
  BY <1>2, <1>5 DEF WorkerHolds
<1>8. c.state # "none" /\ c.state \notin Publishable
  BY <1>2, <1>3 DEF Publishable
<1> QED BY <1>1, <1>2, <1>3, <1>4, <1>5, <1>6, <1>7, <1>8, WorkerStep

\* A worker dies.
LEMMA DieWorkingKeeps ==
  ASSUME AzureInv, NEW p \in AzurePackets, DieWorking(p), past' = [past EXCEPT !.faults = @ + 1],
         UNCHANGED <<scope, claims, head, remote, sent, authorized>>
  PROVE  AzureInv'
<1>1. executor[p].pc \notin {"none", "done"} /\ Moves(p, "done") /\ UNCHANGED publisher
  BY DEF DieWorking
<1>2. AzureTypes /\ WorkerHolds(p) /\ past \in PastType
  BY AtWork
<1>3. PICK w \in WorkerType : /\ executor' = [executor EXCEPT ![p] = w] /\ w.pc = "done"
                              /\ w.candidate = executor[p].candidate
  BY <1>1, <1>2, WorkerMoves DEF WorkerPcs
<1>4. /\ past' \in PastType /\ past'.accepted = past.accepted /\ past'.passed = past.passed
      /\ past'.pushes = past.pushes /\ past'.posts = past.posts
  BY <1>2, PastFault
<1>5. w.candidate <= head[p]
  BY <1>2, <1>3 DEF WorkerHolds
<1> QED BY <1>1, <1>3, <1>4, <1>5, WorkerOnlyStep
-----------------------------------------------------------------------------
(* publish, step by step.                                                   *)

\* A step of a publisher: what is left to show of it.
LEMMA PublisherStep ==
  ASSUME AzureInv, NEW p \in AzurePackets, NEW c \in ClaimType, NEW u \in PublisherType,
         claims' = [claims EXCEPT ![p] = c], publisher' = [publisher EXCEPT ![p] = u],
         UNCHANGED <<scope, head, executor, remote, authorized>>,
         sent' \subseteq ApiCalls,
         \A m \in sent' : m \in sent \/ (m.packet = p /\ m.candidate = claims[p].candidate),
         past' \in PastType, past'.accepted = past.accepted, past'.passed = past.passed,
         \A q \in AzurePackets \ {p} : past'.pushes[q] = past.pushes[q] /\ past'.posts[q] = past.posts[q],
         claims[p].state \in Publishable, c.state \in Publishable, c.candidate = claims[p].candidate,
         u.pc # "idle" => u.claim.candidate = c.candidate,
         WritesHold(c, u, past'.pushes[p], past'.posts[p]),
         u.pc \in {"refs", "decide"} => \A r \in u.prs : \E q \in remote[p].prs : q.candidate = r.candidate,
         c.state = "pr_open" => \E r \in remote[p].prs : r.candidate = c.candidate
  PROVE  AzureInv'
<1>1. AzureTypes /\ WorkerHolds(p) /\ PublisherHolds(p) /\ RemoteHolds(p)
  BY DEF AzureInv
<1>2. /\ claims'[p] = c /\ publisher'[p] = u
      /\ \A q \in AzurePackets \ {p} : claims'[q] = claims[q] /\ publisher'[q] = publisher[q]
  BY <1>1 DEF AzureTypes
<1>3. AzureTypes'
  BY <1>1 DEF AzureTypes
<1>4. \A n : Certified(p, n) => Certified(p, n)'
  BY DEF Certified
<1>5. claims[p].state \notin {"none", "claimed", "running"} /\ c.state \notin {"none", "claimed", "running"}
  BY DEF Publishable
<1>6. WorkerHolds(p)'
  BY <1>1, <1>2, <1>5 DEF WorkerHolds
<1>7. PublisherHolds(p)'
  BY <1>1, <1>2, <1>4 DEF PublisherHolds
<1>8. RemoteHolds(p)'
  <2>1. Certified(p, claims[p].candidate)
    BY <1>1 DEF PublisherHolds
  <2>2. \A m \in sent' : m.packet = p => Certified(p, m.candidate)'
    BY <1>1, <1>4, <2>1 DEF RemoteHolds
  <2> QED BY <1>1, <1>2, <1>4, <2>2 DEF RemoteHolds
<1>9. ASSUME NEW q \in AzurePackets \ {p} PROVE WorkerHolds(q)' /\ PublisherHolds(q)' /\ RemoteHolds(q)'
  <2>1. \A m \in sent' : m.packet = q => m \in sent
    OBVIOUS
  <2> QED BY <1>2, <2>1, Elsewhere
<1>10. \A q \in AzurePackets : claims'[q].state # "none" => claims[q].state # "none"
  BY <1>2, <1>5
<1>11. Disjoint'
  BY <1>10, DisjointKept
<1> QED BY <1>3, <1>6, <1>7, <1>8, <1>9, <1>11 DEF AzureInv

\* What is known of a publisher at work.
LEMMA Publishing ==
  ASSUME AzureInv, NEW p \in AzurePackets
  PROVE  /\ AzureTypes /\ claims[p] \in ClaimType /\ publisher[p] \in PublisherType /\ past \in PastType
         /\ remote[p] \in RemoteType /\ RemoteHolds(p) /\ PublisherHolds(p)
         /\ WritesHold(claims[p], publisher[p], past.pushes[p], past.posts[p])
         /\ claims[p].state = "pr_open" => \E r \in remote[p].prs : r.candidate = claims[p].candidate
         /\ publisher[p].pc # "idle" => /\ claims[p].state \in Publishable
                                        /\ publisher[p].claim.candidate = claims[p].candidate
BY DEF AzureInv, AzureTypes, PublisherHolds, RemoteHolds

\* A step that leaves the claim and the requests as they are.
LEMMA PublisherOnlyStep ==
  ASSUME AzureInv, NEW p \in AzurePackets, claims[p].state \in Publishable,
         NEW u \in PublisherType, publisher' = [publisher EXCEPT ![p] = u],
         UNCHANGED <<scope, claims, head, executor, remote, sent, authorized>>,
         past' \in PastType, past'.accepted = past.accepted, past'.passed = past.passed,
         past'.pushes = past.pushes, past'.posts = past.posts,
         u.pc # "idle" => u.claim.candidate = claims[p].candidate,
         WritesHold(claims[p], u, past.pushes[p], past.posts[p]),
         u.pc \in {"refs", "decide"} => \A r \in u.prs : \E q \in remote[p].prs : q.candidate = r.candidate
  PROVE  AzureInv'
<1>1. claims[p] \in ClaimType /\ AzureTypes /\ (claims[p].state = "pr_open" => \E r \in remote[p].prs : r.candidate = claims[p].candidate)
  BY Publishing
<1>2. claims' = [claims EXCEPT ![p] = claims[p]] /\ sent' \subseteq ApiCalls /\ \A m \in sent' : m \in sent
  BY <1>1 DEF AzureTypes
<1> QED BY <1>1, <1>2, PublisherStep

\* The claim is read once.
LEMMA PublishStartKeeps == ASSUME AzureInv, NEW p \in AzurePackets, PublishStart(p) PROVE AzureInv'
<1>1. /\ publisher[p].pc = "idle" /\ claims[p].state \in Publishable
      /\ publisher' = [publisher EXCEPT ![p] = [NoPublisher EXCEPT !.pc = "prs", !.claim = claims[p]]]
      /\ UNCHANGED <<scope, claims, head, executor, remote, sent, authorized, past>>
  BY DEF PublishStart, PreparedEvidence, Quiet
<1>2. /\ claims[p] \in ClaimType /\ past \in PastType /\ WritesHold(claims[p], publisher[p], past.pushes[p], past.posts[p])
  BY Publishing
<1>3. PICK u : u = [NoPublisher EXCEPT !.pc = "prs", !.claim = claims[p]]
  OBVIOUS
<1>4. u = [pc |-> "prs", stage |-> "first", claim |-> claims[p], prs |-> {}, branch |-> 0]
  BY <1>3 DEF NoPublisher
<1>5. u \in PublisherType /\ u.pc = "prs" /\ u.claim = claims[p]
  BY <1>2, <1>4, WorkerBounds DEF PublisherType, PublisherPcs
<1>6. WritesHold(claims[p], u, past.pushes[p], past.posts[p])
  BY <1>1, <1>2, <1>4 DEF WritesHold
<1>7. publisher' = [publisher EXCEPT ![p] = u] /\ past' \in PastType /\ u.claim.candidate = claims[p].candidate
      /\ UNCHANGED <<scope, claims, head, executor, remote, sent, authorized, past>>
  BY <1>1, <1>2, <1>3, <1>5
<1> QED BY <1>1, <1>5, <1>6, <1>7, PublisherOnlyStep

\* The pull requests are read.
LEMMA ReadPrsKeeps == ASSUME AzureInv, NEW p \in AzurePackets, ReadPrs(p) PROVE AzureInv'
<1>1. /\ publisher[p].pc = "prs"
      /\ publisher' = [publisher EXCEPT ![p].prs = remote[p].prs, ![p].pc = "refs"]
      /\ UNCHANGED <<scope, claims, head, executor, remote, sent, authorized, past>>
  BY DEF ReadPrs, Quiet
<1>2. /\ publisher[p] \in PublisherType /\ past \in PastType /\ remote[p] \in RemoteType /\ AzureTypes
      /\ WritesHold(claims[p], publisher[p], past.pushes[p], past.posts[p])
      /\ claims[p].state \in Publishable /\ publisher[p].claim.candidate = claims[p].candidate
  BY <1>1, Publishing
<1>3. PICK u : u = [publisher[p] EXCEPT !.prs = remote[p].prs, !.pc = "refs"]
  OBVIOUS
<1>4. /\ u \in PublisherType /\ u.pc = "refs" /\ u.prs = remote[p].prs
      /\ u.claim = publisher[p].claim /\ u.stage = publisher[p].stage
  BY <1>2, <1>3 DEF PublisherType, PublisherPcs, RemoteType
<1>5. publisher' = [publisher EXCEPT ![p] = u]
  BY <1>1, <1>2, <1>3 DEF AzureTypes
<1>6. WritesHold(claims[p], u, past.pushes[p], past.posts[p])
  BY <1>1, <1>2, <1>4 DEF WritesHold
<1> QED BY <1>1, <1>2, <1>4, <1>5, <1>6, PublisherOnlyStep, ZenonT(40)

\* The branch is read.
LEMMA ReadRefsKeeps == ASSUME AzureInv, NEW p \in AzurePackets, ReadRefs(p) PROVE AzureInv'
<1>1. /\ publisher[p].pc = "refs"
      /\ publisher' = [publisher EXCEPT ![p].branch = remote[p].branch, ![p].pc = "decide"]
      /\ UNCHANGED <<scope, claims, head, executor, remote, sent, authorized, past>>
  BY DEF ReadRefs, Quiet
<1>2. /\ publisher[p] \in PublisherType /\ past \in PastType /\ remote[p] \in RemoteType /\ AzureTypes
      /\ RemoteHolds(p) /\ WritesHold(claims[p], publisher[p], past.pushes[p], past.posts[p])
      /\ claims[p].state \in Publishable /\ publisher[p].claim.candidate = claims[p].candidate
  BY <1>1, Publishing
<1>3. PICK u : u = [publisher[p] EXCEPT !.branch = remote[p].branch, !.pc = "decide"]
  OBVIOUS
<1>4. /\ u \in PublisherType /\ u.pc = "decide" /\ u.prs = publisher[p].prs
      /\ u.claim = publisher[p].claim /\ u.stage = publisher[p].stage
  BY <1>2, <1>3 DEF PublisherType, PublisherPcs, RemoteType
<1>5. publisher' = [publisher EXCEPT ![p] = u]
  BY <1>1, <1>2, <1>3 DEF AzureTypes
<1>6. WritesHold(claims[p], u, past.pushes[p], past.posts[p])
  BY <1>1, <1>2, <1>4 DEF WritesHold
<1>7. \A r \in u.prs : \E q \in remote[p].prs : q.candidate = r.candidate
  BY <1>1, <1>2, <1>4 DEF RemoteHolds
<1>8. u.pc # "idle" /\ past' \in PastType /\ u.claim.candidate = claims[p].candidate
      /\ UNCHANGED <<scope, claims, head, executor, remote, sent, authorized, past>>
  BY <1>1, <1>2, <1>4
<1> QED BY <1>2, <1>4, <1>5, <1>6, <1>7, <1>8, PublisherOnlyStep

\* Pub takes one publisher on, with what it has read.
LEMMA PublisherMoves ==
  ASSUME AzureTypes, NEW p \in AzurePackets, NEW pc \in PublisherPcs, Pub(p, pc)
  PROVE  \E u \in PublisherType : /\ publisher' = [publisher EXCEPT ![p] = u] /\ u.pc = pc
                                  /\ u.stage = publisher[p].stage /\ u.claim = publisher[p].claim
                                  /\ u.prs = publisher[p].prs
<1>1. publisher[p] \in PublisherType /\ DOMAIN publisher = AzurePackets
  BY DEF AzureTypes
<1>2. PICK u : u = [publisher[p] EXCEPT !.pc = pc]
  OBVIOUS
<1>3. /\ u \in PublisherType /\ u.pc = pc /\ u.stage = publisher[p].stage /\ u.claim = publisher[p].claim
      /\ u.prs = publisher[p].prs
  BY <1>1, <1>2 DEF PublisherType
<1>4. publisher' = [publisher EXCEPT ![p] = u]
  BY <1>1, <1>2 DEF Pub, AzureTypes
<1> QED BY <1>3, <1>4

\* A publisher that ends leaves no write ahead.
LEMMA PublisherRests ==
  ASSUME NEW c, NEW d, NEW u, NEW n, NEW m, WritesHold(c, u, n, m),
         d.branch_write_attempted = c.branch_write_attempted, d.pr_write_attempted = c.pr_write_attempted
  PROVE  WritesHold(d, NoPublisher, n, m)
BY DEF WritesHold, NoPublisher

\* The publisher that is not there.
LEMMA NobodyPublishes == NoPublisher \in PublisherType /\ NoPublisher.pc = "idle"
BY WorkerBounds DEF NoPublisher, NoClaim, PublisherType, PublisherPcs, ClaimType

\* What was published is found.
LEMMA ReconcileKeeps == ASSUME AzureInv, NEW p \in AzurePackets, Reconcile(p) PROVE AzureInv'
<1>1. /\ publisher[p].pc = "decide" /\ Existing(p) /\ SetState(p, "pr_open") /\ PubEnds(p)
      /\ UNCHANGED <<scope, head, executor, remote, sent, authorized, past>>
  BY DEF Reconcile, Quiet
<1>2. /\ past \in PastType /\ AzureTypes /\ RemoteHolds(p)
      /\ WritesHold(claims[p], publisher[p], past.pushes[p], past.posts[p])
      /\ claims[p].state \in Publishable /\ publisher[p].claim.candidate = claims[p].candidate
  BY <1>1, Publishing
<1>3. PICK c \in ClaimType : /\ claims' = [claims EXCEPT ![p] = c] /\ c.state = "pr_open"
                             /\ c.candidate = claims[p].candidate
                             /\ c.branch_write_attempted = claims[p].branch_write_attempted
                             /\ c.pr_write_attempted = claims[p].pr_write_attempted
  BY <1>1, <1>2, StateSet DEF ClaimStates, Publishable
<1>4. publisher' = [publisher EXCEPT ![p] = NoPublisher]
  BY <1>1 DEF PubEnds
<1>5. WritesHold(c, NoPublisher, past.pushes[p], past.posts[p])
  BY <1>2, <1>3, PublisherRests
<1>6. \E r \in remote[p].prs : r.candidate = c.candidate
  <2>1. PICK r \in publisher[p].prs : r.candidate = publisher[p].claim.candidate
    BY <1>1 DEF Existing, Collides, Candidate
  <2> QED BY <1>1, <1>2, <1>3, <2>1 DEF RemoteHolds
<1>7. c.state \in Publishable
  BY <1>3 DEF Publishable
<1>8. sent' \subseteq ApiCalls /\ \A m \in sent' : m \in sent
  BY <1>1, <1>2 DEF AzureTypes
<1> QED BY <1>1, <1>2, <1>3, <1>4, <1>5, <1>6, <1>7, <1>8, NobodyPublishes, PublisherStep

\* A write is decided on.
LEMMA DecideKeeps == ASSUME AzureInv, NEW p \in AzurePackets, Decide(p) PROVE AzureInv'
<1>1. /\ publisher[p].pc = "decide" /\ publisher[p].stage = "first" /\ SetState(p, "publishing")
      /\ ~publisher[p].claim.pr_write_attempted
      /\ UNCHANGED <<scope, head, executor, remote, sent, authorized, past>>
  BY DEF Decide, MayWrite, Quiet
<1>2. PICK pc \in {"intend_post", "intend_push"} :
        Pub(p, pc) /\ (pc = "intend_push" => ~publisher[p].claim.branch_write_attempted)
  BY DEF Decide
<1>3. /\ past \in PastType /\ AzureTypes
      /\ WritesHold(claims[p], publisher[p], past.pushes[p], past.posts[p])
      /\ claims[p].state \in Publishable /\ publisher[p].claim.candidate = claims[p].candidate
  BY <1>1, Publishing
<1>4. PICK c \in ClaimType : /\ claims' = [claims EXCEPT ![p] = c] /\ c.state = "publishing"
                             /\ c.candidate = claims[p].candidate
                             /\ c.branch_write_attempted = claims[p].branch_write_attempted
                             /\ c.pr_write_attempted = claims[p].pr_write_attempted
  <2>1. SetState(p, "publishing") /\ AzureTypes /\ "publishing" \in ClaimStates
    BY <1>1, <1>3 DEF ClaimStates, Publishable
  <2> QED BY <2>1, StateSet
<1>5. PICK u \in PublisherType : /\ publisher' = [publisher EXCEPT ![p] = u] /\ u.pc = pc
                                 /\ u.stage = publisher[p].stage /\ u.claim = publisher[p].claim
  <2>1. Pub(p, pc) /\ AzureTypes /\ pc \in PublisherPcs
    BY <1>2, <1>3 DEF PublisherPcs
  <2>2. \E v \in PublisherType : /\ publisher' = [publisher EXCEPT ![p] = v] /\ v.pc = pc
                                 /\ v.stage = publisher[p].stage /\ v.claim = publisher[p].claim
                                 /\ v.prs = publisher[p].prs
    BY <2>1, PublisherMoves, ZenonT(30)
  <2> QED BY <2>2
<1>6. WritesHold(c, u, past.pushes[p], past.posts[p])
  BY <1>1, <1>2, <1>3, <1>4, <1>5 DEF WritesHold
<1>7. c.state \in Publishable
  BY <1>4 DEF Publishable
<1>8. sent' \subseteq ApiCalls /\ \A m \in sent' : m \in sent
  BY <1>1, <1>3 DEF AzureTypes
<1> QED BY <1>1, <1>2, <1>3, <1>4, <1>5, <1>6, <1>7, <1>8, PublisherStep

\* The attempt to push is on record before it is made.
LEMMA IntendPushKeeps == ASSUME AzureInv, NEW p \in AzurePackets, IntendPush(p) PROVE AzureInv'
<1>1. /\ publisher[p].pc = "intend_push" /\ Pub(p, "push")
      /\ claims' = [claims EXCEPT ![p].branch_write_attempted = TRUE]
      /\ UNCHANGED <<scope, head, executor, remote, sent, authorized, past>>
  BY DEF IntendPush, Quiet
<1>2. /\ past \in PastType /\ AzureTypes /\ claims[p] \in ClaimType
      /\ WritesHold(claims[p], publisher[p], past.pushes[p], past.posts[p])
      /\ claims[p].state = "pr_open" => \E r \in remote[p].prs : r.candidate = claims[p].candidate
      /\ claims[p].state \in Publishable /\ publisher[p].claim.candidate = claims[p].candidate
  BY <1>1, Publishing
<1>3. PICK c : c = [claims[p] EXCEPT !.branch_write_attempted = TRUE]
  OBVIOUS
<1>4. /\ c \in ClaimType /\ c.state = claims[p].state /\ c.candidate = claims[p].candidate
      /\ c.branch_write_attempted = TRUE /\ c.pr_write_attempted = claims[p].pr_write_attempted
  BY <1>2, <1>3 DEF ClaimType
<1>5. claims' = [claims EXCEPT ![p] = c]
  BY <1>1, <1>2, <1>3 DEF AzureTypes
<1>6. PICK u \in PublisherType : /\ publisher' = [publisher EXCEPT ![p] = u] /\ u.pc = "push"
                                 /\ u.stage = publisher[p].stage /\ u.claim = publisher[p].claim
  <2>1. AzureTypes /\ "push" \in PublisherPcs /\ Pub(p, "push")
    BY <1>1, <1>2 DEF PublisherPcs
  <2> QED BY <2>1, PublisherMoves, SMTT(60)
<1>7. WritesHold(c, u, past.pushes[p], past.posts[p])
  BY <1>1, <1>2, <1>4, <1>6 DEF WritesHold
<1>8. sent' \subseteq ApiCalls /\ \A m \in sent' : m \in sent
  <2>1. sent \subseteq ApiCalls
    BY <1>2 DEF AzureTypes
  <2> QED BY <1>1, <2>1
<1>9. c.state \in Publishable /\ u.claim.candidate = c.candidate /\ u.pc \notin {"idle", "refs", "decide"}
      /\ (c.state = "pr_open" => \E r \in remote[p].prs : r.candidate = c.candidate)
  BY <1>2, <1>4, <1>6
<1>10. past' = past
  BY <1>1
<1> QED BY <1>1, <1>2, <1>4, <1>5, <1>6, <1>7, <1>8, <1>9, <1>10, PublisherStep

\* The attempt to open the pull request is on record before it is made.
LEMMA IntendPostKeeps == ASSUME AzureInv, NEW p \in AzurePackets, IntendPost(p) PROVE AzureInv'
<1>1. /\ publisher[p].pc = "intend_post" /\ Pub(p, "post")
      /\ claims' = [claims EXCEPT ![p].pr_write_attempted = TRUE]
      /\ UNCHANGED <<scope, head, executor, remote, sent, authorized, past>>
  BY DEF IntendPost, Quiet
<1>2. /\ past \in PastType /\ AzureTypes /\ claims[p] \in ClaimType
      /\ WritesHold(claims[p], publisher[p], past.pushes[p], past.posts[p])
      /\ claims[p].state = "pr_open" => \E r \in remote[p].prs : r.candidate = claims[p].candidate
      /\ claims[p].state \in Publishable /\ publisher[p].claim.candidate = claims[p].candidate
  BY <1>1, Publishing
<1>3. PICK c : c = [claims[p] EXCEPT !.pr_write_attempted = TRUE]
  OBVIOUS
<1>4. /\ c \in ClaimType /\ c.state = claims[p].state /\ c.candidate = claims[p].candidate
      /\ c.pr_write_attempted = TRUE /\ c.branch_write_attempted = claims[p].branch_write_attempted
  BY <1>2, <1>3 DEF ClaimType
<1>5. claims' = [claims EXCEPT ![p] = c]
  BY <1>1, <1>2, <1>3 DEF AzureTypes
<1>6. PICK u \in PublisherType : /\ publisher' = [publisher EXCEPT ![p] = u] /\ u.pc = "post"
                                 /\ u.stage = publisher[p].stage /\ u.claim = publisher[p].claim
  <2>1. AzureTypes /\ "post" \in PublisherPcs /\ Pub(p, "post")
    BY <1>1, <1>2 DEF PublisherPcs
  <2> QED BY <2>1, PublisherMoves, SMTT(60)
<1>7. WritesHold(c, u, past.pushes[p], past.posts[p])
  BY <1>1, <1>2, <1>4, <1>6 DEF WritesHold
<1>8. sent' \subseteq ApiCalls /\ \A m \in sent' : m \in sent
  <2>1. sent \subseteq ApiCalls
    BY <1>2 DEF AzureTypes
  <2> QED BY <1>1, <2>1
<1>9. c.state \in Publishable /\ u.claim.candidate = c.candidate /\ u.pc \notin {"idle", "refs", "decide"}
      /\ (c.state = "pr_open" => \E r \in remote[p].prs : r.candidate = c.candidate)
  BY <1>2, <1>4, <1>6
<1>10. past' = past
  BY <1>1
<1> QED BY <1>1, <1>2, <1>4, <1>5, <1>6, <1>7, <1>8, <1>9, <1>10, PublisherStep

\* The branch is confirmed.
LEMMA ConfirmKeeps == ASSUME AzureInv, NEW p \in AzurePackets, Confirm(p) PROVE AzureInv'
<1>1. /\ publisher[p].pc = "decide" /\ publisher[p].stage = "pushed" /\ Pub(p, "intend_post")
      /\ UNCHANGED <<scope, claims, head, executor, remote, sent, authorized, past>>
  BY DEF Confirm, Quiet
<1>2. /\ past \in PastType /\ AzureTypes
      /\ WritesHold(claims[p], publisher[p], past.pushes[p], past.posts[p])
      /\ claims[p].state \in Publishable /\ publisher[p].claim.candidate = claims[p].candidate
  BY <1>1, Publishing
<1>3. PICK u \in PublisherType : /\ publisher' = [publisher EXCEPT ![p] = u] /\ u.pc = "intend_post"
                                 /\ u.stage = publisher[p].stage /\ u.claim = publisher[p].claim
  <2>1. AzureTypes /\ "intend_post" \in PublisherPcs /\ Pub(p, "intend_post")
    BY <1>1, <1>2 DEF PublisherPcs
  <2> QED BY <2>1, PublisherMoves, SMTT(60)
<1>4. WritesHold(claims[p], u, past.pushes[p], past.posts[p])
  BY <1>1, <1>2, <1>3 DEF WritesHold
<1> QED BY <1>1, <1>2, <1>3, <1>4, PublisherOnlyStep

\* A request of the candidate leaves.
LEMMA RequestOfCandidate ==
  ASSUME AzureInv, NEW p \in AzurePackets, publisher[p].pc # "idle", NEW kind \in {"push", "post"}
  PROVE  LET m == [packet |-> p, kind |-> kind, candidate |-> Candidate(p)]
         IN  m \in ApiCalls /\ m.packet = p /\ m.candidate = claims[p].candidate
<1>1. /\ Certified(p, claims[p].candidate) /\ claims[p].candidate \in 0..MaxCommits
      /\ publisher[p].claim.candidate = claims[p].candidate
  BY Publishing DEF PublisherHolds, ClaimType
<1>2. claims[p].candidate \in 1..MaxCommits
  BY <1>1, WorkerBounds DEF Certified
<1> QED BY <1>1, <1>2 DEF ApiCalls, Candidate

\* The push leaves, or it does not.
LEMMA PushKeeps == ASSUME AzureInv, NEW p \in AzurePackets, Push(p) PROVE AzureInv'
<1> DEFINE m == [packet |-> p, kind |-> "push", candidate |-> Candidate(p)]
<1>1. /\ publisher[p].pc = "push"
      /\ publisher' = [publisher EXCEPT ![p].pc = "prs", ![p].stage = "pushed"]
      /\ UNCHANGED <<scope, claims, head, executor, remote, authorized>>
      /\ \/ sent' = sent \cup {m} /\ past' = [past EXCEPT !.pushes[p] = @ + 1]
         \/ UNCHANGED <<sent, past>>
  BY DEF Push, Quiet
<1>2. m \in ApiCalls /\ m.packet = p /\ m.candidate = claims[p].candidate
  BY <1>1, RequestOfCandidate
<1> HIDE DEF m
<1>3. /\ past \in PastType /\ AzureTypes /\ claims[p] \in ClaimType /\ publisher[p] \in PublisherType
      /\ WritesHold(claims[p], publisher[p], past.pushes[p], past.posts[p])
      /\ claims[p].state = "pr_open" => \E r \in remote[p].prs : r.candidate = claims[p].candidate
      /\ claims[p].state \in Publishable /\ publisher[p].claim.candidate = claims[p].candidate
  BY <1>1, Publishing
<1>4. PICK u : u = [publisher[p] EXCEPT !.pc = "prs", !.stage = "pushed"]
  OBVIOUS
<1>5. /\ u \in PublisherType /\ u.pc = "prs" /\ u.stage = "pushed" /\ u.claim = publisher[p].claim
  BY <1>3, <1>4 DEF PublisherType, PublisherPcs
<1>6. publisher' = [publisher EXCEPT ![p] = u]
  BY <1>1, <1>3, <1>4 DEF AzureTypes
<1>7. past.pushes[p] = 0 /\ ~claims[p].pr_write_attempted /\ past.posts[p] = 0 /\ claims[p].branch_write_attempted
  BY <1>1, <1>3 DEF WritesHold, ClaimType
<1>8. /\ past' \in PastType /\ past'.accepted = past.accepted /\ past'.passed = past.passed
      /\ past'.posts = past.posts /\ past'.pushes[p] \in {0, 1}
      /\ \A q \in AzurePackets \ {p} : past'.pushes[q] = past.pushes[q]
  <2>1. past' = [past EXCEPT !.pushes[p] = @ + 1] \/ UNCHANGED past
    BY <1>1
  <2>2. 0 + 1 = 1 /\ 1 \in Nat
    OBVIOUS
  <2>3. ASSUME past' = [past EXCEPT !.pushes[p] = @ + 1]
        PROVE  /\ past' \in PastType /\ past'.accepted = past.accepted /\ past'.passed = past.passed
               /\ past'.posts = past.posts /\ past'.pushes[p] = 1
               /\ \A q \in AzurePackets \ {p} : past'.pushes[q] = past.pushes[q]
    BY <1>3, <1>7, <2>2, <2>3 DEF PastType
  <2> QED BY <1>3, <1>7, <2>1, <2>3
<1>9. WritesHold(claims[p], u, past'.pushes[p], past'.posts[p])
  BY <1>5, <1>7, <1>8 DEF WritesHold
<1>10. sent' \subseteq ApiCalls
      /\ \A n \in sent' : n \in sent \/ (n.packet = p /\ n.candidate = claims[p].candidate)
  <2>1. sent \subseteq ApiCalls /\ sent' \subseteq sent \cup {m}
    BY <1>1, <1>3 DEF AzureTypes
  <2> QED BY <1>2, <2>1
<1>11. claims' = [claims EXCEPT ![p] = claims[p]]
  BY <1>1, <1>3 DEF AzureTypes
<1>12. \A q \in AzurePackets \ {p} : past'.pushes[q] = past.pushes[q] /\ past'.posts[q] = past.posts[q]
  BY <1>8
<1>13. u.pc \notin {"idle", "refs", "decide"} /\ u.claim.candidate = claims[p].candidate
  BY <1>3, <1>5
<1>14. UNCHANGED <<scope, head, executor, remote, authorized>>
  BY <1>1
<1> QED BY <1>3, <1>5, <1>6, <1>8, <1>9, <1>10, <1>11, <1>12, <1>13, <1>14, PublisherStep

\* The request for the pull request leaves, or it does not.
LEMMA PostKeeps == ASSUME AzureInv, NEW p \in AzurePackets, Post(p) PROVE AzureInv'
<1> DEFINE m == [packet |-> p, kind |-> "post", candidate |-> Candidate(p)]
<1>1. /\ publisher[p].pc = "post"
      /\ publisher' = [publisher EXCEPT ![p].pc = "prs", ![p].stage = "posted"]
      /\ UNCHANGED <<scope, claims, head, executor, remote, authorized>>
      /\ \/ sent' = sent \cup {m} /\ past' = [past EXCEPT !.posts[p] = @ + 1]
         \/ UNCHANGED <<sent, past>>
  BY DEF Post, Quiet
<1>2. m \in ApiCalls /\ m.packet = p /\ m.candidate = claims[p].candidate
  BY <1>1, RequestOfCandidate
<1> HIDE DEF m
<1>3. /\ past \in PastType /\ AzureTypes /\ claims[p] \in ClaimType /\ publisher[p] \in PublisherType
      /\ WritesHold(claims[p], publisher[p], past.pushes[p], past.posts[p])
      /\ claims[p].state = "pr_open" => \E r \in remote[p].prs : r.candidate = claims[p].candidate
      /\ claims[p].state \in Publishable /\ publisher[p].claim.candidate = claims[p].candidate
  BY <1>1, Publishing
<1>4. PICK u : u = [publisher[p] EXCEPT !.pc = "prs", !.stage = "posted"]
  OBVIOUS
<1>5. /\ u \in PublisherType /\ u.pc = "prs" /\ u.stage = "posted" /\ u.claim = publisher[p].claim
  BY <1>3, <1>4 DEF PublisherType, PublisherPcs
<1>6. publisher' = [publisher EXCEPT ![p] = u]
  BY <1>1, <1>3, <1>4 DEF AzureTypes
<1>7. /\ past.posts[p] = 0 /\ claims[p].pr_write_attempted /\ past.pushes[p] \in {0, 1}
      /\ ~claims[p].branch_write_attempted => past.pushes[p] = 0
  BY <1>1, <1>3 DEF WritesHold, ClaimType
<1>8. /\ past' \in PastType /\ past'.accepted = past.accepted /\ past'.passed = past.passed
      /\ past'.pushes = past.pushes /\ past'.posts[p] \in {0, 1}
      /\ \A q \in AzurePackets \ {p} : past'.posts[q] = past.posts[q]
  <2>1. past' = [past EXCEPT !.posts[p] = @ + 1] \/ UNCHANGED past
    BY <1>1
  <2>2. 0 + 1 = 1 /\ 1 \in Nat
    OBVIOUS
  <2>3. ASSUME past' = [past EXCEPT !.posts[p] = @ + 1]
        PROVE  /\ past' \in PastType /\ past'.accepted = past.accepted /\ past'.passed = past.passed
               /\ past'.pushes = past.pushes /\ past'.posts[p] = 1
               /\ \A q \in AzurePackets \ {p} : past'.posts[q] = past.posts[q]
    BY <1>3, <1>7, <2>2, <2>3 DEF PastType
  <2> QED BY <1>3, <1>7, <2>1, <2>3
<1>9. WritesHold(claims[p], u, past'.pushes[p], past'.posts[p])
  BY <1>5, <1>7, <1>8 DEF WritesHold
<1>10. sent' \subseteq ApiCalls
      /\ \A n \in sent' : n \in sent \/ (n.packet = p /\ n.candidate = claims[p].candidate)
  <2>1. sent \subseteq ApiCalls /\ sent' \subseteq sent \cup {m}
    BY <1>1, <1>3 DEF AzureTypes
  <2> QED BY <1>2, <2>1
<1>11. claims' = [claims EXCEPT ![p] = claims[p]]
  BY <1>1, <1>3 DEF AzureTypes
<1>12. \A q \in AzurePackets \ {p} : past'.pushes[q] = past.pushes[q] /\ past'.posts[q] = past.posts[q]
  BY <1>8
<1>13. u.pc \notin {"idle", "refs", "decide"} /\ u.claim.candidate = claims[p].candidate
  BY <1>3, <1>5
<1>14. UNCHANGED <<scope, head, executor, remote, authorized>>
  BY <1>1
<1> QED BY <1>3, <1>5, <1>6, <1>8, <1>9, <1>10, <1>11, <1>12, <1>13, <1>14, PublisherStep

\* A publisher that ends, whatever it writes of the state of its claim.
LEMMA PublisherEnds ==
  ASSUME AzureInv, NEW p \in AzurePackets, publisher[p].pc # "idle", PubEnds(p),
         UNCHANGED claims \/ SetState(p, "publication_uncertain"),
         UNCHANGED <<scope, head, executor, remote, sent, authorized>>,
         UNCHANGED past \/ past' = [past EXCEPT !.faults = @ + 1]
  PROVE  AzureInv'
<1>1. /\ past \in PastType /\ AzureTypes /\ claims[p] \in ClaimType
      /\ WritesHold(claims[p], publisher[p], past.pushes[p], past.posts[p])
      /\ claims[p].state = "pr_open" => \E r \in remote[p].prs : r.candidate = claims[p].candidate
      /\ claims[p].state \in Publishable
  BY Publishing
<1>2. /\ past' \in PastType /\ past'.accepted = past.accepted /\ past'.passed = past.passed
      /\ past'.pushes = past.pushes /\ past'.posts = past.posts
  BY <1>1, PastFault
<1>3. publisher' = [publisher EXCEPT ![p] = NoPublisher]
  BY DEF PubEnds
<1>4. PICK c \in ClaimType : /\ claims' = [claims EXCEPT ![p] = c] /\ c.state \in {claims[p].state, "publication_uncertain"}
                             /\ c.candidate = claims[p].candidate
                             /\ c.branch_write_attempted = claims[p].branch_write_attempted
                             /\ c.pr_write_attempted = claims[p].pr_write_attempted
  <2>1. CASE UNCHANGED claims
    <3>1. claims' = [claims EXCEPT ![p] = claims[p]]
      BY <1>1, <2>1 DEF AzureTypes
    <3> QED BY <1>1, <3>1
  <2>2. CASE SetState(p, "publication_uncertain")
    <3>1. "publication_uncertain" \in ClaimStates
      BY DEF ClaimStates, Publishable
    <3> QED BY <1>1, <2>2, <3>1, StateSet
  <2> QED BY <2>1, <2>2
<1>5. WritesHold(c, NoPublisher, past'.pushes[p], past'.posts[p])
  BY <1>1, <1>2, <1>4, PublisherRests
<1>6. c.state \in Publishable /\ (c.state = "pr_open" => \E r \in remote[p].prs : r.candidate = c.candidate)
  BY <1>1, <1>4 DEF Publishable
<1>7. sent' \subseteq ApiCalls /\ \A m \in sent' : m \in sent
  BY <1>1 DEF AzureTypes
<1>8. \A q \in AzurePackets \ {p} : past'.pushes[q] = past.pushes[q] /\ past'.posts[q] = past.posts[q]
  BY <1>2
<1> QED BY <1>1, <1>2, <1>3, <1>4, <1>5, <1>6, <1>7, <1>8, NobodyPublishes, PublisherStep

\* publish raises.
LEMMA GivesKeeps == ASSUME AzureInv, NEW p \in AzurePackets, Gives(p) PROVE AzureInv'
<1>1. /\ publisher[p].pc # "idle" /\ PubEnds(p)
      /\ UNCHANGED claims \/ SetState(p, "publication_uncertain")
      /\ UNCHANGED <<scope, head, executor, remote, sent, authorized>>
      /\ UNCHANGED past \/ past' = [past EXCEPT !.faults = @ + 1]
  BY DEF Gives, Quiet
<1> QED BY <1>1, PublisherEnds

\* A worker or a publisher dies.
LEMMA DieKeeps == ASSUME AzureInv, NEW p \in AzurePackets, Die(p) PROVE AzureInv'
<1>1. CASE DieWorking(p)
  BY <1>1, DieWorkingKeeps DEF Die
<1>2. CASE DiePublishing(p)
  <2>1. /\ publisher[p].pc # "idle" /\ PubEnds(p) /\ UNCHANGED claims
        /\ UNCHANGED <<scope, head, executor, remote, sent, authorized>>
        /\ past' = [past EXCEPT !.faults = @ + 1]
    BY <1>2 DEF Die, DiePublishing
  <2> QED BY <2>1, PublisherEnds
<1> QED BY <1>1, <1>2 DEF Die
-----------------------------------------------------------------------------
(* Everybody else.                                                          *)

\* A step at the service: pull requests stay, and what comes was certified.
LEMMA RemoteStep ==
  ASSUME AzureInv, NEW p \in AzurePackets, NEW b \in RemoteType, remote' = [remote EXCEPT ![p] = b],
         UNCHANGED <<scope, claims, head, executor, publisher, authorized>>, sent' \subseteq sent,
         UNCHANGED past \/ past' = [past EXCEPT !.faults = @ + 1], IsFiniteSet(b.prs), b.branch # 0 => Certified(p, b.branch),
         \A r \in b.prs : Certified(p, r.candidate),
         \A r \in remote[p].prs : \E q \in b.prs : q.candidate = r.candidate
  PROVE  AzureInv'
<1>1. AzureTypes /\ WorkerHolds(p) /\ PublisherHolds(p) /\ RemoteHolds(p)
  BY DEF AzureInv
<1>p. /\ past' \in PastType /\ past'.accepted = past.accepted /\ past'.passed = past.passed
      /\ past'.pushes = past.pushes /\ past'.posts = past.posts
  BY <1>1, PastFault DEF AzureTypes
<1>2. remote'[p] = b /\ \A q \in AzurePackets \ {p} : remote'[q] = remote[q]
  BY <1>1 DEF AzureTypes
<1>3. AzureTypes'
  BY <1>1, <1>p DEF AzureTypes
<1>4. \A n : Certified(p, n) => Certified(p, n)'
  BY <1>p DEF Certified
<1>5. WorkerHolds(p)'
  BY <1>1, <1>p DEF WorkerHolds
<1>6. PublisherHolds(p)'
  BY <1>1, <1>p, <1>4 DEF PublisherHolds
<1>7. RemoteHolds(p)'
  <2>1. /\ publisher[p].pc \in {"refs", "decide"} =>
             \A r \in publisher[p].prs : \E q \in b.prs : q.candidate = r.candidate
        /\ claims[p].state = "pr_open" => \E r \in b.prs : r.candidate = claims[p].candidate
    BY <1>1 DEF RemoteHolds
  <2>2. \A m \in sent' : m.packet = p => Certified(p, m.candidate)
    BY <1>1 DEF RemoteHolds
  <2> QED BY <1>2, <1>4, <2>1, <2>2 DEF RemoteHolds
<1>8. ASSUME NEW q \in AzurePackets \ {p} PROVE WorkerHolds(q)' /\ PublisherHolds(q)' /\ RemoteHolds(q)'
  <2>1. \A m \in sent' : m.packet = q => m \in sent
    OBVIOUS
  <2> QED BY <1>2, <1>p, <2>1, Elsewhere
<1>9. Disjoint'
  BY DisjointKept
<1> QED BY <1>3, <1>5, <1>6, <1>7, <1>8, <1>9 DEF AzureInv

\* The service takes a request, or it is lost.
LEMMA TakeKeeps == ASSUME AzureInv, NEW r \in sent, Take(r) PROVE AzureInv'
<1> DEFINE p == r.packet
<1>1. p \in AzurePackets /\ r \in ApiCalls /\ r.candidate \in 1..MaxCommits /\ Certified(p, r.candidate)
      /\ AzureTypes /\ RemoteHolds(p) /\ remote[p] \in RemoteType /\ DOMAIN remote = AzurePackets
  <2>1. AzureTypes /\ r \in ApiCalls /\ \A q \in AzurePackets : RemoteHolds(q)
    BY DEF AzureInv, AzureTypes
  <2>2. p \in AzurePackets /\ r.candidate \in 1..MaxCommits
    BY <2>1 DEF ApiCalls
  <2> QED BY <2>1, <2>2 DEF RemoteHolds, AzureTypes
<1>2. /\ sent' \subseteq sent
      /\ UNCHANGED <<scope, claims, head, executor, publisher, authorized, past>>
      /\ \/ remote' = [remote EXCEPT ![p].branch = r.candidate]
         \/ remote' = [remote EXCEPT ![p].prs = @ \cup {[candidate |-> r.candidate, open |-> TRUE, intact |-> TRUE, no |-> Cardinality(@)]}]
  BY DEF Take
<1> HIDE DEF p
<1>3. CASE remote' = [remote EXCEPT ![p].branch = r.candidate]
  <2>1. PICK b : b = [remote[p] EXCEPT !.branch = r.candidate]
    OBVIOUS
  <2>2. b \in RemoteType /\ b.branch = r.candidate /\ b.prs = remote[p].prs
    BY <1>1, <2>1, WorkerBounds DEF RemoteType
  <2>3. remote' = [remote EXCEPT ![p] = b]
    BY <1>1, <1>3, <2>1
  <2>4. IsFiniteSet(b.prs) /\ \A x \in b.prs : Certified(p, x.candidate)
    BY <1>1, <2>2 DEF RemoteHolds
  <2> QED BY <1>1, <1>2, <2>2, <2>3, <2>4, RemoteStep
<1>4. CASE remote' = [remote EXCEPT ![p].prs = @ \cup {[candidate |-> r.candidate, open |-> TRUE, intact |-> TRUE, no |-> Cardinality(@)]}]
  <2> DEFINE pr == [candidate |-> r.candidate, open |-> TRUE, intact |-> TRUE, no |-> Cardinality(remote[p].prs)]
  <2>1. PICK b : b = [remote[p] EXCEPT !.prs = @ \cup {pr}]
    OBVIOUS
  <2>2. Cardinality(remote[p].prs) \in Nat /\ IsFiniteSet(remote[p].prs)
    BY <1>1, FS_CardinalityType DEF RemoteHolds
  <2>3. pr \in PrType /\ pr.candidate = r.candidate
    BY <1>1, <2>2 DEF PrType
  <2>4. remote' = [remote EXCEPT ![p] = b]
    BY <1>1, <1>4, <2>1
  <2> HIDE DEF pr
  <2>5. b \in RemoteType /\ b.branch = remote[p].branch /\ b.prs = remote[p].prs \cup {pr}
    BY <1>1, <2>1, <2>3 DEF RemoteType
  <2>6. IsFiniteSet(b.prs)
    BY <2>2, <2>5, FS_AddElement
  <2>7. /\ b.branch # 0 => Certified(p, b.branch)
        /\ \A x \in b.prs : Certified(p, x.candidate)
        /\ \A x \in remote[p].prs : \E q \in b.prs : q.candidate = x.candidate
    BY <1>1, <2>3, <2>5 DEF RemoteHolds
  <2> QED BY <1>1, <1>2, <2>4, <2>5, <2>6, <2>7, RemoteStep
<1> QED BY <1>2, <1>3, <1>4

\* A request is lost.
LEMMA DropKeeps == ASSUME AzureInv, NEW r \in sent, Drop(r) PROVE AzureInv'
<1>1. sent' \subseteq sent /\ UNCHANGED <<scope, claims, head, executor, publisher, remote, authorized, past>>
  BY DEF Drop
<1>2. AzureTypes'
  BY <1>1 DEF AzureInv, AzureTypes
<1>3. Disjoint'
  BY <1>1, DisjointKept
<1>4. ASSUME NEW q \in AzurePackets PROVE WorkerHolds(q)' /\ PublisherHolds(q)' /\ RemoteHolds(q)'
  BY <1>1, Elsewhere
<1> QED BY <1>2, <1>3, <1>4 DEF AzureInv

\* A pull request is closed, with its branch.
LEMMA CloseKeeps == ASSUME AzureInv, NEW p \in AzurePackets, Close(p) PROVE AzureInv'
<1> DEFINE old == remote[p].prs
           f == [r \in old |-> [r EXCEPT !.open = FALSE]]
           new == {[r EXCEPT !.open = FALSE] : r \in old}
           b == [branch |-> 0, prs |-> new]
<1>1. AzureTypes /\ RemoteHolds(p) /\ remote[p] \in RemoteType
  BY Publishing
<1>2. /\ remote' = [remote EXCEPT ![p] = b]
      /\ UNCHANGED <<scope, claims, head, executor, publisher, sent, authorized, past>>
  BY <1>1 DEF Close, AzureTypes
<1>3. old \subseteq PrType /\ IsFiniteSet(old)
  BY <1>1 DEF RemoteType, RemoteHolds
<1>4. \A r \in PrType : [r EXCEPT !.open = FALSE] \in PrType /\ [r EXCEPT !.open = FALSE].candidate = r.candidate
  BY DEF PrType
<1>5. new \subseteq PrType
  BY <1>3, <1>4
<1>6. IsFiniteSet(new)
  <2>1. f \in Surjection(old, new)
    BY DEF Surjection
  <2> HIDE DEF old, new, f
  <2> QED BY <1>3, <2>1, FS_Surjection
<1>7. \A r \in new : Certified(p, r.candidate)
  <2>1. \A r \in old : Certified(p, r.candidate)
    BY <1>1 DEF RemoteHolds
  <2>2. \A q \in new : \E r \in old : q.candidate = r.candidate
    BY <1>3, <1>4
  <2> HIDE DEF old, new
  <2> QED BY <2>1, <2>2
<1>8. \A r \in old : \E q \in new : q.candidate = r.candidate
  BY <1>3, <1>4
<1>9. b \in RemoteType /\ b.branch = 0 /\ b.prs = new
  BY <1>5, WorkerBounds DEF RemoteType
<1> HIDE DEF b, new, f
<1> QED BY <1>2, <1>6, <1>7, <1>8, <1>9, RemoteStep

\* A pull request is edited: it is for the candidate it was for.
LEMMA EditKeeps == ASSUME AzureInv, NEW p \in AzurePackets, Edit(p) PROVE AzureInv'
<1>1. AzureTypes /\ RemoteHolds(p) /\ remote[p] \in RemoteType
  BY Publishing
<1>2. PICK r \in remote[p].prs :
        remote' = [remote EXCEPT ![p].prs = (@ \ {r}) \cup {[r EXCEPT !.intact = ~@]}]
  BY DEF Edit
<1>3. /\ past' = [past EXCEPT !.faults = @ + 1]
      /\ UNCHANGED <<scope, claims, head, executor, publisher, sent, authorized>>
  BY DEF Edit
<1> DEFINE old == remote[p].prs
           e == [r EXCEPT !.intact = ~@]
<1>4. PICK b : b = [remote[p] EXCEPT !.prs = (old \ {r}) \cup {e}]
  OBVIOUS
<1>5. remote' = [remote EXCEPT ![p] = b]
  BY <1>1, <1>2, <1>4 DEF AzureTypes
<1>6. r \in PrType /\ old \subseteq PrType /\ IsFiniteSet(old)
  BY <1>1 DEF RemoteType, RemoteHolds
<1>7. e \in PrType /\ e.candidate = r.candidate
  BY <1>6 DEF PrType
<1> HIDE DEF e
<1>8. b \in RemoteType /\ b.branch = remote[p].branch /\ b.prs = (old \ {r}) \cup {e}
  BY <1>1, <1>4, <1>6, <1>7 DEF RemoteType
<1>9. IsFiniteSet(b.prs)
  <2>1. IsFiniteSet(old \ {r})
    BY <1>6, FS_RemoveElement
  <2> QED BY <1>8, <2>1, FS_AddElement
<1>10. /\ b.branch # 0 => Certified(p, b.branch)
       /\ \A x \in b.prs : Certified(p, x.candidate)
       /\ \A x \in old : \E q \in b.prs : q.candidate = x.candidate
  BY <1>1, <1>7, <1>8 DEF RemoteHolds
<1> QED BY <1>3, <1>5, <1>8, <1>9, <1>10, RemoteStep

\* A commit leaves the candidates behind.
LEMMA CommitKeeps == ASSUME AzureInv, NEW p \in AzurePackets, Commit(p) PROVE AzureInv'
<1>1. /\ head[p] < MaxCommits /\ head' = [head EXCEPT ![p] = head[p] + 1]
      /\ UNCHANGED <<scope, claims, executor, publisher, remote, sent, authorized, past>>
  BY DEF Commit
<1>2. /\ AzureTypes /\ head[p] \in 0..MaxCommits /\ executor[p].candidate \in 0..MaxCommits
      /\ WorkerHolds(p) /\ PublisherHolds(p) /\ RemoteHolds(p)
  BY DEF AzureInv, AzureTypes, WorkerType
<1>3. head[p] + 1 \in 0..MaxCommits /\ (executor[p].candidate <= head[p] => executor[p].candidate <= head[p] + 1)
  BY <1>1, <1>2, WorkerBounds
<1>4. AzureTypes'
  BY <1>1, <1>2, <1>3 DEF AzureTypes
<1>5. head'[p] = head[p] + 1 /\ \A q \in AzurePackets \ {p} : head'[q] = head[q]
  BY <1>1, <1>2 DEF AzureTypes
<1>6. WorkerHolds(p)'
  <2>1. executor[p].candidate <= head'[p]
    BY <1>2, <1>3, <1>5 DEF WorkerHolds
  <2> QED BY <1>1, <1>2, <2>1 DEF WorkerHolds
<1>7. PublisherHolds(p)' /\ RemoteHolds(p)'
  BY <1>1, <1>2 DEF PublisherHolds, RemoteHolds, Certified
<1>8. ASSUME NEW q \in AzurePackets \ {p} PROVE WorkerHolds(q)' /\ PublisherHolds(q)' /\ RemoteHolds(q)'
  BY <1>1, <1>5, Elsewhere
<1>9. Disjoint'
  BY <1>1, DisjointKept
<1> QED BY <1>4, <1>6, <1>7, <1>8, <1>9 DEF AzureInv

\* Authority comes and goes, or nothing happens.
LEMMA OthersKeep ==
  ASSUME AzureInv, UNCHANGED <<scope, claims, head, executor, publisher, remote, sent, past>>, authorized' \in BOOLEAN
  PROVE  AzureInv'
<1>1. AzureTypes'
  BY DEF AzureInv, AzureTypes
<1>2. ASSUME NEW q \in AzurePackets PROVE WorkerHolds(q)' /\ PublisherHolds(q)' /\ RemoteHolds(q)'
  BY Elsewhere
<1>3. Disjoint'
  BY DisjointKept
<1> QED BY <1>1, <1>2, <1>3 DEF AzureInv
-----------------------------------------------------------------------------
(* The theorems.                                                            *)

\* At the start nothing is claimed, committed, published or on its way.
LEMMA AzureStarts == AzureInit => AzureInv
<1> SUFFICES ASSUME AzureInit PROVE AzureInv
  OBVIOUS
<1>1. 0 \in 0..MaxCommits /\ 0 <= 0
  BY WorkerBounds
<1>2. NoClaim \in ClaimType /\ NoWorker \in WorkerType /\ NoPublisher \in PublisherType
      /\ [branch |-> 0, prs |-> {}] \in RemoteType
  BY <1>1, NobodyPublishes DEF NoClaim, ClaimType, NoWorker, WorkerType, WorkerPcs, RemoteType
<1>3. past \in PastType
  BY DEF AzureInit, PastType
<1>4. AzureTypes
  BY <1>1, <1>2, <1>3 DEF AzureInit, AzureTypes
<1>5. ASSUME NEW p \in AzurePackets
      PROVE  /\ claims[p] = NoClaim /\ head[p] = 0 /\ executor[p] = NoWorker /\ publisher[p] = NoPublisher
             /\ remote[p] = [branch |-> 0, prs |-> {}] /\ past.pushes[p] = 0 /\ past.posts[p] = 0 /\ sent = {}
  BY DEF AzureInit
<1>6. ASSUME NEW p \in AzurePackets PROVE WorkerHolds(p)
  <2>1. claims[p].state = "none" /\ executor[p].pc = "none" /\ executor[p].candidate = 0 /\ head[p] = 0
    BY <1>5 DEF NoClaim, NoWorker
  <2> QED BY <1>1, <2>1 DEF WorkerHolds
<1>7. ASSUME NEW p \in AzurePackets PROVE PublisherHolds(p)
  <2>1. /\ claims[p].state = "none" /\ publisher[p].pc = "idle" /\ past.pushes[p] = 0 /\ past.posts[p] = 0
        /\ ~claims[p].branch_write_attempted /\ ~claims[p].pr_write_attempted
    BY <1>5 DEF NoClaim, NoPublisher
  <2>2. WritesHold(claims[p], publisher[p], past.pushes[p], past.posts[p])
    BY <2>1 DEF WritesHold
  <2> QED BY <2>1, <2>2 DEF PublisherHolds, Publishable
<1>8. ASSUME NEW p \in AzurePackets PROVE RemoteHolds(p)
  <2>1. /\ remote[p].prs = {} /\ remote[p].branch = 0 /\ sent = {}
        /\ publisher[p].pc = "idle" /\ claims[p].state = "none"
    BY <1>5 DEF NoClaim, NoPublisher
  <2>2. IsFiniteSet(remote[p].prs)
    BY <2>1, FS_EmptySet
  <2> QED BY <2>1, <2>2 DEF RemoteHolds
<1>9. Disjoint
  BY <1>5 DEF Disjoint, NoClaim
<1> QED BY <1>4, <1>6, <1>7, <1>8, <1>9 DEF AzureInv

\* Every step keeps the invariant.
LEMMA AzureSteps == AzureInv /\ [AzureNext]_azureVars => AzureInv'
<1> SUFFICES ASSUME AzureInv, [AzureNext]_azureVars PROVE AzureInv'
  OBVIOUS
<1>1. ASSUME NEW p \in AzurePackets, Execute(p) PROVE AzureInv'
  BY <1>1, ClaimKeeps, StartKeeps, LaunchKeeps, AnswersKeeps, PickKeeps, AcceptKeeps, FinishKeeps, BlocksKeeps
     DEF Execute
<1>2. ASSUME NEW p \in AzurePackets, Publish(p) PROVE AzureInv'
  BY <1>2, PublishStartKeeps, ReadPrsKeeps, ReadRefsKeeps, ReconcileKeeps, DecideKeeps, IntendPushKeeps,
     PushKeeps, ConfirmKeeps, IntendPostKeeps, PostKeeps, GivesKeeps DEF Publish
<1>3. ASSUME NEW p \in AzurePackets, Commit(p) \/ Close(p) \/ Edit(p) \/ Die(p) PROVE AzureInv'
  BY <1>3, CommitKeeps, CloseKeeps, EditKeeps, DieKeeps
<1>4. ASSUME NEW r \in sent, Take(r) \/ Drop(r) PROVE AzureInv'
  BY <1>4, TakeKeeps, DropKeeps
<1>5. CASE Withdraw \/ UNCHANGED azureVars
  <2>1. authorized \in BOOLEAN
    BY DEF AzureInv, AzureTypes
  <2>2. UNCHANGED <<scope, claims, head, executor, publisher, remote, sent, past>> /\ authorized' \in BOOLEAN
    BY <1>5, <2>1 DEF Withdraw, azureVars
  <2> QED BY <2>2, OthersKeep
<1> QED BY <1>1, <1>2, <1>3, <1>4, <1>5 DEF AzureNext

\* In every state of a run the invariant holds.
THEOREM AzureInvariant == AzureSpec => []AzureInv
<1> QED BY AzureStarts, AzureSteps, PTL DEF AzureSpec

\* Pushed once, asked for once, and only as accepted and reviewed: publish and
\* execute through every interleaving with commits, deaths and late requests.
THEOREM PublishedOnce == AzureSpec => []PublishedOnceAsReviewed
<1>1. AzureInv => PublishedOnceAsReviewed
  <2> SUFFICES ASSUME AzureInv PROVE PublishedOnceAsReviewed
    OBVIOUS
  <2>1. AzureTypes /\ \A p \in AzurePackets : WorkerHolds(p) /\ PublisherHolds(p) /\ RemoteHolds(p)
    BY DEF AzureInv
  <2>2. AzureTypeOK
    <3>1. ASSUME NEW p \in AzurePackets, claims[p].state \in Publishable PROVE claims[p].candidate > 0
      BY <2>1, <3>1 DEF PublisherHolds, Certified
    <3>2. ASSUME NEW p \in AzurePackets
          PROVE  /\ publisher[p].pc \in {"idle", "prs", "refs", "decide", "intend_push", "push", "intend_post", "post"}
                 /\ publisher[p].stage \in {"first", "pushed", "posted"}
                 /\ remote[p].branch \in 0..MaxCommits /\ remote[p].prs \subseteq PrType
      BY <2>1 DEF AzureTypes, PublisherType, PublisherPcs, RemoteType
    <3>3. executor \in [AzurePackets -> [pc : WorkerRoles \cup {"none", "start", "pick", "accept", "pick_again", "accept_again", "finish", "done"},
                                       candidate : 0..MaxCommits, launched : BOOLEAN]]
      BY <2>1 DEF AzureTypes, WorkerType, WorkerPcs
    <3> QED BY <2>1, <3>1, <3>2, <3>3 DEF AzureTypeOK, AzureTypes
  <2>3. ASSUME NEW p \in AzurePackets PROVE past.pushes[p] <= 1 /\ past.posts[p] <= 1
    <3>1. past.pushes[p] \in {0, 1} /\ past.posts[p] \in {0, 1}
      BY <2>1 DEF PublisherHolds, WritesHold
    <3> QED BY <3>1
  <2>4. ASSUME NEW p \in AzurePackets
        PROVE  LET out == {remote[p].branch} \cup {r.candidate : r \in remote[p].prs} \cup {r.candidate : r \in {t \in sent : t.packet = p}}
               IN  /\ \A c \in out \ {0} : <<p, c>> \in past.accepted \cap past.passed
                   /\ claims[p].state = "pr_open" => \E r \in remote[p].prs : r.candidate = claims[p].candidate
    <3>1. RemoteHolds(p)
      BY <2>1
    <3> QED BY <3>1 DEF RemoteHolds, Certified
  <2> QED BY <2>2, <2>3, <2>4 DEF PublishedOnceAsReviewed
<1> QED BY <1>1, AzureInvariant, PTL

\* Claimed packets share no path: what _scopes_overlap keeps apart at the claim
\* stays apart under path_allowed, whatever globs the scopes have.
THEOREM ClaimedApart == AzureSpec => []ClaimsShareNoPath
<1>1. AzureInv => ClaimsShareNoPath
  <2> SUFFICES ASSUME AzureInv, NEW p \in AzurePackets, NEW q \in AzurePackets, p # q,
                      claims[p].state # "none", claims[q].state # "none", NEW path \in FilePaths
               PROVE  ~(PathAllowed(path, scope[p]) /\ PathAllowed(path, scope[q]))
    BY DEF ClaimsShareNoPath
  <2>1. scope[p] \in ScopeChoices /\ scope[q] \in ScopeChoices /\ ~ScopesOverlap(scope[p], scope[q])
    BY DEF AzureInv, AzureTypes, Disjoint
  <2> QED BY <2>1, DisjointScopes
<1> QED BY <1>1, AzureInvariant, PTL
==============================================================================
