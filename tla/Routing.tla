------------------------------- MODULE Routing -------------------------------
(***************************************************************************)
(* decide_route of atlas_routing.py: which model profile a step gets, from *)
(* an intake and up to three observations of it (assessment, independent   *)
(* challenge, one reassessment).  Profiles are 0 clerical, 1 routine,      *)
(* 2 complex, 3 sensitive; risk and uncertainty 0 low, 1 medium, 2 high.   *)
(* An intake carries: kind of step, risk floor of its paths, whether its   *)
(* evidence is fresh and complete, its call budget and the calls used      *)
(* before it, whether policy or the sample asks for a challenge, whether a *)
(* human gate is pending, and its last attempt.                            *)
(***************************************************************************)
EXTENDS Integers, FiniteSets, SequencesExt

WorkerCalls == 5  \* planning, implementation, review, and one repair with its review

Apart(x, y) == x - y > 1 \/ y - x > 1

\* The assessment and the challenge disagree materially.
Disagree(obs) == /\ Len(obs) >= 2
                 /\ \/ obs[1].kind # obs[2].kind
                    \/ Apart(obs[1].risk, obs[2].risk)
                    \/ Apart(obs[1].uncertainty, obs[2].uncertainty)

\* The reassessment corroborates one of the two.
Resolved(obs) == /\ Len(obs) = 3
                 /\ \E i \in 1..2 : /\ obs[3].kind = obs[i].kind
                                    /\ obs[3].risk = obs[i].risk
                                    /\ obs[3].uncertainty = obs[i].uncertainty

\* The observations the profile is computed from.
Counted(obs) == IF Resolved(obs) THEN {obs[3]} ELSE {obs[i] : i \in DOMAIN obs \cap 1..2}

Challenged(intake, obs) ==
  /\ obs # << >>
  /\ \/ intake.challenge \/ intake.floor = 3
     \/ obs[1].risk # 0 \/ obs[1].uncertainty # 0 \/ obs[1].verification # "strong"

Awaits(intake, obs) ==
  CASE obs = << >>                                     -> "assessment"
    [] Challenged(intake, obs) /\ Len(obs) = 1         -> "challenge"
    [] Disagree(obs) /\ Len(obs) = 2                   -> "reassessment"
    [] OTHER                                           -> "nothing"

\* What stops every further call.
EarlyBlockers(intake) == ~intake.fresh \/ intake.used >= intake.maxCalls

\* Mutant of ObservedBlockers: the challenge's own doubts are not read.
ObservedBlockersOfFirst(intake, obs) ==
  \/ Len(obs) = 3 /\ ~Resolved(obs)
  \/ obs[1].gap \/ (obs[1].verification = "human" /\ ~intake.gated)
  \/ \E o \in Counted(obs) : o.kind # intake.kind

\* A reassessment that settled nothing, a gap or a missing gate anybody named,
\* another kind of work than the step's.
ObservedBlockers(intake, obs) ==
  \/ Len(obs) = 3 /\ ~Resolved(obs)
  \/ \E o \in Range(obs) : o.gap \/ (o.verification = "human" /\ ~intake.gated)
  \/ \E o \in Counted(obs) : o.kind # intake.kind

Least(S) == CHOOSE x \in S : \A y \in S : x <= y
Greatest(S) == CHOOSE x \in S : \A y \in S : x >= y

\* The cheapest suggestion that the floors admit.
EvidenceProfile(intake, obs) ==
  LET seen == Counted(obs)
      evidence == IF \E o \in seen : o.risk = 2 THEN 3
                  ELSE IF \E o \in seen : o.risk = 1 \/ o.uncertainty # 0 \/ o.verification = "weak" THEN 2
                  ELSE 0
  IN  Greatest({intake.floor, evidence, Least({o.suggested : o \in seen})})

\* The last attempt must be a verified failure of code or review, and not of the
\* strongest profile.
AttemptBlocks(intake) ==
  intake.attempt # {} /\ \E a \in intake.attempt : ~a.verified \/ a.outcome # "failure" \/ a.profile = 3

Profile(intake, obs) ==
  Greatest({EvidenceProfile(intake, obs)} \cup {a.profile + 1 : a \in {b \in intake.attempt : b.profile < 3}})

\* The calls made for this intake, those still to come, and the worker's.
RequiredCalls(intake, obs) ==
  Len(obs) + WorkerCalls + (IF obs = << >> THEN 2 ELSE IF Awaits(intake, obs) # "nothing" THEN 1 ELSE 0)

Unfunded(intake, obs) == intake.used + RequiredCalls(intake, obs) > intake.maxCalls

Blocked(intake, obs) ==
  \/ EarlyBlockers(intake) \/ AttemptBlocks(intake) \/ Unfunded(intake, obs)
  \/ obs # << >> /\ ObservedBlockers(intake, obs)

\* The next model call the dispatcher makes, if any.
NextCall(intake, obs) == IF Blocked(intake, obs) THEN "nothing" ELSE Awaits(intake, obs)

RouteReady(intake, obs) == obs # << >> /\ ~Blocked(intake, obs) /\ Awaits(intake, obs) = "nothing"
=============================================================================
