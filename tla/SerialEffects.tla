---------------------------- MODULE SerialEffects ----------------------------
(***************************************************************************)
(* What a resumable writer to a remote service promises: the numbered      *)
(* steps of a packet take effect in order and each at most once, however   *)
(* often the writer is killed, restarted or left without an answer.  A     *)
(* step may be skipped, when somebody else brought its effect about.       *)
(***************************************************************************)
EXTENDS Naturals, Sequences

CONSTANTS Packets, Steps
VARIABLE effects  \* per packet, the steps that took effect, oldest first

Init == effects = [p \in Packets |-> << >>]

Next == \E p \in Packets, k \in Steps :
          /\ \A i \in DOMAIN effects[p] : effects[p][i] < k
          /\ effects' = [effects EXCEPT ![p] = Append(@, k)]

Spec == Init /\ [][Next]_effects
=============================================================================
