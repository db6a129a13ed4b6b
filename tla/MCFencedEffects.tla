-------------------------- MODULE MCFencedEffects --------------------------
(* Instances of FencedEffects for TLC.                                     *)
EXTENDS FencedEffects, TLC

CONSTANTS w1, w2, j1, j2, host1

MCNameOf == [w \in Workers |-> host1]
MCResources == {"account"}
MCResourceOf == [j \in Jobs |-> "account"]
SamePriority == [j \in Jobs |-> 5]

Symmetry == Permutations(Workers) \cup Permutations(Jobs)
=============================================================================
