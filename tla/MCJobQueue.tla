----------------------------- MODULE MCJobQueue -----------------------------
(* Instances of JobQueue for TLC.                                          *)
EXTENDS JobQueue, TLC

CONSTANTS w1, w2, j1, j2, j3, host

\* Two worker processes on one host share its name.
MCNameOf == [w \in Workers |-> host]

\* All jobs are about one resource, the case the fences are for.
MCResources == {"account"}
MCResourceOf == [j \in Jobs |-> "account"]

SamePriority == [j \in Jobs |-> 5]
FirstIsUrgent == [j \in Jobs |-> IF j = j1 THEN 1 ELSE 5]

Symmetry == Permutations(Workers) \cup Permutations(Jobs)
=============================================================================
