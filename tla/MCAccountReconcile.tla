------------------------- MODULE MCAccountReconcile -------------------------
(* Instances of AccountReconcile for TLC.                                  *)
EXTENDS AccountReconcile, TLC

CONSTANTS c1, c2

Symmetry == Permutations(Clients)
=============================================================================
