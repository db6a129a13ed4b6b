--------------------------- MODULE MCInstallUpdate ---------------------------
(***************************************************************************)
(* The instance of the installer and the updater that TLC checks.          *)
(***************************************************************************)
EXTENDS InstallUpdate, TLC

\* Configurations are told apart and no more.
Symmetry == Permutations(Confs)
=============================================================================
