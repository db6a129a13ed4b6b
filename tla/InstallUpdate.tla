---------------------------- MODULE InstallUpdate ----------------------------
(***************************************************************************)
(* The two programs that change the server itself and that root starts,    *)
(* the installer and the updater.  Their models share no state, so a       *)
(* behaviour is one of a single program and the other rests in an initial  *)
(* state: the states are the sum of the two and not their product.         *)
(***************************************************************************)
EXTENDS Installer, UpdateApply

VARIABLE program  \* the program this behaviour is about

ProgramInit ==
    /\ Init
    /\ UpdateInit
    /\ \/ program = "panel-install" /\ files = [t \in Targets |-> 1]
       \/ program = "panel-updater" /\ quota

InstallStep ==
    program = "panel-install" /\ Next /\ UNCHANGED <<program, updateVars>>
UpdateStep ==
    program = "panel-updater" /\ UpdateNext /\ UNCHANGED <<program, vars>>

ProgramNext == InstallStep \/ UpdateStep

ProgramSpec == ProgramInit /\ [][ProgramNext]_<<program, updateVars, vars>>

-----------------------------------------------------------------------------
\* The state file, the host and the run of the installer, and the files, the
\* journal and the command of the updater keep the shape their types give them.
ProgramTypeOK == TypeOK /\ UpdateTypeOK

\* A secret has one value in all its places after an installation that succeeds:
\* the API key in PowerDNS and the panel, the administrator's password in
\* Director and in what is printed, but for a lost file and a skipped phase
\* (internal/credentials, Ensure; cmd/panel-install, main).
SecretsAgree == KeysAgree /\ PrintedPasswordWorks
=============================================================================
