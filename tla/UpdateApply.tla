----------------------------- MODULE UpdateApply -----------------------------
(***************************************************************************)
(* panel-updater (internal/update/apply.go, cmd/panel-updater/main.go):    *)
(* the journaled switch of the installed files to a new release, its roll- *)
(* back, and the recovery of a switch that a crash or an error cut short.  *)
(* Every command holds the lock of the install root, which the kernel      *)
(* releases when the process dies, so one command runs at a time.          *)
(*                                                                         *)
(* A release is a number, and the content of a file is the release it came *)
(* with.  Installs replace every target; the apply command replaces the    *)
(* binaries.  current-release exists, as the installer wrote it.  How      *)
(* downloads and signature checks fail, and the status file, are left out. *)
(***************************************************************************)
EXTENDS Integers

CONSTANTS Runtime,    \* targets that a rollback restores
          Schema,     \* targets under share/migrations, which it keeps
          MaxRelease  \* bound: releases

ASSUME UpdateAssumption ==
    /\ Runtime \cap Schema = {} /\ "meta" \notin Runtime /\ "current" \notin Runtime
    /\ MaxRelease \in Nat \ {0}

Targets == Runtime \cup Schema
Absent == 0
RolledBack == -1        \* the marker that rollbackLegacyLocked writes
Releases == 1..MaxRelease
Contents == {Absent} \cup Releases
Markers == {RolledBack} \cup Releases

VARIABLES files,     \* the installed targets
          current,   \* current-release
          journal,   \* .update-transaction
          saved,     \* the rollback directory of the apply command
          services,  \* the files the services were last restarted with
          proc,      \* the command that runs
          good, prev,  \* history: the last settled install, and the one before
          byHand,    \* history: files changed since the services were restarted
          legacy     \* history: a rollback without a journal changed the install

history == <<good, prev, byHand, legacy>>
updateVars == <<files, current, journal, saved, services, proc, history>>

\* items are what the directory holds: metadata.json, current-release and a
\* copy of each runtime target that existed.
Journal == [exists : BOOLEAN, items : SUBSET (Runtime \cup {"meta", "current"}),
            state : {"prepared", "applying", "activated", "committed", "rolling-back"},
            covered : SUBSET Targets, had : SUBSET Targets,
            copies : [Runtime -> Contents], current : Markers]
Commands == {"install", "check", "apply", "rollback"}
Steps == {"idle", "recover", "download", "clearSaved", "save", "begin", "snapshot",
          "prepare", "applying", "rename", "activate", "mark", "activated", "commit",
          "markRollback", "restore", "reactivate", "cleanup", "legacy"}
Reasons == {"recovery", "failed", "aborted", "rollback", "done"}
Install == [files : [Runtime -> Contents], current : Markers]

UpdateTypeOK ==
    /\ files \in [Targets -> Contents]
    /\ current \in Markers
    /\ journal \in Journal
    /\ saved \in [made : BOOLEAN, files : [Runtime -> Contents]]
    /\ services \in [Runtime -> Contents]
    /\ proc \in [cmd : Commands, pc : Steps, release : Releases,
                 todo : SUBSET Targets, why : Reasons]
    /\ good \in Install /\ prev \in Install
    /\ byHand \in BOOLEAN /\ legacy \in BOOLEAN

RuntimeFiles == [t \in Runtime |-> files[t]]
NoJournal == [exists |-> FALSE, items |-> {}, state |-> "prepared", covered |-> {},
              had |-> {}, copies |-> [t \in Runtime |-> Absent], current |-> 1]
IdleProc == [cmd |-> "check", pc |-> "idle", release |-> 1, todo |-> {}, why |-> "done"]

\* Release 1 is installed and runs; some targets came with no release yet.
UpdateInit ==
    /\ files \in [Targets -> {Absent, 1}]
    /\ current = 1
    /\ journal = NoJournal
    /\ saved = [made |-> FALSE, files |-> [t \in Runtime |-> Absent]]
    /\ services = RuntimeFiles
    /\ proc = IdleProc
    /\ good = [files |-> RuntimeFiles, current |-> 1] /\ prev = good
    /\ byHand = FALSE /\ legacy = FALSE

-----------------------------------------------------------------------------
At(pc) == proc.pc = pc
Goto(pc) == proc' = [proc EXCEPT !.pc = pc]
GotoWith(pc, todo) == proc' = [proc EXCEPT !.pc = pc, !.todo = todo]
GotoFor(pc, why) == proc' = [proc EXCEPT !.pc = pc, !.why = why]
Stop == proc' = IdleProc
Did(t) == proc' = [proc EXCEPT !.todo = @ \ {t}]
Remote == proc.cmd \in {"install", "check"}
Covered == IF Remote THEN Targets ELSE Runtime

Saved == {t \in Runtime : saved.files[t] # Absent}

\* install, check and apply take the lock and recover first.
StartCommand(cmd, release) ==
    /\ At("idle")
    /\ proc' = [cmd |-> cmd, release |-> release, pc |-> "recover", todo |-> {},
                why |-> "recovery"]
    /\ byHand' = (byHand \/ cmd = "apply")
    /\ UNCHANGED <<files, current, journal, saved, services, good, prev, legacy>>

\* rollback takes the lock and works on the journal or, when there is none, on
\* the rollback directory, without which it fails.
StartRollback ==
    /\ At("idle")
    /\ journal.exists \/ saved.made
    /\ proc' = [cmd |-> "rollback", release |-> 1,
                pc |-> IF journal.exists THEN "markRollback" ELSE "legacy",
                todo |-> IF journal.exists THEN {} ELSE Saved, why |-> "rollback"]
    /\ byHand' = TRUE
    /\ legacy' = (legacy \/ ~journal.exists)
    /\ UNCHANGED <<files, current, journal, saved, services, good, prev>>

\* What follows the recovery, and what follows a cleanup.
Proceed ==
    CASE proc.cmd = "install" -> Goto("download")
      [] proc.cmd = "apply" -> Goto("clearSaved")
      [] OTHER -> Stop

\* recoverInterruptedTransaction.
Recover ==
    /\ At("recover")
    /\ CASE ~journal.exists -> Proceed
         [] journal.exists /\ ("meta" \notin journal.items \/ journal.state = "committed")
              -> Goto("cleanup")
         [] OTHER -> Goto("markRollback")
    /\ UNCHANGED <<files, current, journal, saved, services, history>>

\* fetchManifest, validateManifest, downloadArtifacts: the marker must be a
\* version, and the release a newer one.
Download ==
    /\ At("download")
    /\ IF current \in Releases /\ proc.release > current THEN Goto("begin") ELSE Stop
    /\ UNCHANGED <<files, current, journal, saved, services, history>>

\* applyLegacyLocked makes the rollback directory anew.
DropSaved(t) ==
    /\ At("clearSaved")
    /\ t \in Saved
    /\ saved' = [saved EXCEPT !.files[t] = Absent]
    /\ UNCHANGED <<files, current, journal, services, proc, history>>

MakeSaved ==
    /\ At("clearSaved") /\ Saved = {}
    /\ saved' = [saved EXCEPT !.made = TRUE]
    /\ GotoWith("save", Runtime)
    /\ UNCHANGED <<files, current, journal, services, history>>

SaveBinary(t) ==
    /\ At("save")
    /\ t \in proc.todo
    /\ saved' = [saved EXCEPT !.files[t] = files[t]]
    /\ proc' = [proc EXCEPT !.todo = @ \ {t}, !.pc = IF proc.todo = {t} THEN "begin" ELSE @]
    /\ UNCHANGED <<files, current, journal, services, history>>

-----------------------------------------------------------------------------
(* The transaction.                                                        *)

OpenJournal(copied) ==
    /\ At("begin")
    /\ LET had == {t \in Covered : files[t] # Absent}
       IN  /\ journal' = [NoJournal EXCEPT !.exists = TRUE, !.covered = Covered, !.had = had]
           /\ GotoWith("snapshot", had \cap copied)
    /\ prev' = [files |-> RuntimeFiles, current |-> current]
    /\ UNCHANGED <<files, current, saved, services, good, byHand, legacy>>

\* beginTransaction: the copies, then the marker, then the metadata.
BeginTransaction == OpenJournal(Runtime)

Snapshot(t) ==
    /\ At("snapshot")
    /\ t \in proc.todo
    /\ journal' = [journal EXCEPT !.items = @ \cup {t}, !.copies[t] = files[t]]
    /\ Did(t)
    /\ UNCHANGED <<files, current, saved, services, history>>

SnapshotCurrent ==
    /\ At("snapshot") /\ proc.todo = {}
    /\ journal' = [journal EXCEPT !.items = @ \cup {"current"}, !.current = current]
    /\ Goto("prepare")
    /\ UNCHANGED <<files, current, saved, services, history>>

\* Mutant: the metadata is written before the copies are made.
WriteMetadataEarly(pc, state, next) ==
    /\ At(pc) \/ (pc = "prepare" /\ At("snapshot"))
    /\ journal' = [journal EXCEPT !.items = @ \cup {"meta"}, !.state = state]
    /\ Goto(IF At(pc) THEN next ELSE "snapshot")
    /\ UNCHANGED <<files, current, saved, services, history>>

\* writeTransactionMetadata.
WriteMetadata(pc, state, next) ==
    /\ At(pc)
    /\ journal' = [journal EXCEPT !.items = @ \cup {"meta"}, !.state = state]
    /\ Goto(next)
    /\ UNCHANGED <<files, current, saved, services, history>>

StartSwitch ==
    /\ At("applying")
    /\ journal' = [journal EXCEPT !.state = "applying"]
    /\ GotoWith("rename", journal.covered)
    /\ UNCHANGED <<files, current, saved, services, history>>

\* installStagedArtifacts.
InstallArtifact(t) ==
    /\ At("rename")
    /\ t \in proc.todo
    /\ files' = [files EXCEPT ![t] = proc.release]
    /\ proc' = [proc EXCEPT !.todo = @ \ {t},
                            !.pc = IF proc.todo # {t} THEN @
                                   ELSE IF Remote THEN "activate" ELSE "mark"]
    /\ UNCHANGED <<current, journal, saved, services, history>>

\* runActivationAndHealthChecks: restart, then the checks.
Restarted ==
    /\ services' = RuntimeFiles
    /\ byHand' = FALSE
    /\ UNCHANGED <<good, prev, legacy>>

Activate ==
    /\ At("activate")
    /\ Restarted
    /\ Goto("mark") \/ GotoFor("markRollback", "failed")
    /\ UNCHANGED <<files, current, journal, saved>>

MarkRelease ==
    /\ At("mark")
    /\ current' = proc.release
    /\ Goto(IF Remote THEN "activated" ELSE "commit")
    /\ UNCHANGED <<files, journal, saved, services, history>>

\* The metadata says committed: from here on the new release stays.
Commit ==
    /\ At("commit")
    /\ journal' = [journal EXCEPT !.state = "committed"]
    /\ GotoFor("cleanup", "done")
    /\ good' = [files |-> [t \in Runtime |-> proc.release], current |-> proc.release]
    /\ legacy' = FALSE
    /\ UNCHANGED <<files, current, saved, services, prev, byHand>>

-----------------------------------------------------------------------------
(* Rollback, whoever asks for it.                                          *)

\* rollbackTransaction fails without metadata.
MarkRollback ==
    /\ At("markRollback")
    /\ \/ /\ "meta" \in journal.items
          /\ journal' = [journal EXCEPT !.state = "rolling-back"]
          /\ GotoWith("restore", journal.covered \cap Runtime)
          /\ good' = prev
          /\ UNCHANGED <<prev, byHand, legacy>>
       \/ /\ "meta" \notin journal.items
          /\ Stop
          /\ UNCHANGED <<journal, history>>
    /\ UNCHANGED <<files, current, saved, services>>

RestoreTarget(t, added) ==
    /\ At("restore")
    /\ t \in proc.todo
    /\ \/ /\ t \in journal.had => t \in journal.items
          /\ files' = [files EXCEPT ![t] = IF t \in journal.had THEN journal.copies[t] ELSE added]
          /\ Did(t)
       \/ t \in journal.had \ journal.items /\ Stop /\ UNCHANGED files
    /\ UNCHANGED <<current, journal, saved, services, history>>

\* Mutant: a file that the new release added stays.
RestoreKeepsAdded(t) == RestoreTarget(t, files[t])

\* A copy that is gone stops the rollback; an added file is removed.
Restore(t) == RestoreTarget(t, Absent)

RestoreCurrentThen(next) ==
    /\ At("restore") /\ proc.todo = {}
    /\ \/ /\ "current" \in journal.items
          /\ current' = journal.current
          /\ Goto(next)
       \/ "current" \notin journal.items /\ Stop /\ UNCHANGED current
    /\ UNCHANGED <<files, journal, saved, services, history>>

\* Mutant: a recovery does not restart the services.
RestoreCurrentOnly == RestoreCurrentThen("cleanup")

RestoreCurrent == RestoreCurrentThen(IF Remote THEN "reactivate" ELSE "cleanup")

Reactivate ==
    /\ At("reactivate")
    /\ Restarted
    /\ Goto("cleanup") \/ Stop
    /\ UNCHANGED <<files, current, journal, saved>>

\* cleanupTransaction: removeTree takes the entries in any order.
RemoveItem(item) ==
    /\ At("cleanup")
    /\ item \in journal.items
    /\ journal' = [journal EXCEPT !.items = @ \ {item}]
    /\ UNCHANGED <<files, current, saved, services, proc, history>>

RemoveJournal ==
    /\ At("cleanup") /\ journal.items = {}
    /\ journal' = NoJournal
    /\ IF proc.why = "recovery" THEN Proceed ELSE Stop
    /\ UNCHANGED <<files, current, saved, services, history>>

\* rollbackLegacyLocked: no journal protects it.
RestoreLegacy(t) ==
    /\ At("legacy")
    /\ t \in proc.todo
    /\ files' = [files EXCEPT ![t] = saved.files[t]]
    /\ Did(t)
    /\ UNCHANGED <<current, journal, saved, services, history>>

FinishLegacy ==
    /\ At("legacy") /\ proc.todo = {}
    /\ current' = RolledBack
    /\ Stop
    /\ UNCHANGED <<files, journal, saved, services, history>>

-----------------------------------------------------------------------------
\* A step of the running command fails: before the switch the transaction is
\* abandoned, in the switch it is rolled back, else the command ends.
StepFails ==
    /\ ~At("idle")
    /\ CASE proc.pc \in {"begin", "snapshot", "prepare"} -> GotoFor("cleanup", "aborted")
         [] proc.pc \in {"applying", "rename", "activate", "mark", "activated", "commit"}
              -> GotoFor("markRollback", "failed")
         [] OTHER -> Stop
    /\ UNCHANGED <<files, current, journal, saved, services, history>>

\* The process dies and with it its lock.
Crash ==
    /\ ~At("idle")
    /\ Stop
    /\ UNCHANGED <<files, current, journal, saved, services, history>>

UpdateNext ==
    \/ StartCommand("check", 1) \/ StartRollback
    \/ \E cmd \in {"install", "apply"}, release \in Releases : StartCommand(cmd, release)
    \/ Recover \/ Download \/ MakeSaved
    \/ BeginTransaction \/ SnapshotCurrent \/ StartSwitch
    \/ WriteMetadata("prepare", "prepared", "applying")
    \/ WriteMetadata("activated", "activated", "commit")
    \/ \E t \in Targets : \/ DropSaved(t) \/ SaveBinary(t) \/ Snapshot(t)
                          \/ InstallArtifact(t) \/ Restore(t) \/ RestoreLegacy(t)
    \/ Activate \/ MarkRelease \/ Commit
    \/ MarkRollback \/ RestoreCurrent \/ Reactivate \/ FinishLegacy
    \/ \E item \in Runtime \cup {"meta", "current"} : RemoveItem(item)
    \/ RemoveJournal
    \/ StepFails \/ Crash

UpdateSpec == UpdateInit /\ [][UpdateNext]_updateVars

-----------------------------------------------------------------------------
(* Properties.                                                             *)

Settled == At("idle") /\ ~journal.exists
Whole == RuntimeFiles = good.files /\ current = good.current

\* When no command runs and no journal is left, the installed files and the
\* release marker are those of one release, the new or the old one, wherever
\* commands failed or died before (unless a rollback went without a journal).
NoMixedInstall == Settled /\ ~legacy => Whole

\* Until the new release is committed or the old one is restored, the journal
\* holds everything that a rollback needs.
RollbackMaterialKept ==
    (/\ journal.exists /\ "meta" \in journal.items
     /\ journal.state \in {"prepared", "applying", "activated"}) =>
        /\ "current" \in journal.items /\ journal.current = prev.current
        /\ \A t \in journal.covered \cap Runtime :
              IF t \in journal.had
              THEN t \in journal.items /\ journal.copies[t] = prev.files[t]
              ELSE prev.files[t] = Absent

\* The services run what is installed once a remote command has settled an
\* update, however often it was interrupted and rolled back.
ServicesRunInstalled == Settled /\ ~byHand => services = RuntimeFiles
=============================================================================
