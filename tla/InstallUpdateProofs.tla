------------------------- MODULE InstallUpdateProofs -------------------------
(***************************************************************************)
(* Proofs about the updater and the installer: for any set of files and    *)
(* any number of releases, configurations, passwords, runs, failures,      *)
(* crashes and losses.                                                     *)
(***************************************************************************)
EXTENDS InstallUpdate, TLAPS

-----------------------------------------------------------------------------
(* The updater.                                                            *)

\* The install is what it was when the transaction began.
AsBefore == RuntimeFiles = prev.files /\ current = prev.current

\* The journal holds the marker and a copy of every file that was there.
Recoverable == "current" \in journal.items /\ Runtime \cap journal.had \subseteq journal.items

Proc == [cmd : Commands, pc : Steps, release : Releases, todo : SUBSET Targets,
         why : Reasons]

Open == {"prepared", "applying", "activated"}
Switching == {"applying", "rename", "activate", "mark", "activated", "commit"}

\* The journal is about the install before the transaction, and what it still
\* holds was copied from that.
JournalOfPrev ==
    /\ ~journal.exists => journal.items = {}
    /\ journal.exists =>
          /\ Runtime \subseteq journal.covered
          /\ \A t \in Runtime : t \in journal.had <=> prev.files[t] # Absent
          /\ \A t \in Runtime \cap journal.items : journal.copies[t] = prev.files[t]
          /\ "current" \in journal.items => journal.current = prev.current

\* A transaction that can be rolled back has its material.
MaterialKept == "meta" \in journal.items /\ journal.state \in Open => Recoverable

\* What each step of a command finds.
BeforeSwitch ==
    /\ proc.pc \in {"download", "clearSaved", "save", "begin", "legacy"} => ~journal.exists
    /\ proc.pc = "legacy" => legacy /\ proc.todo \subseteq Runtime
    /\ proc.pc \in {"snapshot", "prepare"} =>
          journal.exists /\ "meta" \notin journal.items /\ AsBefore
    /\ proc.pc = "snapshot" =>
          /\ proc.todo \subseteq Runtime
          /\ Runtime \cap journal.had \subseteq journal.items \cup proc.todo
    /\ proc.pc = "prepare" => Recoverable

InSwitch ==
    /\ proc.pc \in Switching =>
          journal.exists /\ "meta" \in journal.items /\ journal.state \in Open
    /\ proc.pc = "rename" => \A t \in Runtime \ proc.todo : files[t] = proc.release
    /\ proc.pc \in {"activate", "mark", "activated", "commit"} =>
          \A t \in Runtime : files[t] = proc.release
    /\ proc.pc \in {"activated", "commit"} => current = proc.release

InRollback ==
    /\ proc.pc = "markRollback" => journal.exists
    /\ proc.pc \in {"restore", "reactivate"} =>
          /\ journal.exists /\ "meta" \in journal.items
          /\ journal.state = "rolling-back" /\ good = prev
    /\ proc.pc = "restore" =>
          /\ proc.todo \subseteq Runtime
          /\ \A t \in Runtime \ proc.todo : files[t] = prev.files[t]
    /\ proc.pc = "reactivate" => AsBefore
    /\ proc.pc = "cleanup" =>
          "meta" \notin journal.items \/ journal.state \in {"committed", "rolling-back"}

\* The journal has no open transaction any more, or has none yet.
Closed == "meta" \notin journal.items \/ journal.state = "committed" \/ proc.pc = "cleanup"

\* Where no transaction is open the install is of one release.
WholeWhenClosed == ~legacy /\ (Closed \/ proc.pc = "reactivate") => Whole

\* Where no transaction is open, or the switch has got past the restart, the
\* services run what is installed; commands that do not restart them say so.
RestartsDone ==
    /\ proc.pc # "idle" /\ ~Remote => byHand
    /\ proc.pc \in {"activate", "activated", "reactivate"} => Remote
    /\ proc.pc = "legacy" => ~Remote
    /\ ~byHand /\ (Closed \/ proc.pc \in {"mark", "activated", "commit"}) =>
          services = RuntimeFiles

UpdateInv ==
    /\ UpdateTypeOK /\ JournalOfPrev /\ MaterialKept
    /\ BeforeSwitch /\ InSwitch /\ InRollback
    /\ WholeWhenClosed /\ RestartsDone
-----------------------------------------------------------------------------
LEMMA UpdateInitially == UpdateInit => UpdateInv
<1> SUFFICES ASSUME UpdateInit PROVE UpdateInv
  OBVIOUS
<1> USE UpdateAssumption
<1>1. UpdateTypeOK
  <2>1. RuntimeFiles \in [Runtime -> Contents] /\ files \in [Targets -> Contents]
    BY DEF UpdateInit, Targets, Contents, Releases, RuntimeFiles
  <2>2. current \in Markers /\ 1 \in Releases /\ journal \in Journal
    BY DEF UpdateInit, Contents, Releases, Markers, Journal, NoJournal
  <2>3. good \in Install /\ prev \in Install
    BY <2>1, <2>2 DEF UpdateInit, Install, Markers
  <2>4. proc \in [cmd : Commands, pc : Steps, release : Releases,
                 todo : SUBSET Targets, why : Reasons]
    BY <2>2 DEF UpdateInit, IdleProc, Commands, Steps, Reasons
  <2>5. saved \in [made : BOOLEAN, files : [Runtime -> Contents]]
    BY DEF UpdateInit, Contents
  <2> QED
    BY <2>1, <2>2, <2>3, <2>4, <2>5 DEF UpdateInit, UpdateTypeOK
<1>2. proc.pc = "idle" /\ ~journal.exists /\ journal.items = {} /\ Whole
      /\ services = RuntimeFiles
  BY DEF UpdateInit, NoJournal, IdleProc, Whole
<1> QED
  BY <1>1, <1>2 DEF UpdateInv, JournalOfPrev, MaterialKept, BeforeSwitch, InSwitch,
     InRollback, WholeWhenClosed, RestartsDone, Closed, Switching

LEMMA UpdateTypeStep == UpdateInv /\ [UpdateNext]_updateVars => UpdateTypeOK'
<1> SUFFICES ASSUME UpdateInv, [UpdateNext]_updateVars PROVE UpdateTypeOK'
  OBVIOUS
<1>t. UpdateTypeOK
  BY DEF UpdateInv
<1>r. RuntimeFiles \in [Runtime -> Contents] /\ IdleProc \in Proc
  BY UpdateAssumption, <1>t DEF UpdateTypeOK, Targets, Releases, RuntimeFiles, IdleProc,
     Proc, Commands, Steps, Reasons
<1>p. /\ \A pc \in Steps, todo \in SUBSET Targets :
            [proc EXCEPT !.pc = pc, !.todo = todo] \in Proc
      /\ \A pc \in Steps : [proc EXCEPT !.pc = pc] \in Proc
      /\ \A pc \in Steps, why \in Reasons : [proc EXCEPT !.pc = pc, !.why = why] \in Proc
  BY <1>t DEF UpdateTypeOK, Proc
<1>j. /\ NoJournal \in Journal
      /\ \A covered, had \in SUBSET Targets :
            [NoJournal EXCEPT !.exists = TRUE, !.covered = covered, !.had = had] \in Journal
  <2>1. 1 \in Markers /\ [t \in Runtime |-> Absent] \in [Runtime -> Contents]
    BY UpdateAssumption DEF Contents, Markers, Releases
  <2> QED
    BY <2>1 DEF NoJournal, Journal
<1> USE UpdateAssumption, <1>t DEF UpdateTypeOK, Targets, Contents, Releases, Markers,
        Journal, Install, history, At
<1>1. ASSUME NEW cmd \in {"install", "check", "apply"}, NEW release \in Releases,
             StartCommand(cmd, release)
      PROVE  UpdateTypeOK'
  BY <1>1 DEF StartCommand, Commands, Steps, Reasons
<1>2. CASE StartRollback
  BY <1>2 DEF StartRollback, Saved, Commands, Steps, Reasons
<1>3. CASE Recover
  BY <1>3 DEF Recover, Proceed, Stop, IdleProc, Goto, Commands, Steps, Reasons
<1>4. CASE Download
  BY <1>4 DEF Download, Stop, IdleProc, Goto, Commands, Steps, Reasons
<1>5. CASE MakeSaved
  BY <1>5 DEF MakeSaved, GotoWith, Commands, Steps, Reasons
<1>6. CASE BeginTransaction
  <2> DEFINE had == {t \in Covered : files[t] # Absent}
  <2>1. /\ journal' = [NoJournal EXCEPT !.exists = TRUE, !.covered = Covered, !.had = had]
        /\ proc' = [proc EXCEPT !.pc = "snapshot", !.todo = had \cap Runtime]
        /\ prev' = [files |-> RuntimeFiles, current |-> current]
        /\ UNCHANGED <<files, current, saved, services, good, byHand, legacy>>
    BY <1>6 DEF BeginTransaction, OpenJournal, GotoWith
  <2>2. Covered \subseteq Targets /\ had \subseteq Targets
    BY DEF Covered
  <2> HIDE DEF had
  <2>3. journal' \in Journal
    BY <2>1, <2>2, <1>j
  <2>4. prev' \in Install
    BY <2>1, <1>r
  <2>5. had \cap Runtime \in SUBSET Targets /\ "snapshot" \in Steps
    BY <2>2 DEF Steps
  <2>6. proc' \in Proc
    BY <2>1, <2>5, <1>p
  <2> QED
    BY <2>1, <2>3, <2>4, <2>6 DEF Proc
<1>7. CASE SnapshotCurrent
  BY <1>7 DEF SnapshotCurrent, Goto, Commands, Steps, Reasons
<1>8. CASE StartSwitch
  BY <1>8 DEF StartSwitch, GotoWith, Commands, Steps, Reasons
<1>9. ASSUME WriteMetadata("prepare", "prepared", "applying")
      PROVE  UpdateTypeOK'
  BY <1>9 DEF WriteMetadata, Goto, Commands, Steps, Reasons
<1>10. ASSUME WriteMetadata("activated", "activated", "commit")
      PROVE  UpdateTypeOK'
  BY <1>10 DEF WriteMetadata, Goto, Commands, Steps, Reasons
<1>11. ASSUME NEW t \in Targets, DropSaved(t)
      PROVE  UpdateTypeOK'
  BY <1>11 DEF DropSaved, Saved
<1>12. ASSUME NEW t \in Targets, SaveBinary(t)
      PROVE  UpdateTypeOK'
  <2>1. saved' \in [made : BOOLEAN, files : [Runtime -> Contents]]
    BY <1>12 DEF SaveBinary, Commands, Steps, Reasons
  <2> DEFINE next == IF proc.todo = {t} THEN "begin" ELSE proc.pc
  <2>p. next \in Steps
    BY DEF Steps
  <2>2. proc' = [proc EXCEPT !.pc = next, !.todo = proc.todo \ {t}]
    BY <1>12 DEF SaveBinary
  <2>3. proc' \in Proc
    BY <2>2, <2>p, <1>p
  <2> QED
    BY <1>12, <2>1, <2>3 DEF SaveBinary, Proc, Commands, Steps, Reasons
<1>13. ASSUME NEW t \in Targets, Snapshot(t)
      PROVE  UpdateTypeOK'
  <2>1. t \in Runtime
    BY <1>13 DEF Snapshot, UpdateInv, BeforeSwitch
  <2>2. /\ journal' = [journal EXCEPT !.items = @ \cup {t}, !.copies[t] = files[t]]
        /\ proc' = [proc EXCEPT !.todo = @ \ {t}]
        /\ UNCHANGED <<files, current, saved, services, history>>
    BY <1>13 DEF Snapshot, Did
  <2>3. journal' \in Journal
    BY <2>1, <2>2
  <2>4. proc' \in Proc
    BY <2>2 DEF Proc
  <2> QED
    BY <2>2, <2>3, <2>4 DEF Proc
<1>14. ASSUME NEW t \in Targets, InstallArtifact(t)
      PROVE  UpdateTypeOK'
  <2>1. files' \in [Targets -> Contents]
    BY <1>14 DEF InstallArtifact, Commands, Steps, Reasons
  <2> DEFINE next == IF proc.todo # {t} THEN proc.pc
                     ELSE IF Remote THEN "activate" ELSE "mark"
  <2>p. next \in Steps
    BY DEF Steps
  <2>2. proc' = [proc EXCEPT !.pc = next, !.todo = proc.todo \ {t}]
    BY <1>14 DEF InstallArtifact
  <2>3. proc' \in Proc
    BY <2>2, <2>p, <1>p
  <2> QED
    BY <1>14, <2>1, <2>3 DEF InstallArtifact, Proc, Commands, Steps, Reasons
<1>15. ASSUME NEW t \in Targets, Restore(t)
      PROVE  UpdateTypeOK'
  <2>1. UNCHANGED <<current, journal, saved, services, history>>
    BY <1>15 DEF Restore, RestoreTarget
  <2>2. proc' = IdleProc \/ proc' = [proc EXCEPT !.todo = @ \ {t}]
    BY <1>15 DEF Restore, RestoreTarget, Did, Stop
  <2>3. proc' \in Proc
    BY <2>2, <1>r DEF Proc
  <2>4. CASE UNCHANGED files
    BY <2>1, <2>3, <2>4 DEF Proc
  <2>5. CASE files' = [files EXCEPT ![t] = IF t \in journal.had THEN journal.copies[t]
                                          ELSE Absent]
    <3>1. t \in Runtime /\ t \in proc.todo
      BY <1>15 DEF Restore, RestoreTarget, UpdateInv, InRollback
    <3>2. journal.copies[t] \in Contents /\ Absent \in Contents
      BY <3>1
    <3>3. files' \in [Targets -> Contents]
      BY <2>5, <3>2
    <3> QED
      BY <2>1, <2>3, <3>3 DEF Proc
  <2> QED
    BY <1>15, <2>4, <2>5 DEF Restore, RestoreTarget
<1>16. ASSUME NEW t \in Targets, RestoreLegacy(t)
      PROVE  UpdateTypeOK'
  <2>1. t \in Runtime /\ t \in proc.todo
    BY <1>16 DEF RestoreLegacy, UpdateInv, BeforeSwitch
  <2>2. files' \in [Targets -> Contents]
    BY <1>16, <2>1 DEF RestoreLegacy
  <2> QED
    BY <1>16, <2>2 DEF RestoreLegacy, Did
<1>17. CASE Activate
  <2>1. proc' \in Proc
    BY <1>17, <1>p DEF Activate, Goto, GotoFor, Commands, Steps, Reasons
  <2> QED
    BY <1>17, <1>r, <2>1 DEF Activate, Restarted, Proc, Commands, Steps, Reasons
<1>18. CASE MarkRelease
  BY <1>18 DEF MarkRelease, Goto, Commands, Steps, Reasons
<1>19. CASE Commit
  BY <1>19 DEF Commit, GotoFor, Commands, Steps, Reasons
<1>20. CASE MarkRollback
  <2>1. UNCHANGED <<files, current, saved, services, prev, byHand, legacy>>
        /\ good' \in {good, prev}
    BY <1>20 DEF MarkRollback, Commands, Steps, Reasons
  <2>2. proc' \in Proc
    <3>1. proc' = IdleProc \/ proc' = [proc EXCEPT !.pc = "restore",
                                                  !.todo = journal.covered \cap Runtime]
      BY <1>20 DEF MarkRollback, GotoWith, Stop, Commands, Steps, Reasons
    <3> QED
      <4>1. "restore" \in Steps /\ journal.covered \cap Runtime \in SUBSET Targets
        BY DEF Steps
      <4>2. [proc EXCEPT !.pc = "restore", !.todo = journal.covered \cap Runtime] \in Proc
        BY <4>1, <1>p
      <4> QED
        BY <3>1, <4>2, <1>r
  <2>3. journal' \in Journal
    BY <1>20 DEF MarkRollback, Commands, Steps, Reasons
  <2> QED
    BY <2>1, <2>2, <2>3 DEF Proc
<1>21. CASE RestoreCurrent
  BY <1>21 DEF RestoreCurrent, RestoreCurrentThen, Goto, Stop, IdleProc, Commands, Steps, Reasons
<1>22. CASE Reactivate
  <2>1. proc' \in Proc
    BY <1>22, <1>r DEF Reactivate, Goto, Stop, Proc, Commands, Steps, Reasons
  <2> QED
    BY <1>22, <1>r, <2>1 DEF Reactivate, Restarted, Proc, Commands, Steps, Reasons
<1>23. CASE FinishLegacy
  BY <1>23 DEF FinishLegacy, Stop, IdleProc, Commands, Steps, Reasons
<1>24. ASSUME NEW item \in Runtime \cup {"meta", "current"}, RemoveItem(item)
      PROVE  UpdateTypeOK'
  BY <1>24 DEF RemoveItem
<1>25. CASE RemoveJournal
  BY <1>25 DEF RemoveJournal, NoJournal, Proceed, Goto, Stop, IdleProc, Commands, Steps, Reasons
<1>26. CASE StepFails
  <2>1. \/ proc' = IdleProc
        \/ \E pc \in Steps, why \in Reasons : proc' = [proc EXCEPT !.pc = pc, !.why = why]
    BY <1>26 DEF StepFails, GotoFor, Stop, Commands, Steps, Reasons
  <2>2. proc' \in Proc
    <3>1. CASE proc' = IdleProc
      BY <3>1, <1>r
    <3>2. CASE \E pc \in Steps, why \in Reasons : proc' = [proc EXCEPT !.pc = pc, !.why = why]
      <4>1. PICK pc \in Steps, why \in Reasons : proc' = [proc EXCEPT !.pc = pc, !.why = why]
        BY <3>2
      <4> QED
        BY <4>1, <1>p
    <3> QED
      BY <2>1, <3>1, <3>2
  <2> QED
    BY <1>26, <2>2 DEF StepFails, Proc, Commands, Steps, Reasons
<1>27. CASE Crash
  BY <1>27 DEF Crash, Stop, IdleProc, Commands, Steps, Reasons
<1>28. CASE UNCHANGED updateVars
  BY <1>28 DEF updateVars, history
<1> QED
  BY <1>1, <1>2, <1>3, <1>4, <1>5, <1>6, <1>7, <1>8, <1>9, <1>10, <1>11, <1>12, <1>13,
     <1>14, <1>15, <1>16, <1>17, <1>18, <1>19, <1>20, <1>21, <1>22, <1>23, <1>24, <1>25,
     <1>26, <1>27, <1>28 DEF UpdateNext

LEMMA UpdateInvStep == UpdateInv /\ [UpdateNext]_updateVars => UpdateInv'
<1> SUFFICES ASSUME UpdateInv, [UpdateNext]_updateVars PROVE UpdateInv'
  OBVIOUS
<1>0. UpdateTypeOK'
  BY UpdateTypeStep DEF UpdateInv
<1> DEFINE Rest == /\ JournalOfPrev /\ MaterialKept /\ BeforeSwitch /\ InSwitch
                   /\ InRollback /\ WholeWhenClosed /\ RestartsDone
<1> SUFFICES Rest'
  BY <1>0 DEF UpdateInv
<1>t. UpdateTypeOK /\ Rest
  BY DEF UpdateInv
<1> USE UpdateAssumption, <1>0, <1>t
    DEF JournalOfPrev, MaterialKept, BeforeSwitch, InSwitch, InRollback, WholeWhenClosed,
        RestartsDone, Closed, Whole, AsBefore, Recoverable, Open, Switching,
        UpdateTypeOK, Targets, Journal, Install, RuntimeFiles, Remote, history, At
<1>1. ASSUME NEW cmd \in {"install", "check", "apply"}, NEW release \in Releases,
             StartCommand(cmd, release)
      PROVE  Rest'
  <2>1. /\ proc.pc = "idle" /\ proc'.pc = "recover" /\ proc'.cmd = cmd
        /\ byHand' = (byHand \/ cmd = "apply")
        /\ UNCHANGED <<files, current, journal, saved, services, good, prev, legacy>>
    BY <1>1 DEF StartCommand
  <2>2. JournalOfPrev' /\ MaterialKept' /\ BeforeSwitch' /\ InSwitch' /\ InRollback'
    BY <2>1
  <2>3. WholeWhenClosed'
    BY <2>1
  <2>4. RestartsDone'
    <3>1. CASE byHand'
      BY <2>1, <3>1
    <3>2. CASE ~byHand'
      <4>1. ~byHand /\ cmd # "apply"
        BY <2>1, <3>2
      <4> QED
        BY <2>1, <4>1
    <3> QED
      BY <3>1, <3>2
  <2> QED
    BY <2>2, <2>3, <2>4
<1>2. CASE StartRollback
  BY <1>2 DEF StartRollback, Saved
<1>3. CASE Recover
  BY <1>3 DEF Recover, Proceed, Stop, IdleProc, Goto
<1>4. CASE Download
  BY <1>4 DEF Download, Stop, IdleProc, Goto
<1>5. CASE MakeSaved
  BY <1>5 DEF MakeSaved, GotoWith
<1>6. CASE BeginTransaction
  <2> DEFINE had == {t \in Covered : files[t] # Absent}
  <2>1. /\ proc.pc = "begin"
        /\ journal' = [NoJournal EXCEPT !.exists = TRUE, !.covered = Covered, !.had = had]
        /\ proc' = [proc EXCEPT !.pc = "snapshot", !.todo = had \cap Runtime]
        /\ prev' = [files |-> RuntimeFiles, current |-> current]
        /\ UNCHANGED <<files, current, saved, services, good, byHand, legacy>>
    BY <1>6 DEF BeginTransaction, OpenJournal, GotoWith
  <2>2. /\ journal'.exists /\ journal'.items = {} /\ journal'.covered = Covered
        /\ journal'.had = had
    BY <2>1 DEF NoJournal
  <2>3. /\ Runtime \subseteq Covered
        /\ \A t \in Runtime : t \in had <=> files[t] # Absent
    BY DEF Covered
  <2>4. /\ proc'.pc = "snapshot" /\ proc'.todo = had \cap Runtime /\ proc'.cmd = proc.cmd
        /\ prev'.files = RuntimeFiles /\ prev'.current = current
    BY <2>1
  <2>5. ~journal.exists /\ "meta" \notin journal.items
    BY <2>1
  <2> HIDE DEF had
  <2>6. JournalOfPrev' /\ MaterialKept'
    BY <2>2, <2>3, <2>4
  <2>7. BeforeSwitch' /\ InSwitch' /\ InRollback'
    BY <2>1, <2>2, <2>3, <2>4
  <2>8. WholeWhenClosed' /\ RestartsDone'
    BY <2>1, <2>4, <2>5
  <2> QED
    BY <2>6, <2>7, <2>8
<1>7. CASE SnapshotCurrent
  BY <1>7 DEF SnapshotCurrent, Goto
<1>8. CASE StartSwitch
  BY <1>8 DEF StartSwitch, GotoWith
<1>9. ASSUME WriteMetadata("prepare", "prepared", "applying")
      PROVE  Rest'
  BY <1>9 DEF WriteMetadata, Goto
<1>10. ASSUME WriteMetadata("activated", "activated", "commit")
      PROVE  Rest'
  BY <1>10 DEF WriteMetadata, Goto
<1>11. ASSUME NEW t \in Targets, DropSaved(t)
      PROVE  Rest'
  BY <1>11 DEF DropSaved, Saved
<1>12. ASSUME NEW t \in Targets, SaveBinary(t)
      PROVE  Rest'
  <2>1. /\ proc.pc = "save" /\ proc'.pc \in {"save", "begin"} /\ proc'.cmd = proc.cmd
        /\ UNCHANGED <<files, current, journal, services, good, prev, byHand, legacy>>
    BY <1>12 DEF SaveBinary
  <2> QED
    BY <2>1
<1>13. ASSUME NEW t \in Targets, Snapshot(t)
      PROVE  Rest'
  BY <1>13 DEF Snapshot, Did
<1>14. ASSUME NEW t \in Targets, InstallArtifact(t)
      PROVE  Rest'
  BY <1>14 DEF InstallArtifact
<1>15. ASSUME NEW t \in Targets, Restore(t)
      PROVE  Rest'
  BY <1>15 DEF Restore, RestoreTarget, Did, Stop, IdleProc
<1>16. ASSUME NEW t \in Targets, RestoreLegacy(t)
      PROVE  Rest'
  <2>1. /\ proc.pc = "legacy" /\ proc'.pc = "legacy" /\ proc'.cmd = proc.cmd
        /\ proc'.todo \subseteq proc.todo /\ legacy /\ ~journal.exists
        /\ UNCHANGED <<current, journal, saved, services, good, prev, byHand, legacy>>
    BY <1>16 DEF RestoreLegacy, Did
  <2>2. JournalOfPrev' /\ MaterialKept' /\ BeforeSwitch' /\ InSwitch' /\ InRollback'
        /\ WholeWhenClosed'
    BY <2>1
  <2>3. RestartsDone'
    BY <2>1
  <2> QED
    BY <2>2, <2>3
<1>17. CASE Activate
  <2>0. /\ proc.pc = "activate" /\ proc'.pc \in {"mark", "markRollback"}
        /\ proc'.cmd = proc.cmd /\ proc'.release = proc.release
    <3>1. CASE Goto("mark")
      BY <1>17, <3>1 DEF Activate, Goto
    <3>2. CASE GotoFor("markRollback", "failed")
      BY <1>17, <3>2 DEF Activate, GotoFor
    <3> QED
      BY <1>17, <3>1, <3>2 DEF Activate
  <2>1. /\ UNCHANGED <<files, current, journal, saved, good, prev, legacy>>
        /\ services' = RuntimeFiles /\ byHand' = FALSE
    BY <1>17 DEF Activate, Restarted
  <2>2. JournalOfPrev' /\ MaterialKept' /\ BeforeSwitch' /\ InSwitch' /\ InRollback'
        /\ WholeWhenClosed'
    BY <2>0, <2>1
  <2>3. RestartsDone'
    BY <2>0, <2>1
  <2> QED
    BY <2>2, <2>3
<1>18. CASE MarkRelease
  BY <1>18 DEF MarkRelease, Goto
<1>19. CASE Commit
  BY <1>19 DEF Commit, GotoFor
<1>20. CASE MarkRollback
  <2>1. CASE "meta" \in journal.items
    <3>0. /\ proc.pc = "markRollback" /\ proc'.pc = "restore" /\ proc'.cmd = proc.cmd
          /\ proc'.todo = journal.covered \cap Runtime
      <4>1. proc.pc = "markRollback"
            /\ proc' = [proc EXCEPT !.pc = "restore", !.todo = journal.covered \cap Runtime]
        BY <1>20, <2>1 DEF MarkRollback, GotoWith
      <4> QED
        BY <4>1
    <3>1. /\ good' = prev
          /\ UNCHANGED <<files, current, saved, services, prev, byHand, legacy>>
      BY <1>20, <2>1 DEF MarkRollback
    <3>2. /\ journal' = [journal EXCEPT !.state = "rolling-back"] /\ journal.exists
      BY <1>20, <2>1 DEF MarkRollback
    <3>3. JournalOfPrev' /\ MaterialKept'
      BY <3>0, <3>1, <3>2
    <3>4. BeforeSwitch' /\ InSwitch' /\ InRollback'
      BY <3>0, <3>1, <3>2, <2>1
    <3>5. WholeWhenClosed' /\ RestartsDone'
      BY <3>0, <3>1, <3>2, <2>1
    <3> QED
      BY <3>3, <3>4, <3>5
  <2>2. CASE "meta" \notin journal.items
    <3>1. /\ proc'.pc = "idle"
          /\ UNCHANGED <<files, current, journal, saved, services, good, prev, byHand, legacy>>
      BY <1>20, <2>2 DEF MarkRollback, Stop, IdleProc
    <3> QED
      BY <3>1, <2>2
  <2> QED
    BY <2>1, <2>2
<1>21. CASE RestoreCurrent
  BY <1>21 DEF RestoreCurrent, RestoreCurrentThen, Goto, Stop, IdleProc
<1>22. CASE Reactivate
  <2>1. /\ proc.pc = "reactivate" /\ proc'.pc \in {"cleanup", "idle"}
        /\ proc'.pc = "cleanup" => proc'.cmd = proc.cmd
        /\ UNCHANGED <<files, current, journal, saved, good, prev, legacy>>
        /\ services' = RuntimeFiles /\ byHand' = FALSE
    BY <1>22 DEF Reactivate, Restarted, Goto, Stop, IdleProc
  <2>2. JournalOfPrev' /\ MaterialKept' /\ BeforeSwitch' /\ InSwitch' /\ InRollback'
        /\ WholeWhenClosed'
    BY <2>1
  <2>3. RestartsDone'
    BY <2>1
  <2> QED
    BY <2>2, <2>3
<1>23. CASE FinishLegacy
  BY <1>23 DEF FinishLegacy, Stop, IdleProc
<1>24. ASSUME NEW item \in Runtime \cup {"meta", "current"}, RemoveItem(item)
      PROVE  Rest'
  BY <1>24 DEF RemoveItem
<1>25. CASE RemoveJournal
  BY <1>25 DEF RemoveJournal, NoJournal, Proceed, Goto, Stop, IdleProc
<1>26. CASE StepFails
  <2>1. /\ proc.pc # "idle"
        /\ UNCHANGED <<files, current, journal, saved, services, good, prev, byHand, legacy>>
    BY <1>26 DEF StepFails
  <2>0. \/ /\ proc.pc \in {"begin", "snapshot", "prepare"} /\ proc'.pc = "cleanup"
           /\ proc'.cmd = proc.cmd
        \/ /\ proc.pc \in Switching /\ proc'.pc = "markRollback" /\ proc'.cmd = proc.cmd
        \/ proc'.pc = "idle"
    <3>1. CASE proc.pc \in {"begin", "snapshot", "prepare"}
      <4>1. proc' = [proc EXCEPT !.pc = "cleanup", !.why = "aborted"]
        BY <1>26, <3>1 DEF StepFails, GotoFor
      <4> QED
        BY <3>1, <4>1
    <3>2. CASE proc.pc \in Switching
      <4>1. proc' = [proc EXCEPT !.pc = "markRollback", !.why = "failed"]
        BY <1>26, <3>2 DEF StepFails, GotoFor
      <4> QED
        BY <3>2, <4>1
    <3>3. CASE proc.pc \notin {"begin", "snapshot", "prepare"} \cup Switching
      BY <1>26, <3>3 DEF StepFails, Stop, IdleProc
    <3> QED
      BY <3>1, <3>2, <3>3
  <2>2. JournalOfPrev' /\ MaterialKept' /\ BeforeSwitch' /\ InSwitch' /\ InRollback'
    BY <2>0, <2>1
  <2>3. WholeWhenClosed'
    BY <2>0, <2>1
  <2>4. RestartsDone'
    BY <2>0, <2>1
  <2> QED
    BY <2>2, <2>3, <2>4
<1>27. CASE Crash
  BY <1>27 DEF Crash, Stop, IdleProc
<1>28. CASE UNCHANGED updateVars
  BY <1>28 DEF updateVars, history
<1> HIDE <1>0, <1>t
    DEF JournalOfPrev, MaterialKept, BeforeSwitch, InSwitch, InRollback, WholeWhenClosed,
        RestartsDone, Closed, Whole, AsBefore, Recoverable, Open, Switching,
        UpdateTypeOK, Targets, Journal, Install, RuntimeFiles, Remote, history, At, Rest
<1>29. 1 \in Releases
  BY DEF Releases
<1> QED
  BY <1>1, <1>2, <1>3, <1>4, <1>5, <1>6, <1>7, <1>8, <1>9, <1>10, <1>11, <1>12, <1>13,
     <1>14, <1>15, <1>16, <1>17, <1>18, <1>19, <1>20, <1>21, <1>22, <1>23, <1>24, <1>25,
     <1>26, <1>27, <1>28, <1>29 DEF UpdateNext

\* The files, the journal and the running command of panel-updater have their
\* types in every state.
THEOREM UpdateTypeCorrect == UpdateSpec => []UpdateTypeOK
<1>1. UpdateInv => UpdateTypeOK
  BY DEF UpdateInv
<1> QED
  BY <1>1, UpdateInitially, UpdateInvStep, PTL DEF UpdateSpec

\* When no command runs and no journal is left, the installed files and the
\* marker are of one release, wherever apply, rollback and recovery failed or
\* died, for any set of files and any number of releases.
THEOREM InstallWhole == UpdateSpec => []NoMixedInstall
<1>1. UpdateInv => NoMixedInstall
  BY DEF UpdateInv, NoMixedInstall, Settled, At, JournalOfPrev, WholeWhenClosed, Closed
<1> QED
  BY <1>1, UpdateInitially, UpdateInvStep, PTL DEF UpdateSpec

\* beginTransaction and the steps after it keep the copies and the marker that
\* rollbackTransaction needs until the switch is committed or rolled back.
THEOREM MaterialForRollback == UpdateSpec => []RollbackMaterialKept
<1>1. UpdateInv => RollbackMaterialKept
  BY DEF UpdateInv, RollbackMaterialKept, JournalOfPrev, MaterialKept, Recoverable, Open
<1> QED
  BY <1>1, UpdateInitially, UpdateInvStep, PTL DEF UpdateSpec

\* A remote command that has settled leaves the services running what is
\* installed, however often it failed, died and was recovered.
THEOREM ServicesCurrent == UpdateSpec => []ServicesRunInstalled
<1>1. UpdateInv => ServicesRunInstalled
  BY DEF UpdateInv, ServicesRunInstalled, Settled, At, JournalOfPrev, RestartsDone, Closed
<1> QED
  BY <1>1, UpdateInitially, UpdateInvStep, PTL DEF UpdateSpec

-----------------------------------------------------------------------------
(* The installer.                                                          *)

\* The facts an effect is about.
FactsOf(e) ==
    CASE e.kind \notin Special -> {e.fact}
      [] e.kind = "backup-key" -> {"backup-key", "backup-key.pub"}
      [] e.kind = "image" -> {"quota-image"}
      [] e.kind = "mkfs" -> {"quota-filesystem"}
      [] e.kind = "mount" -> {"quota-mount"}
      [] e.kind = "control-plane" -> {"control-plane"}
      [] OTHER -> {}

InRun == run.pc \in {"phase", "apply", "verify", "ok"}
InPhase == run.pc \in {"apply", "verify"}
HaveSecrets == secrets.admin # 0 /\ secrets.key # 0

\* A fact holds, or the code gave up on it.
Excused(f) == host[f] # None \/ f \in gone

\* What an effect that was taken in this phase has left.
Left(f) == Excused(f) /\ (f \in Named => host[f] = run.conf \/ f \in gone)

PasswordGiven == run.password # 0 => secrets.admin = run.password

EffectLeft(e) ==
    /\ \A f \in FactsOf(e) : Left(f)
    /\ e.kind \in {"secrets", "keep-secrets"} => HaveSecrets
    /\ e.kind = "secrets" => PasswordGiven
    /\ e.kind = "key" => served.key # 0
    /\ e.kind = "live" => served.admin \in {0, secrets.admin}
    /\ e.kind = "image" => quota /\ host["quota-image"] # None

\* What of that a phase still has that was completed for configuration c,
\* losses between the runs included.
Kept(f, c) ==
    /\ Excused(f) \/ f \in Verified
    /\ f \in Named => host[f] \in {c, None} \/ f \in gone

EffectKept(e, c) ==
    /\ \A f \in FactsOf(e) : Kept(f, c)
    /\ e.kind = "secrets" => HaveSecrets \/ "secrets" \in gone
    /\ e.kind = "key" => served.key # 0

PhasesKept ==
    \A p \in Phases : state.status[p] = "complete" =>
        \A i \in 1..Len(All[p].apply) : EffectKept(All[p].apply[i], state.print[p])

\* The runner is where the state file says.
Runner ==
    /\ InPhase => run.phase \in Phases /\ state.status[run.phase] = "running"
    /\ run.pc = "phase" => run.at = 1
    /\ run.pc = "apply" => run.at \in 1..Len(Plan) + 1
    /\ run.pc = "ok" => run.phase \notin Phases

\* The phases behind the runner are complete, and what they verify holds.
PhasesBehind ==
    InRun => \A q \in Phases : q < run.phase =>
        /\ state.status[q] = "complete" /\ state.print[q] = run.conf
        /\ \A f \in All[q].verify : host[f] # None \/ (f = "nft-table" /\ f \in gone)

EffectsBehind ==
    InPhase => \A i \in 1..Len(Plan) : i < run.at => EffectLeft(Plan[i])

\* A phase that returned has taken all of its effects, but for the quotas.
Returned ==
    run.pc = "verify" =>
        \/ run.at = Len(Plan) + 1
        \/ run.phase = 17 /\ ~quota
        \/ /\ run.phase = 17 /\ run.at = 4
           /\ {"quota-mount", "quota-fstab", "home-binds"} \subseteq gone

\* The key PowerDNS has is the panel's.
KeyInv == served.key # 0 => "secrets" \in gone \/ (HaveSecrets /\ secrets.key = served.key)

\* Director has a password once panel-api has started, and it is the stored one
\* unless it was changed since.
PasswordInv ==
    /\ host["control-plane"] # None => served.admin # 0
    /\ served.admin = 0 \/ secrets.admin \in {0, served.admin} \/ "password" \in gone
    /\ InRun /\ run.phase > Administrator /\ ~run.skipped =>
          HaveSecrets /\ PasswordGiven /\ served.admin = secrets.admin

\* What the special effects leave together.
PairsInv ==
    /\ ~quota => host["quota-directory"] = None
    /\ host["backup-key"] # None => Excused("backup-key.pub")
    /\ host["quota-image"] # None => Excused("quota-filesystem")

\* An effect that met no failure has established its fact.
Sound(e) ==
    /\ e.kind \notin Special => host[e.fact] # None
    /\ e.kind = "control-plane" => host["control-plane"] # None \/ "secrets" \in gone
    /\ e.kind = "backup-key" => Excused("backup-key.pub")

SoundRun ==
    InPhase /\ ~run.hurt => \A i \in 1..Len(Plan) : i < run.at => Sound(Plan[i])

InstallInv ==
    /\ TypeOK /\ Runner /\ PhasesKept /\ PhasesBehind /\ EffectsBehind /\ Returned
    /\ KeyInv /\ PasswordInv /\ PairsInv /\ SoundRun /\ RerunRecovers

-----------------------------------------------------------------------------
(* What the phases are made of.                                            *)

Kinds == Special \cup {"must", "try", "keep", "need", "reset", "tryreset"}

Made == {"backup-key", "control-plane", "quota-image", "quota-filesystem", "quota-mount"}

\* The phase that writes a file which says what the configuration says.
Home(f) == CASE f = "main.cf" -> 10 [] f = "current-release" -> 16
             [] f \in {"portal-nginx", "portal-hostname", "portal-redirect"} -> 19
             [] f = "administrator.txt" -> 20 [] f = "health-report" -> 21
             [] f = "installation-report" -> 22

PlainPlaced(p, i, e) ==
    /\ e.fact \in Named => Home(e.fact) = p
    /\ e.fact \notin Made \cup {"secrets", "password"}
    /\ e.fact \in {"vsftpd", "backup-key.pub"} => p = 11
    /\ e.fact = "backup-key.pub" => e.kind = "need"
    /\ e.fact = "quota-directory" => p = 17 /\ i = 3

\* Where an effect of a phase can be, by its kind.
Placed(p, i, e) ==
    /\ e.kind \in Kinds
    /\ e.kind \notin Special => PlainPlaced(p, i, e)
    /\ e.kind = "need" => \/ p = 11 /\ i = 12 /\ e.fact = "backup-key.pub"
                          \/ p = 18 /\ i > 1 /\ e.fact = "services"
    /\ e.kind = "reset" => \/ p = 11 /\ e.fact = "vsftpd"
                           \/ p = 12 /\ e.fact = "nft-table"
                           \/ p = 16 /\ e.fact \in {"boot-links", "timer-link"}
    /\ e.kind = "tryreset" => \/ p = 9 /\ e.fact = "powerdns"
                              \/ p = 18 /\ e.fact = "nft-table"
    /\ e.kind = "secrets" => p \in {6, 20} /\ i = 1
    /\ e.kind = "keep-secrets" => p = 9 /\ i = 2
    /\ e.kind = "key" => p = 9 /\ i = 4
    /\ e.kind = "backup-key" => p = 11 /\ i = 11
    /\ e.kind \in {"image", "mkfs", "mount"} => p = 17
    /\ e.kind = "image" => i = 1
    /\ e.kind = "mkfs" => i = 2
    /\ e.kind = "mount" => i = 4
    /\ e.kind = "control-plane" => p = 18 /\ i = 2
    /\ e.kind = "live" => p = 20 /\ i = 3

AllPlaced(p) == \A i \in 1..Len(All[p].apply) : Placed(p, i, All[p].apply[i])

LEMMA PhaseNumbers == Phases = 1..22 /\ Len(All) = 22
  BY DEF Phases, All

LEMMA EffectsPlaced == \A p \in Phases : AllPlaced(p)
<1>1. AllPlaced(1)
  BY DEF All, Phase, AllPlaced, Placed, PlainPlaced, Kinds, Special, Made, Named, Home, Effect,
      Must, Try, Keep, Need, Reset, TryReset, Do
<1>2. AllPlaced(2)
  BY DEF ApplyRepositories, All, Phase, AllPlaced, Placed, PlainPlaced, Kinds, Special, Made,
      Named, Home, Effect, Must, Try, Keep, Need, Reset, TryReset, Do
<1>3. AllPlaced(3)
  BY DEF ApplySystemPackages, InstallPackages, All, Phase, AllPlaced, Placed, PlainPlaced,
      Kinds, Special, Made, Named, Home, Effect, Must, Try, Keep, Need, Reset, TryReset, Do
<1>4. AllPlaced(4)
  BY DEF ApplyUsers, All, Phase, AllPlaced, Placed, PlainPlaced, Kinds, Special, Made, Named,
      Home, Effect, Must, Try, Keep, Need, Reset, TryReset, Do
<1>5. AllPlaced(5)
  BY DEF ApplyControlDB, All, Phase, AllPlaced, Placed, PlainPlaced, Kinds, Special, Made,
      Named, Home, Effect, Must, Try, Keep, Need, Reset, TryReset, Do
<1>6. AllPlaced(6)
  BY DEF ApplyControlPlane, InstallPackedPortals, All, Phase, AllPlaced, Placed, PlainPlaced,
      Kinds, Special, Made, Named, Home, Effect, Must, Try, Keep, Need, Reset, TryReset, Do
<1>7. AllPlaced(7)
  BY DEF ApplyWebStack, All, Phase, AllPlaced, Placed, PlainPlaced, Kinds, Special, Made,
      Named, Home, Effect, Must, Try, Keep, Need, Reset, TryReset, Do
<1>8. AllPlaced(8)
  BY DEF ApplyDatabaseStack, All, Phase, AllPlaced, Placed, PlainPlaced, Kinds, Special, Made,
      Named, Home, Effect, Must, Try, Keep, Need, Reset, TryReset, Do
<1>9. AllPlaced(9)
  <2>1. /\ Len(All[9].apply) = 9
        /\ All[9].apply[1] = Must("zones-directory")
        /\ All[9].apply[2] = Do("keep-secrets")
        /\ All[9].apply[3] = Keep("pdns.conf")
        /\ All[9].apply[4] = Do("key")
        /\ All[9].apply[5] = Must("public.env")
        /\ All[9].apply[6] = Must("named.conf")
        /\ All[9].apply[7] = Keep("named-zones.conf")
        /\ All[9].apply[8] = Try("dnssec-db")
        /\ All[9].apply[9] = TryReset("powerdns")
    BY DEF All, Phase, ApplyDNS, ReconcilePowerDNSConfig, WritePublicEnv, ReloadLivePowerDNS
  <2> QED
    BY <2>1 DEF AllPlaced, Placed, PlainPlaced, Kinds, Special, Made, Named, Home, Effect,
        Must, Try, Keep, Need, Reset, TryReset, Do
<1>10. AllPlaced(10)
  <2>1. /\ Len(All[10].apply) = 10
        /\ All[10].apply[1] = Must("mail-directories")
        /\ All[10].apply[2] = Keep("main.cf")
        /\ All[10].apply[3] = Must("main.cf-lines")
        /\ All[10].apply[4] = Must("master.cf")
        /\ All[10].apply[5] = Must("sasl")
        /\ All[10].apply[6] = Keep("mail-certificate")
        /\ All[10].apply[7] = Must("dovecot.conf")
        /\ All[10].apply[8] = Keep("mail-maps")
        /\ All[10].apply[9] = Must("relay")
        /\ All[10].apply[10] = Try("submission")
    BY DEF All, Phase, ApplyMail, ReplaceConfigLine, EnsureSubmissionMaster,
        EnsurePanelMailCert, ApplySMTPRelay, ReloadLiveMail
  <2> QED
    BY <2>1 DEF AllPlaced, Placed, PlainPlaced, Kinds, Special, Made, Named, Home, Effect,
        Must, Try, Keep, Need, Reset, TryReset, Do
<1>11. AllPlaced(11)
  <2>1. /\ Len(All[11].apply) = 16
        /\ All[11].apply[1] = Must("modsecurity")
        /\ All[11].apply[2] = Must("rspamd")
        /\ All[11].apply[3] = Must("clamav")
        /\ All[11].apply[4] = Try("signatures")
        /\ All[11].apply[5] = Must("fail2ban")
        /\ All[11].apply[6] = Must("quotas-directory")
        /\ All[11].apply[7] = Must("vsftpd.conf")
        /\ All[11].apply[8] = Reset("vsftpd")
        /\ All[11].apply[9] = Must("sftp-sshd")
        /\ All[11].apply[10] = Must("backup-sshd")
        /\ All[11].apply[11] = Do("backup-key")
        /\ All[11].apply[12] = Need("backup-key.pub")
        /\ All[11].apply[13] = Must("backup-sftp.env")
        /\ All[11].apply[14] = Must("objects-directory")
        /\ All[11].apply[15] = Keep("backup-s3.env")
        /\ All[11].apply[16] = Try("object-store")
    BY DEF All, Phase, ApplySecurity, ApplyWAF, ApplyRspamd, ApplyClamAV, ApplyFTPStack,
        ApplyBackupOffsite, ApplyBackupS3, StartObjectStore
  <2> QED
    BY <2>1 DEF AllPlaced, Placed, PlainPlaced, Kinds, Special, Made, Named, Home, Effect,
        Must, Try, Keep, Need, Reset, TryReset, Do
<1>12. AllPlaced(12)
  BY DEF ApplyFirewall, ApplyLiveNFT, All, Phase, AllPlaced, Placed, PlainPlaced, Kinds,
      Special, Made, Named, Home, Effect, Must, Try, Keep, Need, Reset, TryReset, Do
<1>13. AllPlaced(13)
  BY DEF ApplyRuntimeVersions, All, Phase, AllPlaced, Placed, PlainPlaced, Kinds, Special,
      Made, Named, Home, Effect, Must, Try, Keep, Need, Reset, TryReset, Do
<1>14. AllPlaced(14)
  BY DEF ApplyTemplates, All, Phase, AllPlaced, Placed, PlainPlaced, Kinds, Special, Made,
      Named, Home, Effect, Must, Try, Keep, Need, Reset, TryReset, Do
<1>15. AllPlaced(15)
  BY DEF ApplyTLS, ReloadNginx, EnsureACME, All, Phase, AllPlaced, Placed, PlainPlaced, Kinds,
      Special, Made, Named, Home, Effect, Must, Try, Keep, Need, Reset, TryReset, Do
<1>16. AllPlaced(16)
  <2>1. /\ Len(All[16].apply) = 7
        /\ All[16].apply[1] = Must("units")
        /\ All[16].apply[2] = Must("update.env")
        /\ All[16].apply[3] = Must("update.pub")
        /\ All[16].apply[4] = Must("update-status")
        /\ All[16].apply[5] = Must("current-release")
        /\ All[16].apply[6] = Reset("boot-links")
        /\ All[16].apply[7] = Reset("timer-link")
    BY DEF All, Phase, ApplySystemd, ApplyUpdatePolicy, EnableBootUnits, EnableUpdateTimer
  <2> QED
    BY <2>1 DEF AllPlaced, Placed, PlainPlaced, Kinds, Special, Made, Named, Home, Effect,
        Must, Try, Keep, Need, Reset, TryReset, Do
<1>17. AllPlaced(17)
  <2>1. /\ Len(All[17].apply) = 6
        /\ All[17].apply[1] = Do("image")
        /\ All[17].apply[2] = Do("mkfs")
        /\ All[17].apply[3] = Must("quota-directory")
        /\ All[17].apply[4] = Do("mount")
        /\ All[17].apply[5] = Must("quota-fstab")
        /\ All[17].apply[6] = Must("home-binds")
    BY DEF All, Phase, EnsureQuotaHomes, EnsureQuotaFstab, BindPanelHomes
  <2> QED
    BY <2>1 DEF AllPlaced, Placed, PlainPlaced, Kinds, Special, Made, Named, Home, Effect,
        Must, Try, Keep, Need, Reset, TryReset, Do
<1>18. AllPlaced(18)
  <2>1. /\ Len(All[18].apply) = 10
        /\ All[18].apply[1] = Try("services")
        /\ All[18].apply[2] = Do("control-plane")
        /\ All[18].apply[3] = Try("smtp-policy")
        /\ All[18].apply[4] = Try("object-store")
        /\ All[18].apply[5] = Try("acme.env")
        /\ All[18].apply[6] = Try("enabled-units")
        /\ All[18].apply[7] = Try("account-apps")
        /\ All[18].apply[8] = TryReset("nft-table")
        /\ All[18].apply[9] = Try("cgroups")
        /\ All[18].apply[10] = Need("services")
    BY DEF All, Phase, ApplyHostRuntime, StartHostServices, StartControlPlane, StartSMTPPolicy,
        StartObjectStore, EnablePanelUnits, StartAccountApps, ApplyExistingCgroups,
        ActivateServices
  <2> QED
    BY <2>1 DEF AllPlaced, Placed, PlainPlaced, Kinds, Special, Made, Named, Home, Effect,
        Must, Try, Keep, Need, Reset, TryReset, Do
<1>19. AllPlaced(19)
  <2>1. /\ Len(All[19].apply) = 8
        /\ All[19].apply[1] = Keep("portal-certificate")
        /\ All[19].apply[2] = Must("portal-apps")
        /\ All[19].apply[3] = Try("portal-hostname")
        /\ All[19].apply[4] = Try("hostname-certificate")
        /\ All[19].apply[5] = Try("acme-status")
        /\ All[19].apply[6] = Must("portal-nginx")
        /\ All[19].apply[7] = Must("portal-redirect")
        /\ All[19].apply[8] = Must("portals-served")
    BY DEF All, Phase, ApplyPortals, EnsurePortalCertificate, InstallPortalApp, CopyPortalTree,
        WritePortalHostnameFile, TryIssuePortalHostnameCertificate, WritePortalNginx,
        WritePortalHTTPNginx, ReloadNginx
  <2> QED
    BY <2>1 DEF AllPlaced, Placed, PlainPlaced, Kinds, Special, Made, Named, Home, Effect,
        Must, Try, Keep, Need, Reset, TryReset, Do
<1>20. AllPlaced(20)
  BY DEF ApplyAdministrator, All, Phase, AllPlaced, Placed, PlainPlaced, Kinds, Special, Made,
      Named, Home, Effect, Must, Try, Keep, Need, Reset, TryReset, Do
<1>21. AllPlaced(21)
  BY DEF ApplyHealth, All, Phase, AllPlaced, Placed, PlainPlaced, Kinds, Special, Made, Named,
      Home, Effect, Must, Try, Keep, Need, Reset, TryReset, Do
<1>22. AllPlaced(22)
  BY DEF ApplyReport, All, Phase, AllPlaced, Placed, PlainPlaced, Kinds, Special, Made, Named,
      Home, Effect, Must, Try, Keep, Need, Reset, TryReset, Do
<1> QED
  BY PhaseNumbers, <1>1, <1>2, <1>3, <1>4, <1>5, <1>6, <1>7, <1>8, <1>9, <1>10, <1>11, <1>12,
      <1>13, <1>14, <1>15, <1>16, <1>17, <1>18, <1>19, <1>20, <1>21, <1>22

\* The effects whose order or place the proofs use.
LEMMA Positions ==
    /\ Len(All[6].apply) = 4 /\ All[6].apply[1].kind = "secrets"
    /\ Len(All[9].apply) = 9
    /\ All[9].apply[2].kind = "keep-secrets" /\ All[9].apply[4].kind = "key"
    /\ Len(All[11].apply) = 16
    /\ All[11].apply[11].kind = "backup-key" /\ All[11].apply[12] = Need("backup-key.pub")
    /\ Len(All[17].apply) = 6
    /\ All[17].apply[1].kind = "image" /\ All[17].apply[2].kind = "mkfs"
    /\ All[17].apply[3] = Must("quota-directory") /\ All[17].apply[4].kind = "mount"
    /\ All[17].apply[5] = Must("quota-fstab") /\ All[17].apply[6] = Must("home-binds")
    /\ Len(All[18].apply) = 10
    /\ All[18].apply[1] = Try("services") /\ All[18].apply[2].kind = "control-plane"
    /\ Len(All[20].apply) = 3
    /\ All[20].apply[1].kind = "secrets" /\ All[20].apply[3].kind = "live"
<1>1. Len(All[6].apply) = 4 /\ All[6].apply[1].kind = "secrets"
  BY DEF All, Phase, ApplyControlPlane, InstallPackedPortals, Do, Effect
<1>2. Len(All[9].apply) = 9 /\ All[9].apply[2].kind = "keep-secrets" /\ All[9].apply[4].kind = "key"
  BY DEF All, Phase, ApplyDNS, ReconcilePowerDNSConfig, WritePublicEnv, ReloadLivePowerDNS,
         Do, Effect
<1>3. /\ Len(All[11].apply) = 16 /\ All[11].apply[11].kind = "backup-key"
      /\ All[11].apply[12] = Need("backup-key.pub")
  BY DEF All, Phase, ApplySecurity, ApplyWAF, ApplyRspamd, ApplyClamAV, ApplyFTPStack,
         ApplyBackupOffsite, ApplyBackupS3, StartObjectStore, Do, Effect
<1>4. /\ Len(All[17].apply) = 6
      /\ All[17].apply[1].kind = "image" /\ All[17].apply[2].kind = "mkfs"
      /\ All[17].apply[3] = Must("quota-directory") /\ All[17].apply[4].kind = "mount"
      /\ All[17].apply[5] = Must("quota-fstab") /\ All[17].apply[6] = Must("home-binds")
  BY DEF All, Phase, EnsureQuotaHomes, EnsureQuotaFstab, BindPanelHomes, Do, Effect
<1>5. /\ Len(All[18].apply) = 10
      /\ All[18].apply[1] = Try("services") /\ All[18].apply[2].kind = "control-plane"
  BY DEF All, Phase, ApplyHostRuntime, StartHostServices, StartControlPlane,
         StartSMTPPolicy, StartObjectStore, EnablePanelUnits, StartAccountApps,
         ApplyExistingCgroups, ActivateServices, Do, Effect
<1>6. /\ Len(All[20].apply) = 3
      /\ All[20].apply[1].kind = "secrets" /\ All[20].apply[3].kind = "live"
  BY DEF All, Phase, ApplyAdministrator, Do, Effect
<1> QED
  BY <1>1, <1>2, <1>3, <1>4, <1>5, <1>6

\* The lists are sequences.
LEMMA PlanLength == \A p \in Phases : Len(All[p].apply) \in Nat
<1>1. Len(All[1].apply) = 0
  BY DEF All, Phase
<1>2. Len(All[2].apply) = 1
  BY DEF All, Phase, ApplyRepositories
<1>3. Len(All[3].apply) = 1
  BY DEF All, Phase, ApplySystemPackages, InstallPackages
<1>4. Len(All[4].apply) = 2
  BY DEF All, Phase, ApplyUsers
<1>5. Len(All[5].apply) = 2
  BY DEF All, Phase, ApplyControlDB
<1>6. Len(All[6].apply) = 4
  BY DEF All, Phase, ApplyControlPlane, InstallPackedPortals
<1>7. Len(All[7].apply) = 2
  BY DEF All, Phase, ApplyWebStack
<1>8. Len(All[8].apply) = 2
  BY DEF All, Phase, ApplyDatabaseStack
<1>9. Len(All[9].apply) = 9
  BY DEF All, Phase, ApplyDNS, ReconcilePowerDNSConfig, WritePublicEnv, ReloadLivePowerDNS
<1>10. Len(All[10].apply) = 10
  BY DEF All, Phase, ApplyMail, ReplaceConfigLine, EnsureSubmissionMaster, EnsurePanelMailCert,
      ApplySMTPRelay, ReloadLiveMail
<1>11. Len(All[11].apply) = 16
  BY DEF All, Phase, ApplySecurity, ApplyWAF, ApplyRspamd, ApplyClamAV, ApplyFTPStack,
      ApplyBackupOffsite, ApplyBackupS3, StartObjectStore
<1>12. Len(All[12].apply) = 2
  BY DEF All, Phase, ApplyFirewall, ApplyLiveNFT
<1>13. Len(All[13].apply) = 1
  BY DEF All, Phase, ApplyRuntimeVersions
<1>14. Len(All[14].apply) = 1
  BY DEF All, Phase, ApplyTemplates
<1>15. Len(All[15].apply) = 4
  BY DEF All, Phase, ApplyTLS, ReloadNginx, EnsureACME
<1>16. Len(All[16].apply) = 7
  BY DEF All, Phase, ApplySystemd, ApplyUpdatePolicy, EnableBootUnits, EnableUpdateTimer
<1>17. Len(All[17].apply) = 6
  BY DEF All, Phase, EnsureQuotaHomes, EnsureQuotaFstab, BindPanelHomes
<1>18. Len(All[18].apply) = 10
  BY DEF All, Phase, ApplyHostRuntime, StartHostServices, StartControlPlane, StartSMTPPolicy,
      StartObjectStore, EnablePanelUnits, StartAccountApps, ApplyExistingCgroups,
      ActivateServices
<1>19. Len(All[19].apply) = 8
  BY DEF All, Phase, ApplyPortals, EnsurePortalCertificate, InstallPortalApp, CopyPortalTree,
      WritePortalHostnameFile, TryIssuePortalHostnameCertificate, WritePortalNginx,
      WritePortalHTTPNginx, ReloadNginx
<1>20. Len(All[20].apply) = 3
  BY DEF All, Phase, ApplyAdministrator
<1>21. Len(All[21].apply) = 1
  BY DEF All, Phase, ApplyHealth
<1>22. Len(All[22].apply) = 1
  BY DEF All, Phase, ApplyReport
<1> QED
  BY PhaseNumbers, <1>1, <1>2, <1>3, <1>4, <1>5, <1>6, <1>7, <1>8, <1>9, <1>10, <1>11, <1>12,
      <1>13, <1>14, <1>15, <1>16, <1>17, <1>18, <1>19, <1>20, <1>21, <1>22

\* Where a fact that is verified can come from: an effect of the same phase, or
\* of an earlier one for the services that the last check looks at.
VerifiedPlaced(p, f) ==
    /\ f = "powerdns" => p = 9
    /\ f \in {"boot-links", "timer-link"} => p = 16
    /\ f = "nft-table" => p = 12
    /\ f \notin {"vsftpd", "quota-filesystem", "backup-key.pub"}
    /\ \/ \E i \in 1..Len(All[p].apply) :
             /\ All[p].apply[i].kind \notin Special /\ All[p].apply[i].fact = f
             /\ p = 17 => i < 4
       \/ p = 18 /\ f = "control-plane"
       \/ p = 21 /\ f = "services"

LEMMA VerifiedFrom == \A p \in Phases : \A f \in All[p].verify : VerifiedPlaced(p, f)
<1>1. \A p \in {1, 2, 13, 14, 20, 22} :
        \A f \in All[p].verify : VerifiedPlaced(p, f)
  BY DEF All, Phase
<1>2. \A f \in All[3].verify : VerifiedPlaced(3, f)
  <2>1. All[3].verify = {"packages"}
    BY DEF All, Phase, VerifySystemPackages
  <2>2. /\ Len(All[3].apply) = 1
        /\ All[3].apply[1] = Must("packages")
    BY DEF All, Phase, ApplySystemPackages, InstallPackages
  <2> QED
    BY <2>1, <2>2 DEF VerifiedPlaced, Special, Effect, Must, Try, Keep, Need, Reset, TryReset,
        Do
<1>3. \A f \in All[4].verify : VerifiedPlaced(4, f)
  <2>1. All[4].verify = {"panel-user"}
    BY DEF All, Phase, VerifyUsers
  <2>2. /\ Len(All[4].apply) = 2
        /\ All[4].apply[2] = Try("panel-user")
    BY DEF All, Phase, ApplyUsers
  <2> QED
    BY <2>1, <2>2 DEF VerifiedPlaced, Special, Effect, Must, Try, Keep, Need, Reset, TryReset,
        Do
<1>4. \A f \in All[5].verify : VerifiedPlaced(5, f)
  <2>1. All[5].verify = {"dsn", "control-database"}
    BY DEF All, Phase, VerifyControlDB
  <2>2. /\ Len(All[5].apply) = 2
        /\ All[5].apply[2] = Must("dsn")
        /\ All[5].apply[1] = Try("control-database")
    BY DEF All, Phase, ApplyControlDB
  <2> QED
    BY <2>1, <2>2 DEF VerifiedPlaced, Special, Effect, Must, Try, Keep, Need, Reset, TryReset,
        Do
<1>5. \A f \in All[6].verify : VerifiedPlaced(6, f)
  <2>1. All[6].verify = {"binaries"}
    BY DEF All, Phase, VerifyControlPlane
  <2>2. /\ Len(All[6].apply) = 4
        /\ All[6].apply[3] = Must("binaries")
    BY DEF All, Phase, ApplyControlPlane, InstallPackedPortals
  <2> QED
    BY <2>1, <2>2 DEF VerifiedPlaced, Special, Effect, Must, Try, Keep, Need, Reset, TryReset,
        Do
<1>6. \A f \in All[7].verify : VerifiedPlaced(7, f)
  <2>1. All[7].verify = {"sites-directory"}
    BY DEF All, Phase, VerifyWeb
  <2>2. /\ Len(All[7].apply) = 2
        /\ All[7].apply[1] = Must("sites-directory")
    BY DEF All, Phase, ApplyWebStack
  <2> QED
    BY <2>1, <2>2 DEF VerifiedPlaced, Special, Effect, Must, Try, Keep, Need, Reset, TryReset,
        Do
<1>7. \A f \in All[8].verify : VerifiedPlaced(8, f)
  <2>1. All[8].verify = {"database-servers"}
    BY DEF All, Phase, VerifyDatabaseStack
  <2>2. /\ Len(All[8].apply) = 2
        /\ All[8].apply[2] = Try("database-servers")
    BY DEF All, Phase, ApplyDatabaseStack
  <2> QED
    BY <2>1, <2>2 DEF VerifiedPlaced, Special, Effect, Must, Try, Keep, Need, Reset, TryReset,
        Do
<1>8. \A f \in All[9].verify : VerifiedPlaced(9, f)
  <2>1. All[9].verify = {"pdns.conf", "powerdns"}
    BY DEF All, Phase, VerifyDNS
  <2>2. /\ Len(All[9].apply) = 9
        /\ All[9].apply[3] = Keep("pdns.conf")
        /\ All[9].apply[9] = TryReset("powerdns")
    BY DEF All, Phase, ApplyDNS, ReconcilePowerDNSConfig, WritePublicEnv, ReloadLivePowerDNS
  <2> QED
    BY <2>1, <2>2 DEF VerifiedPlaced, Special, Effect, Must, Try, Keep, Need, Reset, TryReset,
        Do
<1>9. \A f \in All[10].verify : VerifiedPlaced(10, f)
  <2>1. All[10].verify = {"main.cf", "main.cf-lines", "master.cf", "sasl", "relay",
                          "submission"}
    BY DEF All, Phase, VerifyMail
  <2>2. /\ Len(All[10].apply) = 10
        /\ All[10].apply[2] = Keep("main.cf")
        /\ All[10].apply[3] = Must("main.cf-lines")
        /\ All[10].apply[4] = Must("master.cf")
        /\ All[10].apply[5] = Must("sasl")
        /\ All[10].apply[9] = Must("relay")
        /\ All[10].apply[10] = Try("submission")
    BY DEF All, Phase, ApplyMail, ReplaceConfigLine, EnsureSubmissionMaster,
        EnsurePanelMailCert, ApplySMTPRelay, ReloadLiveMail
  <2> QED
    BY <2>1, <2>2 DEF VerifiedPlaced, Special, Effect, Must, Try, Keep, Need, Reset, TryReset,
        Do
<1>10. \A f \in All[11].verify : VerifiedPlaced(11, f)
  <2>1. All[11].verify = {"modsecurity", "rspamd", "clamav", "fail2ban", "quotas-directory",
                          "vsftpd.conf", "sftp-sshd", "backup-sshd", "backup-sftp.env",
                          "objects-directory", "backup-s3.env"}
    BY DEF All, Phase, VerifySecurity
  <2>2. /\ Len(All[11].apply) = 16
        /\ All[11].apply[1] = Must("modsecurity")
        /\ All[11].apply[2] = Must("rspamd")
        /\ All[11].apply[3] = Must("clamav")
        /\ All[11].apply[5] = Must("fail2ban")
        /\ All[11].apply[6] = Must("quotas-directory")
        /\ All[11].apply[7] = Must("vsftpd.conf")
        /\ All[11].apply[9] = Must("sftp-sshd")
        /\ All[11].apply[10] = Must("backup-sshd")
        /\ All[11].apply[13] = Must("backup-sftp.env")
        /\ All[11].apply[14] = Must("objects-directory")
        /\ All[11].apply[15] = Keep("backup-s3.env")
    BY DEF All, Phase, ApplySecurity, ApplyWAF, ApplyRspamd, ApplyClamAV, ApplyFTPStack,
        ApplyBackupOffsite, ApplyBackupS3, StartObjectStore
  <2> QED
    BY <2>1, <2>2 DEF VerifiedPlaced, Special, Effect, Must, Try, Keep, Need, Reset, TryReset,
        Do
<1>11. \A f \in All[12].verify : VerifiedPlaced(12, f)
  <2>1. All[12].verify = {"nft-file", "nft-table"}
    BY DEF All, Phase, VerifyFirewall
  <2>2. /\ Len(All[12].apply) = 2
        /\ All[12].apply[1] = Must("nft-file")
        /\ All[12].apply[2] = Reset("nft-table")
    BY DEF All, Phase, ApplyFirewall, ApplyLiveNFT
  <2> QED
    BY <2>1, <2>2 DEF VerifiedPlaced, Special, Effect, Must, Try, Keep, Need, Reset, TryReset,
        Do
<1>12. \A f \in All[15].verify : VerifiedPlaced(15, f)
  <2>1. All[15].verify = {"acme-www", "00-acme.conf", "acme.env"}
    BY DEF All, Phase, VerifyTLS
  <2>2. /\ Len(All[15].apply) = 4
        /\ All[15].apply[1] = Must("acme-www")
        /\ All[15].apply[2] = Must("00-acme.conf")
        /\ All[15].apply[4] = Must("acme.env")
    BY DEF All, Phase, ApplyTLS, ReloadNginx, EnsureACME
  <2> QED
    BY <2>1, <2>2 DEF VerifiedPlaced, Special, Effect, Must, Try, Keep, Need, Reset, TryReset,
        Do
<1>13. \A f \in All[16].verify : VerifiedPlaced(16, f)
  <2>1. All[16].verify = {"units", "boot-links", "timer-link", "update.env", "update.pub",
                          "current-release"}
    BY DEF All, Phase, VerifySystemd
  <2>2. /\ Len(All[16].apply) = 7
        /\ All[16].apply[1] = Must("units")
        /\ All[16].apply[6] = Reset("boot-links")
        /\ All[16].apply[7] = Reset("timer-link")
        /\ All[16].apply[2] = Must("update.env")
        /\ All[16].apply[3] = Must("update.pub")
        /\ All[16].apply[5] = Must("current-release")
    BY DEF All, Phase, ApplySystemd, ApplyUpdatePolicy, EnableBootUnits, EnableUpdateTimer
  <2> QED
    BY <2>1, <2>2 DEF VerifiedPlaced, Special, Effect, Must, Try, Keep, Need, Reset, TryReset,
        Do
<1>14. \A f \in All[17].verify : VerifiedPlaced(17, f)
  <2>1. All[17].verify = {"quota-directory"}
    BY DEF All, Phase, VerifyQuotaHomes
  <2>2. /\ Len(All[17].apply) = 6
        /\ All[17].apply[3] = Must("quota-directory")
    BY DEF All, Phase, EnsureQuotaHomes, EnsureQuotaFstab, BindPanelHomes
  <2> QED
    BY <2>1, <2>2 DEF VerifiedPlaced, Special, Effect, Must, Try, Keep, Need, Reset, TryReset,
        Do
<1>15. \A f \in All[18].verify : VerifiedPlaced(18, f)
  <2>1. All[18].verify = {"control-plane", "smtp-policy", "object-store", "services"}
    BY DEF All, Phase, VerifyHostRuntime, VerifyHealth
  <2>2. /\ Len(All[18].apply) = 10
        /\ All[18].apply[3] = Try("smtp-policy")
        /\ All[18].apply[4] = Try("object-store")
        /\ All[18].apply[1] = Try("services")
    BY DEF All, Phase, ApplyHostRuntime, StartHostServices, StartControlPlane, StartSMTPPolicy,
        StartObjectStore, EnablePanelUnits, StartAccountApps, ApplyExistingCgroups,
        ActivateServices
  <2> QED
    BY <2>1, <2>2 DEF VerifiedPlaced, Special, Effect, Must, Try, Keep, Need, Reset, TryReset,
        Do
<1>16. \A f \in All[19].verify : VerifiedPlaced(19, f)
  <2>1. All[19].verify = {"portal-apps", "portals-served", "portal-certificate",
                          "portal-nginx", "portal-hostname", "acme-status"}
    BY DEF All, Phase, VerifyPortals, VerifyPortalTLS
  <2>2. /\ Len(All[19].apply) = 8
        /\ All[19].apply[2] = Must("portal-apps")
        /\ All[19].apply[8] = Must("portals-served")
        /\ All[19].apply[1] = Keep("portal-certificate")
        /\ All[19].apply[6] = Must("portal-nginx")
        /\ All[19].apply[3] = Try("portal-hostname")
        /\ All[19].apply[5] = Try("acme-status")
    BY DEF All, Phase, ApplyPortals, EnsurePortalCertificate, InstallPortalApp, CopyPortalTree,
        WritePortalHostnameFile, TryIssuePortalHostnameCertificate, WritePortalNginx,
        WritePortalHTTPNginx, ReloadNginx
  <2> QED
    BY <2>1, <2>2 DEF VerifiedPlaced, Special, Effect, Must, Try, Keep, Need, Reset, TryReset,
        Do
<1>17. \A f \in All[21].verify : VerifiedPlaced(21, f)
  <2>1. All[21].verify = {"services"}
    BY DEF All, Phase, VerifyHealth
  <2> QED
    BY <2>1 DEF VerifiedPlaced
<1> QED
  BY PhaseNumbers, <1>1, <1>2, <1>3, <1>4, <1>5, <1>6, <1>7, <1>8, <1>9, <1>10, <1>11, <1>12,
      <1>13, <1>14, <1>15, <1>16, <1>17

LEMMA VerifiedFacts ==
    /\ {"services", "control-plane"} \subseteq All[18].verify
    /\ "quota-directory" \in All[17].verify
    /\ {"nft-table", "boot-links", "timer-link", "services"} \subseteq Verified
    /\ {"vsftpd", "quota-filesystem", "backup-key.pub"} \cap Verified = {}
<1>1. {"services", "control-plane"} \subseteq All[18].verify
  BY DEF All, Phase, VerifyHostRuntime, VerifyHealth
<1>2. "quota-directory" \in All[17].verify
  BY DEF All, Phase, VerifyQuotaHomes
<1>3. "nft-table" \in All[12].verify
  BY DEF All, Phase, VerifyFirewall
<1>4. "boot-links" \in All[16].verify /\ "timer-link" \in All[16].verify
  BY DEF All, Phase, VerifySystemd
<1>5. {"vsftpd", "quota-filesystem", "backup-key.pub"} \cap Verified = {}
  BY VerifiedFrom DEF Verified, VerifiedPlaced
<1> QED
  BY <1>1, <1>2, <1>3, <1>4, <1>5, PhaseNumbers DEF Verified

\* Every fact is of an effect, and every effect is about facts.
LEMMA FactPlaces ==
    /\ \A f \in Facts : \E p \in Phases : \E i \in 1..Len(All[p].apply) :
          f \in FactsOf(All[p].apply[i])
    /\ \A p \in Phases : \A i \in 1..Len(All[p].apply) :
          FactsOf(All[p].apply[i]) \subseteq Facts
    /\ Made \subseteq Facts
    /\ {"backup-key.pub", "quota-directory", "quota-fstab", "home-binds", "services"}
          \subseteq Facts
    /\ \A p \in Phases : All[p].verify \subseteq Facts
    /\ "secrets" \notin Facts /\ "password" \notin Facts
<1>1. \A p \in Phases : \A i \in 1..Len(All[p].apply) :
          All[p].apply[i].kind \notin Special => All[p].apply[i].fact \in Facts
  BY DEF Facts, Effects
<1>2. Made \subseteq Facts
  BY DEF Facts, Made
<1>3. {6, 9, 11, 17, 18, 20} \subseteq Phases
  BY PhaseNumbers
<1>4. {"backup-key.pub", "quota-directory", "quota-fstab", "home-binds", "services"}
         \subseteq Facts
  <2>1. 12 \in 1..Len(All[11].apply) /\ {3, 5, 6} \subseteq 1..Len(All[17].apply)
        /\ 1 \in 1..Len(All[18].apply)
    BY Positions
  <2>2. /\ All[11].apply[12].kind = "need" /\ All[11].apply[12].fact = "backup-key.pub"
        /\ \A i \in {3, 5, 6} : All[17].apply[i].kind = "must"
        /\ All[17].apply[3].fact = "quota-directory"
        /\ All[17].apply[5].fact = "quota-fstab" /\ All[17].apply[6].fact = "home-binds"
        /\ All[18].apply[1].kind = "try" /\ All[18].apply[1].fact = "services"
    BY Positions DEF Need, Must, Try, Effect
  <2>3. "need" \notin Special /\ "must" \notin Special /\ "try" \notin Special
    BY DEF Special
  <2>4. "backup-key.pub" \in Facts /\ "services" \in Facts
    BY <1>1, <1>3, <2>1, <2>2, <2>3
  <2>5. "quota-directory" \in Facts /\ "quota-fstab" \in Facts /\ "home-binds" \in Facts
    BY <1>1, <1>3, <2>1, <2>2, <2>3
  <2> QED
    BY <2>4, <2>5
<1>5. ASSUME NEW p \in Phases, NEW i \in 1..Len(All[p].apply)
      PROVE  FactsOf(All[p].apply[i]) \subseteq Facts
  BY <1>1, <1>2, <1>4 DEF FactsOf, Made
<1>6. ASSUME NEW f \in Facts
      PROVE  \E p \in Phases : \E i \in 1..Len(All[p].apply) : f \in FactsOf(All[p].apply[i])
  <2>1. CASE \E p \in Phases : \E i \in 1..Len(All[p].apply) :
                All[p].apply[i].kind \notin Special /\ f = All[p].apply[i].fact
    <3> PICK p \in Phases : \E i \in 1..Len(All[p].apply) :
               All[p].apply[i].kind \notin Special /\ f = All[p].apply[i].fact
      BY <2>1
    <3>1. PICK i \in 1..Len(All[p].apply) :
             All[p].apply[i].kind \notin Special /\ f = All[p].apply[i].fact
      OBVIOUS
    <3>2. f \in FactsOf(All[p].apply[i])
      BY <3>1 DEF FactsOf, Special
    <3> QED
      BY <3>2
  <2>2. CASE f \in Made
    <3>1. /\ 11 \in 1..Len(All[11].apply) /\ {1, 2, 4} \subseteq 1..Len(All[17].apply)
          /\ 2 \in 1..Len(All[18].apply)
      BY Positions
    <3>2. /\ "backup-key" \in FactsOf(All[11].apply[11])
          /\ "quota-image" \in FactsOf(All[17].apply[1])
          /\ "quota-filesystem" \in FactsOf(All[17].apply[2])
          /\ "quota-mount" \in FactsOf(All[17].apply[4])
          /\ "control-plane" \in FactsOf(All[18].apply[2])
      BY Positions DEF FactsOf, Special
    <3> QED
      BY <1>3, <2>2, <3>1, <3>2 DEF Made
  <2> QED
    BY <2>1, <2>2 DEF Facts, Effects, Made
<1>7. ASSUME NEW p \in Phases PROVE All[p].verify \subseteq Facts
  BY <1>1, <1>2, <1>4, VerifiedFrom DEF VerifiedPlaced, Made
<1>8. "secrets" \notin Facts /\ "password" \notin Facts
  BY EffectsPlaced DEF Facts, Effects, AllPlaced, Placed, PlainPlaced, Made
<1> QED
  BY <1>2, <1>4, <1>5, <1>6, <1>7, <1>8

LEMMA AdministratorPhase == Administrator = 20
<1>1. All[20].apply = ApplyAdministrator
  BY DEF All, Phase
<1>2. Administrator \in Phases /\ All[Administrator].apply = ApplyAdministrator
  BY <1>1, PhaseNumbers DEF Administrator
<1>3. Len(ApplyAdministrator) = 3 /\ ApplyAdministrator[3].kind = "live"
  BY <1>1, Positions
<1> QED
  BY <1>2, <1>3, EffectsPlaced DEF AllPlaced, Placed

-----------------------------------------------------------------------------
(* What an effect may change.                                              *)

Worlds == [host : [Facts -> Confs \cup {None}], secrets : [admin : Nat, key : Nat],
           served : [key : Nat, admin : Nat], fresh : Nat,
           gone : SUBSET (Facts \cup {"secrets", "password"}),
           goes : {"on", "done", "error", "crash"}]
Hows == {"works", "fails", "half"}

LEMMA WorldType ==
    ASSUME TypeOK
    PROVE  /\ World \in Worlds /\ World.goes = "on"
           /\ World.host = host /\ World.secrets = secrets /\ World.served = served
           /\ World.fresh = fresh /\ World.gone = gone
           /\ run.conf \in Confs /\ run.conf # None
  BY InstallerAssumption DEF World, Worlds, TypeOK, None

\* The host has a fact for the configuration of the run.
LEMMA EstablishMoves ==
    ASSUME NEW w \in Worlds, NEW f \in Facts, run.conf \in Confs
    PROVE  /\ Establish(w, f) \in Worlds
           /\ Establish(w, f).host = [w.host EXCEPT ![f] = run.conf]
           /\ Establish(w, f).gone = w.gone \ {f}
           /\ Establish(w, f).secrets = w.secrets /\ Establish(w, f).served = w.served
           /\ Establish(w, f).fresh = w.fresh /\ Establish(w, f).goes = w.goes
  BY DEF Establish, Worlds

LEMMA DropMoves ==
    ASSUME NEW w \in Worlds, NEW f \in Facts
    PROVE  /\ Drop(w, f) \in Worlds /\ Drop(w, f).host = w.host
           /\ Drop(w, f).gone = w.gone \cup {f}
           /\ Drop(w, f).secrets = w.secrets /\ Drop(w, f).served = w.served
           /\ Drop(w, f).fresh = w.fresh /\ Drop(w, f).goes = w.goes
  BY DEF Drop, Worlds

LEMMA EndsMoves ==
    ASSUME NEW w \in Worlds, NEW how \in Hows
    PROVE  /\ Ends(w, how) \in Worlds /\ Ends(w, how).host = w.host
           /\ Ends(w, how).gone = w.gone
           /\ Ends(w, how).secrets = w.secrets /\ Ends(w, how).served = w.served
           /\ Ends(w, how).fresh = w.fresh
           /\ Ends(w, how).goes \in {"error", "crash"}
           /\ how # "half" => Ends(w, how).goes = "error"
  BY DEF Ends, Worlds, Hows

LEMMA LostMoves ==
    ASSUME NEW w \in Worlds, NEW f \in Facts
    PROVE  /\ [w EXCEPT !.host[f] = None] \in Worlds
           /\ [w EXCEPT !.host[f] = None].host = [w.host EXCEPT ![f] = None]
           /\ [w EXCEPT !.host[f] = None].gone = w.gone
           /\ [w EXCEPT !.host[f] = None].secrets = w.secrets
           /\ [w EXCEPT !.host[f] = None].served = w.served
           /\ [w EXCEPT !.host[f] = None].fresh = w.fresh
           /\ [w EXCEPT !.host[f] = None].goes = w.goes
  BY DEF Worlds

\* What an effect does to a fact: nothing, or it gives up on it; it establishes
\* it; it removes it and gives up on it; or it removes it and ends the phase.
FactMoved(w, e, f) ==
    \/ w.host[f] = host[f] /\ (f \in gone => f \in w.gone)
    \/ w.host[f] = run.conf /\ f \in FactsOf(e)
    \/ /\ w.host[f] = None /\ f \in w.gone
       /\ (e.kind = "tryreset" /\ f = e.fact) \/ (e.kind = "image" /\ f = "quota-filesystem")
    \/ /\ w.host[f] = None /\ e.kind = "reset" /\ f = e.fact
       /\ w.goes \in {"error", "crash"}
Moved(w, e) == \A f \in Facts : FactMoved(w, e, f)

\* What it has left when the phase goes on.
FactLeft(w, f) ==
    /\ w.host[f] # None \/ f \in w.gone
    /\ f \in Named => w.host[f] = run.conf \/ f \in w.gone
FactsLeft(w, e) == w.goes = "on" => \A f \in FactsOf(e) : FactLeft(w, f)

SecretsAlone(w) ==
    /\ w.secrets = secrets /\ w.served = served
    /\ "secrets" \in w.gone <=> "secrets" \in gone
    /\ "password" \in w.gone <=> "password" \in gone

SecretEffects == {"secrets", "keep-secrets", "key", "control-plane", "live"}

PlainMoved(w, e, how) ==
    /\ w \in Worlds /\ Moved(w, e) /\ FactsLeft(w, e) /\ SecretsAlone(w)
    /\ w.goes # "done" /\ w.fresh = fresh
    /\ how = "works" => \/ w.goes = "on" /\ w.host[e.fact] # None
                        \/ /\ w.goes = "error" /\ e.kind = "need" /\ host[e.fact] = None
                           /\ w.gone = gone

LEMMA PlainMoves ==
    ASSUME TypeOK, NEW e, NEW how \in Hows,
           e.kind \in {"must", "try", "keep", "need", "reset", "tryreset"},
           e.fact \in Facts, FactsOf(e) = {e.fact},
           e.fact # "secrets", e.fact # "password",
           e.kind = "need" => e.fact \notin Named
    PROVE  PlainMoved(Take(World, e, how), e, how)
<1> USE DEF Hows
<1> DEFINE w == Take(World, e, how)
           x == e.fact
<1> SUFFICES PlainMoved(w, e, how)
  OBVIOUS
<1> HIDE DEF w
<1>1. /\ World \in Worlds /\ World.goes = "on"
      /\ World.host = host /\ World.secrets = secrets /\ World.served = served
      /\ World.fresh = fresh /\ World.gone = gone
      /\ run.conf \in Confs /\ run.conf # None
      /\ host \in [Facts -> Confs \cup {None}]
  BY WorldType DEF TypeOK
<1>2. CASE w = Establish(World, x)
  <2>1. /\ w \in Worlds /\ w.host = [host EXCEPT ![x] = run.conf] /\ w.gone = gone \ {x}
        /\ w.secrets = secrets /\ w.served = served /\ w.fresh = fresh /\ w.goes = "on"
    BY <1>1, <1>2, EstablishMoves
  <2>2. w.host[x] = run.conf /\ \A f \in Facts \ {x} : w.host[f] = host[f]
    BY <1>1, <2>1
  <2> QED
    BY <1>1, <2>1, <2>2
       DEF PlainMoved, Moved, FactMoved, FactsLeft, FactLeft, SecretsAlone
<1>3. CASE w = Ends(World, how) /\ (how # "works" \/ (e.kind = "need" /\ host[x] = None))
  <2>1. /\ w \in Worlds /\ w.host = host /\ w.gone = gone
        /\ w.secrets = secrets /\ w.served = served /\ w.fresh = fresh
        /\ w.goes \in {"error", "crash"} /\ (how # "half" => w.goes = "error")
    BY <1>1, <1>3, EndsMoves
  <2> QED
    BY <1>1, <1>3, <2>1
       DEF PlainMoved, Moved, FactMoved, FactsLeft, FactLeft, SecretsAlone
<1>4. CASE w = Drop(World, x) /\ (how # "works" \/ host[x] # None)
  <2>1. /\ w \in Worlds /\ w.host = host /\ w.gone = gone \cup {x}
        /\ w.secrets = secrets /\ w.served = served /\ w.fresh = fresh /\ w.goes = "on"
    BY <1>1, <1>4, DropMoves
  <2> QED
    BY <1>1, <1>4, <2>1
       DEF PlainMoved, Moved, FactMoved, FactsLeft, FactLeft, SecretsAlone
<1>5. CASE e.kind \in {"must", "try"}
  BY <1>2, <1>3, <1>4, <1>5 DEF w, Take
<1>6. CASE w = World /\ host[x] # None /\ (x \in Named => host[x] = run.conf)
  <2> QED
    BY <1>1, <1>6 DEF PlainMoved, Moved, FactMoved, FactsLeft, FactLeft, SecretsAlone
<1>7. CASE e.kind \in {"keep", "need"}
  BY <1>1, <1>2, <1>3, <1>4, <1>6, <1>7 DEF w, Take
<1>8. CASE e.kind = "reset" /\ how # "works"
  <2> DEFINE lost == [World EXCEPT !.host[x] = None]
  <2>1. w = Ends(lost, how)
    BY <1>8 DEF w, Take
  <2>2. /\ lost \in Worlds /\ lost.host = [host EXCEPT ![x] = None]
        /\ lost.gone = gone /\ lost.secrets = secrets /\ lost.served = served
        /\ lost.fresh = fresh
    BY <1>1, LostMoves
  <2> HIDE DEF lost
  <2>3. /\ w \in Worlds /\ w.host = [host EXCEPT ![x] = None] /\ w.gone = gone
        /\ w.secrets = secrets /\ w.served = served /\ w.fresh = fresh
        /\ w.goes \in {"error", "crash"}
    BY <2>1, <2>2, EndsMoves
  <2>4. w.host[x] = None /\ \A f \in Facts \ {x} : w.host[f] = host[f]
    BY <1>1, <2>3
  <2> QED
    BY <1>1, <1>8, <2>3, <2>4
       DEF PlainMoved, Moved, FactMoved, FactsLeft, FactLeft, SecretsAlone
<1>9. CASE e.kind = "tryreset" /\ how # "works"
  <2> DEFINE dropped == Drop(World, x)
             lost == [dropped EXCEPT !.host[x] = None]
  <2>1. w = IF how = "half" THEN Ends(lost, how) ELSE lost
    BY <1>9 DEF w, Take
  <2>2. /\ dropped \in Worlds /\ dropped.host = host /\ dropped.gone = gone \cup {x}
        /\ dropped.secrets = secrets /\ dropped.served = served /\ dropped.fresh = fresh
        /\ dropped.goes = "on"
    BY <1>1, DropMoves
  <2> HIDE DEF dropped
  <2>3. /\ lost \in Worlds /\ lost.host = [host EXCEPT ![x] = None]
        /\ lost.gone = gone \cup {x} /\ lost.secrets = secrets /\ lost.served = served
        /\ lost.fresh = fresh /\ lost.goes = "on"
    BY <2>2, LostMoves
  <2> HIDE DEF lost
  <2>4. /\ w \in Worlds /\ w.host = [host EXCEPT ![x] = None] /\ w.gone = gone \cup {x}
        /\ w.secrets = secrets /\ w.served = served /\ w.fresh = fresh
        /\ w.goes \in {"on", "error", "crash"}
    BY <2>1, <2>3, EndsMoves
  <2>5. w.host[x] = None /\ \A f \in Facts \ {x} : w.host[f] = host[f]
    BY <1>1, <2>4
  <2> QED
    BY <1>1, <1>9, <2>4, <2>5
       DEF PlainMoved, Moved, FactMoved, FactsLeft, FactLeft, SecretsAlone
<1>10. CASE e.kind \in {"reset", "tryreset"} /\ how = "works"
  BY <1>2, <1>10 DEF w, Take
<1> QED
  BY <1>5, <1>7, <1>8, <1>9, <1>10

\* What belongs together on the host that w describes.
PairsOf(w) ==
    /\ w.host["backup-key"] # None => w.host["backup-key.pub"] # None \/ "backup-key.pub" \in w.gone
    /\ w.host["quota-image"] # None =>
          w.host["quota-filesystem"] # None \/ "quota-filesystem" \in w.gone

MadeMoved(w, e, how) ==
    /\ w \in Worlds /\ Moved(w, e) /\ FactsLeft(w, e) /\ SecretsAlone(w) /\ PairsOf(w)
    /\ w.goes = "done" =>
          \/ e.kind = "image" /\ ~quota
          \/ e.kind = "mount" /\ {"quota-mount", "quota-fstab", "home-binds"} \subseteq w.gone
    /\ how = "works" => w.goes \in {"on", "done"}
    /\ e.kind = "image" /\ w.goes = "on" => quota /\ w.host["quota-image"] # None
    /\ e.kind = "backup-key" /\ w.goes = "on" =>
          w.host["backup-key.pub"] # None \/ "backup-key.pub" \in w.gone

LEMMA MadeMoves ==
    ASSUME TypeOK, PairsInv, NEW e, NEW how \in Hows,
           e.kind \in {"image", "mkfs", "mount", "backup-key"},
           e.kind = "mkfs" => host["quota-image"] # None
    PROVE  MadeMoved(Take(World, e, how), e, how)
<1> USE DEF Hows
<1> DEFINE w == Take(World, e, how)
           OK == w \in Worlds /\ Moved(w, e) /\ FactsLeft(w, e) /\ SecretsAlone(w) /\ PairsOf(w)
<1> SUFFICES MadeMoved(w, e, how)
  OBVIOUS
<1> HIDE DEF w
<1>1. /\ World \in Worlds /\ World.goes = "on"
      /\ World.host = host /\ World.secrets = secrets /\ World.served = served
      /\ World.fresh = fresh /\ World.gone = gone
      /\ run.conf \in Confs /\ run.conf # None
      /\ host \in [Facts -> Confs \cup {None}]
  BY WorldType DEF TypeOK
<1>2. /\ Made \subseteq Facts /\ "backup-key.pub" \in Facts /\ "quota-fstab" \in Facts
      /\ "home-binds" \in Facts
      /\ "quota-image" \in Facts /\ "quota-filesystem" \in Facts /\ "quota-mount" \in Facts
      /\ "backup-key" \in Facts
  BY FactPlaces DEF Made
<1>3. /\ e.kind = "backup-key" => FactsOf(e) = {"backup-key", "backup-key.pub"}
      /\ e.kind = "image" => FactsOf(e) = {"quota-image"}
      /\ e.kind = "mkfs" => FactsOf(e) = {"quota-filesystem"}
      /\ e.kind = "mount" => FactsOf(e) = {"quota-mount"}
  BY DEF FactsOf, Special
<1>4. {"backup-key", "backup-key.pub", "quota-image", "quota-filesystem", "quota-mount"}
         \cap Named = {}
  BY DEF Named
<1>5. /\ host["backup-key"] # None => host["backup-key.pub"] # None \/ "backup-key.pub" \in gone
      /\ host["quota-image"] # None =>
            host["quota-filesystem"] # None \/ "quota-filesystem" \in gone
  BY DEF PairsInv, Excused
<1>6. CASE w = Ends(World, how) /\ how # "works"
  <2>1. /\ w \in Worlds /\ w.host = host /\ w.gone = gone
        /\ w.secrets = secrets /\ w.served = served
        /\ w.goes \in {"error", "crash"}
    BY <1>1, <1>6, EndsMoves
  <2> QED
    BY <1>5, <1>6, <2>1 DEF MadeMoved, Moved, FactMoved, FactsLeft, SecretsAlone, PairsOf
<1>7. CASE /\ w = World /\ \A f \in FactsOf(e) : host[f] # None \/ f \in gone
           /\ e.kind = "image" => quota /\ host["quota-image"] # None
  <2>2. e.kind = "backup-key" => host["backup-key.pub"] # None \/ "backup-key.pub" \in gone
    BY <1>3, <1>7
  <2> QED
    BY <1>1, <1>3, <1>4, <1>5, <1>7, <2>2
       DEF MadeMoved, Moved, FactMoved, FactsLeft, FactLeft, SecretsAlone, PairsOf
<1>8. CASE e.kind = "backup-key"
  <2>1. CASE host["backup-key"] # None
    BY <1>1, <1>3, <1>5, <1>7, <1>8, <2>1 DEF w, Take, BackupKey
  <2>2. CASE host["backup-key"] = None /\ how = "works"
    <3> DEFINE v == Establish(World, "backup-key")
    <3>1. w = Establish(v, "backup-key.pub")
      BY <1>1, <1>8, <2>2 DEF w, Take, BackupKey
    <3>2. /\ v \in Worlds /\ v.host = [host EXCEPT !["backup-key"] = run.conf]
          /\ v.gone = gone \ {"backup-key"} /\ v.secrets = secrets /\ v.served = served
          /\ v.goes = "on"
      BY <1>1, <1>2, EstablishMoves
    <3> HIDE DEF v
    <3>3. /\ w \in Worlds /\ w.host = [v.host EXCEPT !["backup-key.pub"] = run.conf]
          /\ w.gone = v.gone \ {"backup-key.pub"} /\ w.secrets = secrets /\ w.served = served
          /\ w.goes = "on"
      BY <1>1, <1>2, <3>1, <3>2, EstablishMoves
    <3>4. /\ w.host["backup-key"] = run.conf /\ w.host["backup-key.pub"] = run.conf
          /\ \A f \in Facts \ {"backup-key", "backup-key.pub"} : w.host[f] = host[f]
      BY <1>1, <1>2, <3>2, <3>3
    <3> QED
      BY <1>1, <1>2, <1>3, <1>4, <1>5, <1>8, <3>2, <3>3, <3>4
         DEF MadeMoved, Moved, FactMoved, FactsLeft, FactLeft, SecretsAlone, PairsOf
  <2> QED
    BY <1>1, <1>6, <1>8, <2>1, <2>2 DEF w, Take, BackupKey
<1>9. CASE e.kind = "image"
  <2>1. CASE ~quota
    <3>1. w = [World EXCEPT !.goes = "done"]
      BY <1>9, <2>1 DEF w, Take, MakeQuotaImage
    <3>2. /\ w \in Worlds /\ w.host = host /\ w.gone = gone /\ w.secrets = secrets
          /\ w.served = served /\ w.goes = "done"
      BY <1>1, <3>1 DEF Worlds
    <3> QED
      BY <1>5, <1>9, <2>1, <3>2 DEF MadeMoved, Moved, FactMoved, FactsLeft, SecretsAlone, PairsOf
  <2>2. CASE quota /\ host["quota-image"] # None
    BY <1>1, <1>3, <1>7, <1>9, <2>2 DEF w, Take, MakeQuotaImage
  <2>3. CASE quota /\ host["quota-image"] = None /\ how = "works"
    <3> DEFINE v == [World EXCEPT !.host["quota-filesystem"] = None,
                                  !.gone = @ \cup {"quota-filesystem"}]
    <3>1. w = Establish(v, "quota-image")
      BY <1>1, <1>9, <2>3 DEF w, Take, MakeQuotaImage
    <3>2. /\ v \in Worlds /\ v.host = [host EXCEPT !["quota-filesystem"] = None]
          /\ v.gone = gone \cup {"quota-filesystem"} /\ v.secrets = secrets
          /\ v.served = served /\ v.goes = "on"
      BY <1>1, <1>2 DEF Worlds
    <3> HIDE DEF v
    <3>3. /\ w \in Worlds /\ w.host = [v.host EXCEPT !["quota-image"] = run.conf]
          /\ w.gone = v.gone \ {"quota-image"} /\ w.secrets = secrets /\ w.served = served
          /\ w.goes = "on"
      BY <1>1, <1>2, <3>1, <3>2, EstablishMoves
    <3>4. /\ w.host["quota-image"] = run.conf /\ w.host["quota-filesystem"] = None
          /\ "quota-filesystem" \in w.gone
          /\ \A f \in Facts \ {"quota-image", "quota-filesystem"} : w.host[f] = host[f]
      BY <1>1, <1>2, <3>2, <3>3
    <3> QED
      BY <1>1, <1>2, <1>3, <1>4, <1>5, <1>9, <2>3, <3>2, <3>3, <3>4
         DEF MadeMoved, Moved, FactMoved, FactsLeft, FactLeft, SecretsAlone, PairsOf
  <2> QED
    BY <1>1, <1>6, <1>9, <2>1, <2>2, <2>3 DEF w, Take, MakeQuotaImage
<1>10. CASE w = Establish(World, "quota-filesystem") /\ e.kind = "mkfs"
  <2>1. /\ w \in Worlds /\ w.host = [host EXCEPT !["quota-filesystem"] = run.conf]
        /\ w.gone = gone \ {"quota-filesystem"} /\ w.secrets = secrets /\ w.served = served
        /\ w.goes = "on"
    BY <1>1, <1>2, <1>10, EstablishMoves
  <2>2. /\ w.host["quota-filesystem"] = run.conf
        /\ \A f \in Facts \ {"quota-filesystem"} : w.host[f] = host[f]
    BY <1>1, <1>2, <2>1
  <2> QED
    BY <1>1, <1>2, <1>3, <1>4, <1>5, <1>10, <2>1, <2>2
       DEF MadeMoved, Moved, FactMoved, FactsLeft, FactLeft, SecretsAlone, PairsOf
<1>11. CASE e.kind = "mkfs"
  BY <1>1, <1>3, <1>5, <1>6, <1>7, <1>10, <1>11 DEF w, Take, MakeFilesystem
<1>12. CASE w = Establish(World, "quota-mount") /\ e.kind = "mount"
  <2>1. /\ w \in Worlds /\ w.host = [host EXCEPT !["quota-mount"] = run.conf]
        /\ w.gone = gone \ {"quota-mount"} /\ w.secrets = secrets /\ w.served = served
        /\ w.goes = "on"
    BY <1>1, <1>2, <1>12, EstablishMoves
  <2>2. /\ w.host["quota-mount"] = run.conf
        /\ \A f \in Facts \ {"quota-mount"} : w.host[f] = host[f]
    BY <1>1, <1>2, <2>1
  <2> QED
    BY <1>1, <1>2, <1>3, <1>4, <1>5, <1>12, <2>1, <2>2
       DEF MadeMoved, Moved, FactMoved, FactsLeft, FactLeft, SecretsAlone, PairsOf
<1>13. CASE /\ e.kind = "mount"
            /\ w = [World EXCEPT !.goes = "done",
                       !.gone = @ \cup {"quota-mount", "quota-fstab", "home-binds"}]
  <2>1. /\ w \in Worlds /\ w.host = host
        /\ w.gone = gone \cup {"quota-mount", "quota-fstab", "home-binds"}
        /\ w.secrets = secrets /\ w.served = served /\ w.goes = "done"
    BY <1>1, <1>2, <1>13 DEF Worlds
  <2> QED
    BY <1>5, <1>13, <2>1 DEF MadeMoved, Moved, FactMoved, FactsLeft, SecretsAlone, PairsOf
<1>14. CASE e.kind = "mount"
  BY <1>1, <1>3, <1>6, <1>7, <1>12, <1>13, <1>14 DEF w, Take, MountQuotaImage
<1> QED
  BY <1>8, <1>9, <1>11, <1>14

\* What Ensure makes of the secrets: a key in use is kept, a password that is
\* given is stored, and one that Director does not have is known to be stale.
EnsureMoved(w, password, how) ==
    /\ w \in Worlds /\ w.host = host /\ w.served = served /\ w.goes # "done"
    /\ gone \subseteq w.gone /\ w.gone \subseteq gone \cup {"password"}
    /\ HaveSecrets => /\ w.secrets.admin # 0 /\ w.secrets.key = secrets.key
                      /\ password = 0 => w.secrets.admin = secrets.admin
    /\ w.goes = "on" => /\ w.secrets.admin # 0 /\ w.secrets.key # 0
                        /\ password # 0 => w.secrets.admin = password
    /\ \/ w.secrets.admin = secrets.admin
       \/ served.admin \in {0, w.secrets.admin} \/ "password" \in w.gone
    /\ how = "works" /\ w.goes # "on" => password = KnownPassword

LEMMA EnsureMoves ==
    ASSUME TypeOK, NEW password \in Nat, NEW how \in Hows
    PROVE  EnsureMoved(Ensure(World, password, how), password, how)
<1> USE DEF Hows
<1> DEFINE w == Ensure(World, password, how)
           load == HaveSecrets
           admin == IF password # 0 THEN password
                    ELSE IF load THEN secrets.admin ELSE fresh + 1
           key == IF load THEN secrets.key ELSE fresh + 2
           used == IF load THEN fresh ELSE fresh + 2
<1> SUFFICES EnsureMoved(w, password, how)
  OBVIOUS
<1> HIDE DEF w
<1>1. /\ World \in Worlds /\ World.goes = "on"
      /\ World.host = host /\ World.secrets = secrets /\ World.served = served
      /\ World.fresh = fresh /\ World.gone = gone
  BY WorldType
<1>2. /\ secrets.admin \in Nat /\ secrets.key \in Nat /\ fresh \in Nat
  BY DEF TypeOK
<1>3. CASE w = Ends(World, "fails") /\ (how = "fails" \/ password = KnownPassword)
  <2>1. /\ w \in Worlds /\ w.host = host /\ w.gone = gone
        /\ w.secrets = secrets /\ w.served = served /\ w.goes = "error"
    BY <1>1, <1>3, EndsMoves
  <2> QED
    BY <1>3, <2>1 DEF EnsureMoved, HaveSecrets
<1>4. admin \in Nat /\ key \in Nat /\ used \in Nat /\ admin # 0 /\ key # 0
  BY <1>2 DEF HaveSecrets
<1>5. Loaded(World) <=> load
  BY <1>1 DEF Loaded, HaveSecrets
<1>6. \/ w = Ends(World, "fails") /\ (how = "fails" \/ password = KnownPassword)
      \/ w = Stored(World, admin, key, used, how) /\ how # "fails"
  BY <1>1, <1>5 DEF w, Ensure
<1>7. /\ load => key = secrets.key /\ (password = 0 => admin = secrets.admin)
      /\ password # 0 => admin = password
  OBVIOUS
<1>8. CASE w = Stored(World, admin, key, used, how) /\ how # "fails"
  <2> HIDE DEF admin, key, used, load
  <2> DEFINE v == [World EXCEPT !.secrets.admin = admin, !.fresh = used,
                       !.gone = IF World.served.admin \in {0, admin} THEN @
                                ELSE @ \cup {"password"}]
  <2>1. /\ v \in Worlds /\ v.host = host /\ v.served = served /\ v.goes = "on"
        /\ v.secrets.admin = admin /\ v.secrets.key = secrets.key
        /\ v.gone = IF served.admin \in {0, admin} THEN gone ELSE gone \cup {"password"}
    <3>1. World.secrets \in [admin : Nat, key : Nat]
      BY <1>1 DEF Worlds
    <3>2. [World.secrets EXCEPT !.admin = admin] \in [admin : Nat, key : Nat]
      BY <1>4, <3>1
    <3> QED
      BY <1>1, <1>4, <3>2 DEF Worlds
  <2>2. w = IF how = "half" THEN Ends(v, how) ELSE [v EXCEPT !.secrets.key = key]
    BY <1>8 DEF Stored
  <2> HIDE DEF v
  <2>3. CASE how = "half"
    <3>1. /\ w \in Worlds /\ w.host = host /\ w.gone = v.gone
          /\ w.secrets = v.secrets /\ w.served = served /\ w.goes \in {"error", "crash"}
      BY <2>1, <2>2, <2>3, EndsMoves
    <3> QED
      BY <1>4, <1>7, <2>1, <2>3, <3>1 DEF EnsureMoved, load
  <2>4. CASE how = "works"
    <3>1. w = [v EXCEPT !.secrets.key = key]
      BY <2>2, <2>4
    <3>2. /\ w \in Worlds /\ w.host = host /\ w.gone = v.gone
          /\ w.secrets.admin = admin /\ w.secrets.key = key
          /\ w.served = served /\ w.goes = "on"
      <4>1. v.secrets \in [admin : Nat, key : Nat]
        BY <2>1 DEF Worlds
      <4>2. [v.secrets EXCEPT !.key = key] \in [admin : Nat, key : Nat]
        BY <1>4, <4>1
      <4> QED
        BY <1>4, <2>1, <3>1, <4>1, <4>2 DEF Worlds
    <3> QED
      BY <1>4, <1>7, <2>1, <2>4, <3>2 DEF EnsureMoved, load
  <2> QED
    BY <1>8, <2>3, <2>4
<1> QED
  BY <1>3, <1>6, <1>8

\* What the effects on the secrets leave.
SecretsMoved(w, e) ==
    /\ HaveSecrets => w.secrets.admin # 0 /\ w.secrets.key = secrets.key
    /\ "secrets" \in gone => "secrets" \in w.gone \/ (e.kind = "key" /\ HaveSecrets)
    /\ served.key # 0 => w.served.key # 0
    /\ w.served.key # 0 => \/ "secrets" \in w.gone
                           \/ /\ w.secrets.admin # 0 /\ w.secrets.key # 0
                              /\ w.secrets.key = w.served.key
    /\ w.host["control-plane"] # None => w.served.admin # 0
    /\ \/ w.served.admin = 0 \/ w.secrets.admin \in {0, w.served.admin}
       \/ "password" \in w.gone
    /\ e.kind \notin {"secrets", "keep-secrets"} => w.secrets = secrets
    /\ e.kind \notin SecretEffects => w.served = served

\* What they have left when the phase goes on.
SecretsLeft(w, e) ==
    w.goes = "on" =>
        /\ e.kind \in {"secrets", "keep-secrets"} => w.secrets.admin # 0 /\ w.secrets.key # 0
        /\ e.kind = "secrets" => (run.password # 0 => w.secrets.admin = run.password)
        /\ e.kind = "key" => w.served.key # 0
        /\ e.kind = "live" => w.served.admin \in {0, w.secrets.admin}

SecretMoved(w, e, how) ==
    /\ w \in Worlds /\ Moved(w, e) /\ FactsLeft(w, e) /\ w.goes # "done"
    /\ SecretsMoved(w, e) /\ SecretsLeft(w, e)
    /\ how = "works" => \/ w.goes = "on"
                        \/ w.goes = "error" /\ e.kind = "secrets" /\ run.password = KnownPassword
    /\ how = "works" /\ e.kind = "control-plane" /\ w.goes = "on" =>
          w.host["control-plane"] # None \/ "secrets" \in w.gone

\* Director has the password that is stored.
LEMMA AdminServed ==
    ASSUME NEW u \in Worlds, NEW w,
           w = [u EXCEPT !.served.admin = u.secrets.admin, !.gone = @ \ {"password"}]
    PROVE  /\ w \in Worlds /\ w.host = u.host /\ w.secrets = u.secrets /\ w.goes = u.goes
           /\ w.served.admin = u.secrets.admin /\ w.served.key = u.served.key
           /\ w.gone = u.gone \ {"password"}
<1>1. u.served \in [key : Nat, admin : Nat] /\ u.secrets.admin \in Nat
  BY DEF Worlds
<1>2. [u.served EXCEPT !.admin = u.secrets.admin] \in [key : Nat, admin : Nat]
  BY <1>1
<1> QED
  BY <1>1, <1>2 DEF Worlds

LEMMA SecretMoves ==
    ASSUME TypeOK, KeyInv, PasswordInv, NEW e, NEW how \in Hows,
           e.kind \in SecretEffects,
           e.kind \in {"key", "live"} => HaveSecrets,
           e.kind = "control-plane" => HaveSecrets \/ "secrets" \in gone
    PROVE  SecretMoved(Take(World, e, how), e, how)
<1> USE DEF Hows
<1> DEFINE w == Take(World, e, how)
<1> SUFFICES SecretMoved(w, e, how)
  OBVIOUS
<1> HIDE DEF w
<1>1. /\ World \in Worlds /\ World.goes = "on"
      /\ World.host = host /\ World.secrets = secrets /\ World.served = served
      /\ World.fresh = fresh /\ World.gone = gone
      /\ run.conf \in Confs /\ run.conf # None
      /\ host \in [Facts -> Confs \cup {None}]
  BY WorldType DEF TypeOK
<1>2. /\ secrets.admin \in Nat /\ secrets.key \in Nat /\ served.key \in Nat
      /\ served.admin \in Nat /\ run.password \in Nat /\ KnownPassword # 0
  BY InstallerAssumption DEF TypeOK
<1>3. /\ "control-plane" \in Facts /\ "control-plane" \notin Named
      /\ "secrets" \notin Facts /\ "password" \notin Facts
  BY FactPlaces DEF Made, Named
<1>4. /\ e.kind = "control-plane" => FactsOf(e) = {"control-plane"}
      /\ e.kind # "control-plane" => FactsOf(e) = {}
  BY DEF FactsOf, Special, SecretEffects
<1>5. /\ served.key # 0 => "secrets" \in gone \/ (HaveSecrets /\ secrets.key = served.key)
      /\ host["control-plane"] # None => served.admin # 0
      /\ served.admin = 0 \/ secrets.admin \in {0, served.admin} \/ "password" \in gone
  BY DEF KeyInv, PasswordInv
<1> DEFINE Same == /\ w \in Worlds /\ w.host = host /\ w.gone = gone
                   /\ w.secrets = secrets /\ w.served = served
<1>6. CASE Same /\ w.goes \in {"error", "crash"} /\ how # "works"
  BY <1>5, <1>6 DEF SecretMoved, Moved, FactMoved, FactsLeft, SecretsMoved, SecretsLeft, HaveSecrets
<1>7. CASE w = Ends(World, how) /\ how # "works"
  <2>1. Same /\ w.goes \in {"error", "crash"}
    BY <1>1, <1>7, EndsMoves
  <2> QED
    BY <1>6, <1>7, <2>1
<1>8. ASSUME NEW password \in Nat, w = Ensure(World, password, how),
             \/ e.kind = "secrets" /\ password = run.password
             \/ e.kind = "keep-secrets" /\ password = 0
      PROVE  SecretMoved(w, e, how)
  <2>1. EnsureMoved(w, password, how)
    BY <1>8, EnsureMoves
  <2>2. /\ w \in Worlds /\ w.host = host /\ w.served = served /\ w.goes # "done"
        /\ gone \subseteq w.gone
    BY <2>1 DEF EnsureMoved
  <2>3. Moved(w, e) /\ FactsLeft(w, e)
    BY <1>4, <1>8, <2>2 DEF Moved, FactMoved, FactsLeft
  <2>4. SecretsMoved(w, e)
    BY <1>5, <1>8, <2>1, <2>2 DEF SecretsMoved, EnsureMoved, HaveSecrets, SecretEffects
  <2>5. SecretsLeft(w, e)
    BY <1>8, <2>1 DEF SecretsLeft, EnsureMoved
  <2>6. how = "works" =>
           \/ w.goes = "on"
           \/ w.goes = "error" /\ e.kind = "secrets" /\ run.password = KnownPassword
    <3>1. how = "works" => w.goes # "crash"
      <4>1. how = "works" /\ w.goes # "on" => password = KnownPassword
        BY <2>1 DEF EnsureMoved
      <4>2. CASE password = KnownPassword
        <5>1. w = Ends(World, "fails")
          BY <1>8, <4>2 DEF Ensure
        <5> QED
          BY <1>1, <5>1, EndsMoves
      <4> QED
        BY <4>1, <4>2
    <3>2. w.goes \in {"on", "done", "error", "crash"}
      BY <2>2 DEF Worlds
    <3>3. how = "works" /\ w.goes # "on" => password = KnownPassword
      BY <2>1 DEF EnsureMoved
    <3>4. password = KnownPassword => e.kind = "secrets" /\ run.password = KnownPassword
      BY <1>2, <1>8
    <3> QED
      BY <2>2, <3>1, <3>2, <3>3, <3>4
  <2> QED
    BY <1>8, <2>2, <2>3, <2>4, <2>5, <2>6 DEF SecretMoved
<1>9. CASE e.kind \in {"secrets", "keep-secrets"}
  <2>1. w = Ensure(World, IF e.kind = "secrets" THEN run.password ELSE 0, how)
    BY <1>9 DEF w, Take
  <2> QED
    BY <1>2, <1>8, <1>9, <2>1
<1>10. CASE e.kind = "key"
  <2>1. CASE how = "works"
    <3>1. w = [World EXCEPT !.served.key = World.secrets.key, !.gone = @ \ {"secrets"}]
      BY <1>10, <2>1 DEF w, Take
    <3>2. /\ w \in Worlds /\ w.host = host /\ w.secrets = secrets /\ w.goes = "on"
          /\ w.served.key = secrets.key /\ w.served.admin = served.admin
          /\ w.gone = gone \ {"secrets"}
      <4>1. World.served \in [key : Nat, admin : Nat]
        BY <1>1 DEF Worlds
      <4>2. [World.served EXCEPT !.key = World.secrets.key] \in [key : Nat, admin : Nat]
        BY <1>1, <1>2, <4>1
      <4> QED
        BY <1>1, <3>1, <4>1, <4>2 DEF Worlds
    <3>3. Moved(w, e)
      BY <1>3, <3>2 DEF Moved, FactMoved
    <3>4. FactsLeft(w, e)
      BY <1>4, <1>10 DEF FactsLeft
    <3> QED
      BY <1>5, <1>10, <3>2, <3>3, <3>4
         DEF SecretMoved, SecretsMoved, SecretsLeft, HaveSecrets, SecretEffects
  <2> QED
    BY <1>7, <1>10, <2>1 DEF w, Take
<1>11. CASE e.kind = "live"
  <2>1. CASE how = "works" /\ served.admin = 0
    <3>1. w = World
      BY <1>1, <1>11, <2>1 DEF w, Take, UpdateLiveAdminPassword
    <3>2. Same /\ w.goes = "on"
      BY <1>1, <3>1
    <3> QED
      BY <1>4, <1>5, <1>11, <2>1, <3>2
         DEF SecretMoved, Moved, FactMoved, FactsLeft, SecretsMoved, SecretsLeft, HaveSecrets
  <2>2. CASE how = "works" /\ served.admin # 0
    <3>1. w = [World EXCEPT !.served.admin = World.secrets.admin, !.gone = @ \ {"password"}]
      BY <1>1, <1>11, <2>2 DEF w, Take, UpdateLiveAdminPassword
    <3>2. /\ w \in Worlds /\ w.host = host /\ w.secrets = secrets /\ w.goes = "on"
          /\ w.served.admin = secrets.admin /\ w.served.key = served.key
          /\ w.gone = gone \ {"password"}
      BY <1>1, <3>1, AdminServed
    <3>3. Moved(w, e)
      BY <1>3, <3>2 DEF Moved, FactMoved
    <3>4. FactsLeft(w, e)
      BY <1>4, <1>11 DEF FactsLeft
    <3> QED
      BY <1>5, <1>11, <2>2, <3>2, <3>3, <3>4
         DEF SecretMoved, SecretsMoved, SecretsLeft, HaveSecrets, SecretEffects
  <2> QED
    BY <1>1, <1>7, <1>11, <2>1, <2>2 DEF w, Take, UpdateLiveAdminPassword
<1>12. CASE e.kind = "control-plane"
  <2>1. w = Boot(World, how)
    BY <1>12 DEF w, Take
  <2>2. CASE host["control-plane"] # None
    <3>1. w = World
      BY <1>1, <2>1, <2>2 DEF Boot
    <3>2. Same /\ w.goes = "on"
      BY <1>1, <3>1
    <3> QED
      BY <1>3, <1>4, <1>5, <1>12, <2>2, <3>2
         DEF SecretMoved, Moved, FactMoved, FactsLeft, FactLeft, SecretsMoved, SecretsLeft,
             HaveSecrets
  <2>3. Loaded(World) <=> HaveSecrets
    BY <1>1 DEF Loaded, HaveSecrets
  <2>4. CASE /\ host["control-plane"] = None
             /\ w = Drop(World, "control-plane") /\ (how = "fails" \/ ~HaveSecrets)
    <3>1. /\ w \in Worlds /\ w.host = host /\ w.gone = gone \cup {"control-plane"}
          /\ w.secrets = secrets /\ w.served = served /\ w.goes = "on"
      BY <1>1, <1>3, <2>4, DropMoves
    <3> QED
      BY <1>3, <1>4, <1>5, <1>12, <2>4, <3>1
         DEF SecretMoved, Moved, FactMoved, FactsLeft, FactLeft, SecretsMoved, SecretsLeft,
             HaveSecrets
  <2>5. CASE /\ host["control-plane"] = None /\ HaveSecrets
             /\ w = SeedAdmin(Establish(World, "control-plane"))
    <3> DEFINE u == Establish(World, "control-plane")
    <3>1. /\ u \in Worlds /\ u.host = [host EXCEPT !["control-plane"] = run.conf]
          /\ u.gone = gone \ {"control-plane"} /\ u.secrets = secrets /\ u.served = served
          /\ u.goes = "on"
      BY <1>1, <1>3, EstablishMoves
    <3>2. w = SeedAdmin(u)
      BY <2>5
    <3> HIDE DEF u
    <3>3. /\ u.host["control-plane"] = run.conf
          /\ \A f \in Facts \ {"control-plane"} : u.host[f] = host[f]
      BY <1>1, <1>3, <3>1
    <3>4. CASE served.admin # 0
      <4>1. w = u
        BY <3>1, <3>2, <3>4 DEF SeedAdmin
      <4>2. Moved(w, e) /\ FactsLeft(w, e)
        BY <1>1, <1>3, <1>4, <1>12, <3>1, <3>3, <4>1 DEF Moved, FactMoved, FactsLeft, FactLeft
      <4> QED
        BY <1>1, <1>3, <1>5, <1>12, <2>5, <3>1, <3>3, <3>4, <4>1, <4>2
           DEF SecretMoved, SecretsMoved, SecretsLeft, HaveSecrets
    <3>5. CASE served.admin = 0
      <4>1. w = [u EXCEPT !.served.admin = u.secrets.admin, !.gone = @ \ {"password"}]
        BY <3>1, <3>2, <3>5 DEF SeedAdmin
      <4>2. /\ w \in Worlds /\ w.host = u.host /\ w.secrets = secrets /\ w.goes = "on"
            /\ w.served.admin = secrets.admin /\ w.served.key = served.key
            /\ w.gone = (gone \ {"control-plane"}) \ {"password"}
        BY <3>1, <4>1, AdminServed
      <4>3. Moved(w, e) /\ FactsLeft(w, e)
        BY <1>1, <1>3, <1>4, <1>12, <3>1, <3>3, <4>2 DEF Moved, FactMoved, FactsLeft, FactLeft
      <4> QED
        BY <1>1, <1>3, <1>5, <1>12, <2>5, <3>3, <4>2, <4>3
           DEF SecretMoved, SecretsMoved, SecretsLeft, HaveSecrets, SecretEffects
    <3> QED
      BY <3>4, <3>5
  <2> QED
    BY <1>1, <1>7, <2>1, <2>2, <2>3, <2>4, <2>5 DEF Boot
<1> QED
  BY <1>9, <1>10, <1>11, <1>12 DEF SecretEffects

\* What an effect does that meets no failure.
Works(w, e) ==
    /\ w.goes # "crash"
    /\ w.goes = "error" => \/ e.kind = "secrets" /\ run.password = KnownPassword
                           \/ e.kind = "need" /\ host[e.fact] = None /\ w.gone = gone
    /\ w.goes # "error" => \A f \in Facts \ {"quota-filesystem"} :
                              host[f] # None => w.host[f] # None
    /\ w.goes = "on" =>
          /\ e.kind \notin Special => w.host[e.fact] # None
          /\ e.kind = "control-plane" => w.host["control-plane"] # None \/ "secrets" \in w.gone
          /\ e.kind = "backup-key" =>
                w.host["backup-key.pub"] # None \/ "backup-key.pub" \in w.gone

EffectMoved(w, e, how) ==
    /\ w \in Worlds /\ Moved(w, e) /\ FactsLeft(w, e)
    /\ SecretsMoved(w, e) /\ SecretsLeft(w, e) /\ PairsOf(w)
    /\ w.goes = "done" =>
          \/ e.kind = "image" /\ ~quota
          \/ e.kind = "mount" /\ {"quota-mount", "quota-fstab", "home-binds"} \subseteq w.gone
    /\ e.kind = "image" /\ w.goes = "on" => quota /\ w.host["quota-image"] # None
    /\ how = "works" => Works(w, e)

\* The effect the runner is at.
LEMMA AtEffectPlaced ==
    ASSUME InstallInv, AtEffect
    PROVE  /\ run.phase \in Phases /\ run.at \in 1..Len(Plan) /\ Len(Plan) \in Nat
           /\ Plan = All[run.phase].apply
           /\ Placed(run.phase, run.at, Plan[run.at])
           /\ FactsOf(Plan[run.at]) \subseteq Facts
           /\ \A i \in 1..Len(Plan) : i < run.at => EffectLeft(Plan[i])
           /\ ~run.hurt => \A i \in 1..Len(Plan) : i < run.at => Sound(Plan[i])
<1>1. run.phase \in Phases /\ run.at \in 1..Len(Plan) + 1
  BY DEF InstallInv, Runner, AtEffect, InPhase
<1>2. Plan = All[run.phase].apply /\ Len(Plan) \in Nat
  BY <1>1, PlanLength DEF Plan
<1>3. run.at \in 1..Len(Plan)
  BY <1>1, <1>2 DEF AtEffect
<1>4. Placed(run.phase, run.at, Plan[run.at])
  BY <1>1, <1>2, <1>3, EffectsPlaced DEF AllPlaced
<1>5. FactsOf(Plan[run.at]) \subseteq Facts
  BY <1>1, <1>2, <1>3, FactPlaces
<1> QED
  BY <1>1, <1>2, <1>3, <1>4, <1>5 DEF InstallInv, AtEffect, EffectsBehind, SoundRun, InPhase

LEMMA EffectMoves ==
    ASSUME InstallInv, AtEffect, NEW how \in Hows
    PROVE  EffectMoved(Take(World, Plan[run.at], how), Plan[run.at], how)
<1> DEFINE p == run.phase
           i == run.at
           e == Plan[i]
           w == Take(World, e, how)
<1> SUFFICES EffectMoved(w, e, how)
  OBVIOUS
<1> HIDE DEF w
<1>1. /\ p \in Phases /\ i \in 1..Len(Plan) /\ Plan = All[p].apply
      /\ Placed(p, i, e) /\ FactsOf(e) \subseteq Facts
      /\ \A j \in 1..Len(Plan) : j < i => EffectLeft(Plan[j])
  BY AtEffectPlaced
<1>2. /\ TypeOK /\ PhasesKept /\ PhasesBehind /\ KeyInv /\ PasswordInv /\ PairsInv
  BY DEF InstallInv
<1>3. {"backup-key", "backup-key.pub", "control-plane", "quota-image", "quota-filesystem"}
         \subseteq Facts /\ host \in [Facts -> Confs \cup {None}] /\ run.conf # None
  BY <1>2, FactPlaces, WorldType DEF Made, TypeOK
<1>4. e.kind \in Kinds
  BY <1>1 DEF Placed
<1>5. /\ served.key # 0 => "secrets" \in gone \/ (HaveSecrets /\ secrets.key = served.key)
      /\ host["control-plane"] # None => served.admin # 0
      /\ served.admin = 0 \/ secrets.admin \in {0, served.admin} \/ "password" \in gone
      /\ host["backup-key"] # None => host["backup-key.pub"] # None \/ "backup-key.pub" \in gone
      /\ host["quota-image"] # None =>
            host["quota-filesystem"] # None \/ "quota-filesystem" \in gone
  BY <1>2 DEF KeyInv, PasswordInv, PairsInv, Excused
<1> HIDE DEF p, i, e
<1>6. ASSUME SecretsAlone(w), w.host["control-plane"] = host["control-plane"],
             e.kind \notin SecretEffects
      PROVE  SecretsMoved(w, e) /\ SecretsLeft(w, e)
  BY <1>5, <1>6 DEF SecretsAlone, SecretsMoved, SecretsLeft, SecretEffects, HaveSecrets
<1>7. CASE e.kind \notin Special
  <2>1. /\ e.kind \in {"must", "try", "keep", "need", "reset", "tryreset"}
        /\ FactsOf(e) = {e.fact} /\ e.fact \in Facts /\ PlainPlaced(p, i, e)
    BY <1>1, <1>4, <1>7 DEF Kinds, FactsOf, Placed
  <2>2. /\ e.fact \notin Made /\ e.fact # "secrets" /\ e.fact # "password"
        /\ e.fact = "backup-key.pub" => e.kind = "need"
    BY <2>1 DEF PlainPlaced
  <2>3. e.kind = "need" => e.fact \notin Named
    BY <1>1 DEF Placed, Named
  <2>4. PlainMoved(w, e, how)
    BY <1>2, <2>1, <2>2, <2>3, PlainMoves DEF w
  <2>5. /\ w \in Worlds /\ Moved(w, e) /\ FactsLeft(w, e) /\ SecretsAlone(w) /\ w.goes # "done"
        /\ how = "works" => \/ w.goes = "on" /\ w.host[e.fact] # None
                            \/ /\ w.goes = "error" /\ e.kind = "need" /\ host[e.fact] = None
                               /\ w.gone = gone
    BY <2>4 DEF PlainMoved
  <2>6. \A f \in Facts : FactMoved(w, e, f)
    BY <2>5 DEF Moved
  <2>7. \A f \in Made : w.host[f] = host[f] /\ (f \in gone => f \in w.gone)
    BY <2>1, <2>2, <2>6, <1>7, FactPlaces DEF FactMoved, Special
  <2>8. PairsOf(w)
    <3>1. FactMoved(w, e, "backup-key.pub")
      BY <1>3, <2>6
    <3>2. host["backup-key.pub"] # None \/ "backup-key.pub" \in gone =>
             w.host["backup-key.pub"] # None \/ "backup-key.pub" \in w.gone
      BY <1>3, <2>1, <2>2, <3>1, <1>7 DEF FactMoved, Special
    <3> QED
      BY <1>5, <2>7, <3>2 DEF PairsOf, Made
  <2>9. SecretsMoved(w, e) /\ SecretsLeft(w, e)
    BY <1>6, <1>7, <2>5, <2>7 DEF Made, SecretEffects, Special
  <2>10. how = "works" => Works(w, e)
    <3>1. ASSUME how = "works", w.goes # "error", NEW f \in Facts, host[f] # None
          PROVE  w.host[f] # None
      BY <1>3, <1>7, <2>5, <2>6, <3>1 DEF FactMoved, Special
    <3> QED
      BY <1>7, <2>5, <3>1 DEF Works, Special
  <2> QED
    BY <1>7, <2>5, <2>8, <2>9, <2>10 DEF EffectMoved, Special
<1>8. CASE e.kind \in {"image", "mkfs", "mount", "backup-key"}
  <2>1. e.kind = "mkfs" => host["quota-image"] # None
    <3>1. ASSUME e.kind = "mkfs" PROVE host["quota-image"] # None
      <4>1. p = 17 /\ i = 2
        BY <1>1, <3>1 DEF Placed
      <4>2. 1 \in 1..Len(Plan) /\ Plan[1].kind = "image"
        BY <1>1, <4>1, Positions
      <4> QED
        BY <1>1, <4>1, <4>2 DEF EffectLeft
    <3> QED
      BY <3>1
  <2>2. MadeMoved(w, e, how)
    BY <1>2, <1>8, <2>1, MadeMoves DEF w
  <2>3. \A f \in Facts : FactMoved(w, e, f)
    BY <2>2 DEF MadeMoved, Moved
  <2>4. FactsOf(e) \subseteq {"backup-key", "backup-key.pub", "quota-image", "quota-filesystem",
                              "quota-mount"}
    BY <1>8 DEF FactsOf, Special
  <2>5. w.host["control-plane"] = host["control-plane"]
    BY <1>3, <1>8, <2>3, <2>4 DEF FactMoved
  <2>6. SecretsMoved(w, e) /\ SecretsLeft(w, e)
    BY <1>6, <1>8, <2>2, <2>5 DEF MadeMoved, SecretEffects
  <2>7. how = "works" => Works(w, e)
    <3>1. ASSUME NEW f \in Facts \ {"quota-filesystem"}, host[f] # None
          PROVE  w.host[f] # None
      BY <1>3, <1>8, <2>3, <3>1 DEF FactMoved
    <3> QED
      BY <1>8, <2>2, <3>1 DEF Works, MadeMoved, Special
  <2> QED
    BY <1>8, <2>2, <2>6, <2>7 DEF EffectMoved, MadeMoved
<1>9. CASE e.kind \in SecretEffects
  <2>1. e.kind \in {"key", "live"} => HaveSecrets
    <3>1. ASSUME e.kind = "key" PROVE HaveSecrets
      <4>1. p = 9 /\ i = 4
        BY <1>1, <3>1 DEF Placed
      <4>2. 2 \in 1..Len(Plan) /\ Plan[2].kind = "keep-secrets"
        BY <1>1, <4>1, Positions
      <4> QED
        BY <1>1, <4>1, <4>2 DEF EffectLeft
    <3>2. ASSUME e.kind = "live" PROVE HaveSecrets
      <4>1. p = 20 /\ i = 3
        BY <1>1, <3>2 DEF Placed
      <4>2. 1 \in 1..Len(Plan) /\ Plan[1].kind = "secrets"
        BY <1>1, <4>1, Positions
      <4> QED
        BY <1>1, <4>1, <4>2 DEF EffectLeft
    <3> QED
      BY <3>1, <3>2
  <2>2. e.kind = "control-plane" => HaveSecrets \/ "secrets" \in gone
    <3>1. ASSUME e.kind = "control-plane" PROVE HaveSecrets \/ "secrets" \in gone
      <4>1. p = 18
        BY <1>1, <3>1 DEF Placed
      <4>2. 6 \in Phases /\ 6 < p
        BY <4>1, PhaseNumbers
      <4>3. state.status[6] = "complete"
        BY <1>2, <4>2 DEF PhasesBehind, InRun, AtEffect, p
      <4>4. 1 \in 1..Len(All[6].apply) /\ All[6].apply[1].kind = "secrets"
        BY Positions
      <4>5. EffectKept(All[6].apply[1], state.print[6])
        BY <1>2, <4>2, <4>3, <4>4 DEF PhasesKept
      <4> QED
        BY <4>4, <4>5 DEF EffectKept
    <3> QED
      BY <3>1
  <2>3. SecretMoved(w, e, how)
    BY <1>2, <1>9, <2>1, <2>2, SecretMoves DEF w
  <2>4. \A f \in Facts : FactMoved(w, e, f)
    BY <2>3 DEF SecretMoved, Moved
  <2>5. FactsOf(e) \subseteq {"control-plane"} /\ e.kind \in Special
    BY <1>9 DEF FactsOf, Special, SecretEffects
  <2>6. \A f \in Facts \ {"control-plane"} : w.host[f] = host[f] /\ (f \in gone => f \in w.gone)
    BY <1>9, <2>4, <2>5 DEF FactMoved, SecretEffects
  <2>7. PairsOf(w)
    BY <1>3, <1>5, <2>6 DEF PairsOf
  <2>8. how = "works" => Works(w, e)
    <3>1. ASSUME NEW f \in Facts, host[f] # None PROVE w.host[f] # None
      BY <1>3, <1>9, <2>4, <3>1 DEF FactMoved, SecretEffects
    <3> QED
      BY <1>9, <2>3, <2>5, <3>1 DEF Works, SecretMoved, SecretEffects
  <2> QED
    BY <1>9, <2>3, <2>7, <2>8 DEF EffectMoved, SecretMoved, SecretEffects
<1> QED
  BY <1>4, <1>7, <1>8, <1>9 DEF Kinds, Special, SecretEffects

Records == [pc : {"phase", "apply", "verify", "ok", "error"}, phase : 1..Len(All) + 1,
            at : Nat, blank : BOOLEAN, conf : Confs, password : Passwords,
            printed : Nat, hurt : BOOLEAN, skipped : BOOLEAN]

\* What an effect makes of the run and of the state file.
RunMoved(w, hurt) ==
    /\ run'.phase = run.phase /\ run'.conf = run.conf /\ run'.password = run.password
    /\ run'.skipped = run.skipped
    /\ \/ run'.pc = "apply" /\ w.goes = "on" /\ run'.at = run.at + 1 /\ state' = state
       \/ run'.pc = "verify" /\ w.goes = "done" /\ run'.at = run.at /\ state' = state
       \/ run'.pc = "error" /\ w.goes \in {"error", "crash"}
    /\ ~run'.hurt => ~run.hurt /\ ~hurt /\ w.goes # "crash"
    /\ state'.print = state.print
    /\ \A q \in Phases : q # run.phase => state'.status[q] = state.status[q]
    /\ state'.status[run.phase] \in {"running", "failed"}

LEMMA RunMoves ==
    ASSUME InstallInv, AtEffect, NEW w \in Worlds, NEW hurt \in BOOLEAN, ApplyOf(w, hurt),
           faults' \in 0..MaxFaults
    PROVE  RunMoved(w, hurt) /\ TypeOK'
<1>1. TypeOK /\ run.phase \in Phases /\ state.status[run.phase] = "running"
  BY DEF InstallInv, Runner, AtEffect, InPhase
<1>2. /\ run.at \in Nat /\ run.hurt \in BOOLEAN /\ run.blank \in BOOLEAN
      /\ w.goes \in {"on", "done", "error", "crash"}
  BY <1>1 DEF TypeOK, Worlds
<1>3. /\ host' = w.host /\ secrets' = w.secrets /\ served' = w.served
      /\ fresh' = w.fresh /\ gone' = w.gone /\ quota' = quota /\ runs' = runs
  BY DEF ApplyOf, Becomes
<1>4. /\ host' \in [Facts -> Confs \cup {None}]
      /\ secrets' \in [admin : Nat, key : Nat] /\ served' \in [key : Nat, admin : Nat]
      /\ quota' \in BOOLEAN /\ runs' \in 0..MaxRuns /\ fresh' \in Nat
      /\ gone' \subseteq Facts \cup {"secrets", "password"}
  BY <1>1, <1>3 DEF Worlds, TypeOK
<1>5. CASE w.goes = "on"
  <2>1. state' = state /\ run' = [run EXCEPT !.at = @ + 1, !.hurt = @ \/ hurt, !.blank =
                        @ \/ (host["quota-image"] = None /\ w.host["quota-image"] # None)]
    BY <1>5 DEF ApplyOf
  <2> DEFINE b == run.blank \/ (host["quota-image"] = None /\ w.host["quota-image"] # None)
             h == run.hurt \/ hurt
  <2>2. b \in BOOLEAN /\ h \in BOOLEAN /\ (~h => ~run.hurt /\ ~hurt)
    OBVIOUS
  <2>3. run' = [run EXCEPT !.at = run.at + 1, !.hurt = h, !.blank = b]
    BY <2>1
  <2> HIDE DEF b, h
  <2>4. run' \in Records
    <3> DEFINE r == [run EXCEPT !.at = run.at + 1]
    <3>1. run \in Records
      BY <1>1 DEF TypeOK, Records
    <3>2. r \in Records
      BY <1>2, <3>1 DEF Records
    <3>3. run' = [r EXCEPT !.hurt = h, !.blank = b]
      BY <2>3
    <3> HIDE DEF r
    <3> QED
      BY <2>2, <3>2, <3>3 DEF Records
  <2> QED
    BY <1>1, <1>2, <1>4, <1>5, <2>1, <2>2, <2>3, <2>4 DEF TypeOK, RunMoved, AtEffect, Records
<1>6. CASE w.goes = "done"
  <2>1. state' = state /\ run' = [run EXCEPT !.pc = "verify", !.hurt = @ \/ hurt]
    BY <1>6 DEF ApplyOf
  <2> QED
    BY <1>1, <1>2, <1>4, <1>6, <2>1 DEF TypeOK, RunMoved, AtEffect
<1>7. CASE w.goes = "error"
  <2>1. /\ state' = [state EXCEPT !.status[run.phase] = "failed"]
        /\ run' = [run EXCEPT !.pc = "error", !.hurt = @ \/ hurt]
    BY <1>7 DEF ApplyOf, FailPhase
  <2>2. state' \in [status : [Phases -> {"none", "running", "failed", "complete"}],
                    print : [Phases -> Confs \cup {None}]]
    BY <1>1, <2>1 DEF TypeOK
  <2> QED
    BY <1>1, <1>2, <1>4, <1>7, <2>1, <2>2 DEF TypeOK, RunMoved, AtEffect
<1>8. CASE w.goes = "crash"
  <2>1. state' = state /\ run' = [run EXCEPT !.pc = "error", !.hurt = TRUE]
    BY <1>8 DEF ApplyOf
  <2> QED
    BY <1>1, <1>2, <1>4, <1>8, <2>1 DEF TypeOK, RunMoved, AtEffect
<1> QED
  BY <1>2, <1>5, <1>6, <1>7, <1>8

\* What holds of a completed phase stays true when an effect of another phase is
\* taken, and what holds of the host as a whole.
LEMMA ApplyKeeps ==
    ASSUME InstallInv, AtEffect, NEW how \in Hows, NEW hurt \in BOOLEAN,
           NEW w, w = Take(World, Plan[run.at], how), ApplyOf(w, hurt),
           faults' \in 0..MaxFaults
    PROVE  PhasesKept' /\ KeyInv' /\ PairsInv'
           /\ (host["control-plane"] # None => served.admin # 0)'
           /\ (served.admin = 0 \/ secrets.admin \in {0, served.admin} \/ "password" \in gone)'
<1> DEFINE p == run.phase
           i == run.at
           e == Plan[i]
<1>1. /\ p \in Phases /\ i \in 1..Len(Plan) /\ Plan = All[p].apply
      /\ Placed(p, i, e) /\ FactsOf(e) \subseteq Facts
      /\ \A j \in 1..Len(Plan) : j < i => EffectLeft(Plan[j])
  BY AtEffectPlaced
<1>2. EffectMoved(w, e, how)
  BY EffectMoves
<1>3. /\ w \in Worlds /\ \A f \in Facts : FactMoved(w, e, f)
  BY <1>2 DEF EffectMoved, Moved
<1>4. RunMoved(w, hurt)
  BY <1>3, RunMoves
<1>5. /\ host' = w.host /\ secrets' = w.secrets /\ served' = w.served
      /\ fresh' = w.fresh /\ gone' = w.gone /\ quota' = quota
  BY DEF ApplyOf, Becomes
<1>6. /\ TypeOK /\ PhasesKept /\ PairsInv /\ run.conf # None
  BY WorldType DEF InstallInv
<1> HIDE DEF p, i, e
<1>7. SecretsMoved(w, e) /\ PairsOf(w)
  BY <1>2 DEF EffectMoved
<1>8. KeyInv'
  BY <1>5, <1>7 DEF KeyInv, SecretsMoved, HaveSecrets
<1>9. PhasesKept'
  <2> SUFFICES ASSUME NEW r \in Phases, state'.status[r] = "complete",
                      NEW j \in 1..Len(All[r].apply),
                      NEW d, d = All[r].apply[j], NEW c, c = state'.print[r]
               PROVE  EffectKept(d, c)'
    BY DEF PhasesKept
  <2>1. r # p /\ state.status[r] = "complete" /\ state.print[r] = c
    BY <1>1, <1>4 DEF RunMoved, p
  <2>2. EffectKept(d, c)
    BY <1>6, <2>1 DEF PhasesKept
  <2>3. Placed(r, j, d) /\ FactsOf(d) \subseteq Facts
    BY EffectsPlaced, FactPlaces DEF AllPlaced
  <2>4. ASSUME NEW f \in FactsOf(d) PROVE Kept(f, c)'
    <3>1. Kept(f, c) /\ FactMoved(w, e, f) /\ f \in Facts
      BY <1>3, <2>2, <2>3 DEF EffectKept
    <3>2. CASE w.host[f] = host[f] /\ (f \in gone => f \in w.gone)
      BY <1>5, <3>1, <3>2 DEF Kept, Excused
    <3>3. CASE w.host[f] = run.conf /\ f \in FactsOf(e)
      <4>1. f \notin Named
        <5>1. ASSUME f \in Named PROVE FALSE
          <6>1. d.kind \notin Special /\ d.fact = f
            BY <5>1 DEF FactsOf, Named, Special
          <6>2. e.kind \notin Special /\ e.fact = f
            BY <3>3, <5>1 DEF FactsOf, Named, Special
          <6>3. Home(f) = r /\ Home(f) = p
            BY <1>1, <2>3, <5>1, <6>1, <6>2 DEF Placed, PlainPlaced
          <6> QED
            BY <2>1, <6>3
        <5> QED
          BY <5>1
      <4> QED
        BY <1>5, <1>6, <3>3, <4>1 DEF Kept, Excused
    <3>4. CASE w.host[f] = None /\ f \in w.gone
      BY <1>5, <3>4 DEF Kept, Excused
    <3>5. CASE w.host[f] = None /\ e.kind = "reset" /\ f = e.fact
      <4>1. f \in Verified
        <5>1. CASE f = "vsftpd"
          <6>1. d.kind \notin Special /\ d.fact = "vsftpd"
            BY <5>1 DEF FactsOf, Special
          <6>2. r = 11 /\ p = 11
            BY <1>1, <2>3, <3>5, <5>1, <6>1 DEF Placed, PlainPlaced, Special
          <6> QED
            BY <2>1, <6>2
        <5> QED
          BY <1>1, <3>5, <5>1, VerifiedFacts DEF Placed
      <4> QED
        BY <1>5, <3>5, <4>1 DEF Kept, Excused
    <3> QED
      BY <3>1, <3>2, <3>3, <3>4, <3>5 DEF FactMoved
  <2>5. /\ d.kind = "secrets" => (HaveSecrets \/ "secrets" \in gone)'
        /\ d.kind = "key" => served'.key # 0
    BY <1>5, <1>7, <2>2 DEF EffectKept, SecretsMoved, HaveSecrets
  <2> QED
    BY <2>4, <2>5 DEF EffectKept
<1>10. PairsInv'
  <2>1. ASSUME ~quota PROVE w.host["quota-directory"] = None
    <3>1. FactMoved(w, e, "quota-directory") /\ host["quota-directory"] = None
      BY <1>3, <1>6, <2>1, FactPlaces DEF PairsInv
    <3>2. ASSUME "quota-directory" \in FactsOf(e) PROVE FALSE
      <4>1. e.kind \notin Special /\ e.fact = "quota-directory"
        BY <3>2 DEF FactsOf, Special
      <4>2. p = 17 /\ i = 3
        BY <1>1, <4>1 DEF Placed, PlainPlaced
      <4>3. 1 \in 1..Len(Plan) /\ Plan[1].kind = "image"
        BY <1>1, <4>2, Positions
      <4> QED
        BY <1>1, <2>1, <4>2, <4>3 DEF EffectLeft
    <3> QED
      BY <3>1, <3>2 DEF FactMoved
  <2> QED
    BY <1>5, <1>7, <2>1 DEF PairsInv, PairsOf, Excused
<1> QED
  BY <1>5, <1>7, <1>8, <1>9, <1>10 DEF SecretsMoved

LEMMA ApplyGoesOn ==
    ASSUME InstallInv, AtEffect, NEW how \in Hows, NEW hurt \in BOOLEAN,
           NEW w, w = Take(World, Plan[run.at], how), ApplyOf(w, hurt),
           faults' \in 0..MaxFaults, ~hurt => how = "works"
    PROVE  Runner' /\ PhasesBehind' /\ EffectsBehind' /\ Returned' /\ PasswordInv'
           /\ SoundRun' /\ RerunRecovers'
<1> DEFINE p == run.phase
           i == run.at
           e == Plan[i]
<1>1. /\ p \in Phases /\ i \in 1..Len(Plan) /\ Plan = All[p].apply /\ Len(Plan) \in Nat
      /\ Placed(p, i, e) /\ FactsOf(e) \subseteq Facts
      /\ \A j \in 1..Len(Plan) : j < i => EffectLeft(Plan[j])
      /\ ~run.hurt => \A j \in 1..Len(Plan) : j < i => Sound(Plan[j])
  BY AtEffectPlaced
<1>2. EffectMoved(w, e, how)
  BY EffectMoves
<1>3. /\ w \in Worlds /\ \A f \in Facts : FactMoved(w, e, f)
  BY <1>2 DEF EffectMoved, Moved
<1>4. RunMoved(w, hurt)
  BY <1>3, RunMoves
<1>5. /\ host' = w.host /\ secrets' = w.secrets /\ served' = w.served
      /\ fresh' = w.fresh /\ gone' = w.gone /\ quota' = quota
  BY DEF ApplyOf, Becomes
<1>6. /\ TypeOK /\ PhasesBehind /\ PasswordInv /\ run.conf # None /\ run.pc = "apply"
      /\ state.status[p] = "running"
  BY WorldType DEF InstallInv, AtEffect, Runner, InPhase
<1>7. SecretsMoved(w, e) /\ SecretsLeft(w, e) /\ FactsLeft(w, e) /\ (how = "works" => Works(w, e))
  BY <1>2 DEF EffectMoved
<1>8. Plan' = Plan /\ run'.phase = p
  BY <1>4 DEF RunMoved, Plan
<1>9. \A j \in 1..Len(Plan) : Placed(p, j, Plan[j]) /\ FactsOf(Plan[j]) \subseteq Facts
  BY <1>1, EffectsPlaced, FactPlaces DEF AllPlaced
<1>10. run'.pc \in {"apply", "verify", "error"}
  BY <1>4 DEF RunMoved
<1>11. InPhase' => w.goes \in {"on", "done"} /\ state' = state
  BY <1>4 DEF RunMoved, InPhase
<1> HIDE DEF p, i, e
<1>12. Runner'
  BY <1>1, <1>4, <1>6, <1>8 DEF Runner, RunMoved, InPhase, p, i
<1>13. PhasesBehind'
  <2> SUFFICES ASSUME InRun', NEW q \in Phases, q < p
               PROVE  /\ state'.status[q] = "complete" /\ state'.print[q] = run'.conf
                      /\ \A f \in All[q].verify :
                            host'[f] # None \/ (f = "nft-table" /\ f \in gone')
    BY <1>8 DEF PhasesBehind
  <2>1. state' = state /\ w.goes \in {"on", "done"}
    BY <1>10, <1>11 DEF InRun, InPhase
  <2>2. /\ state.status[q] = "complete" /\ state.print[q] = run.conf
        /\ \A f \in All[q].verify : host[f] # None \/ (f = "nft-table" /\ f \in gone)
    BY <1>6 DEF PhasesBehind, InRun, p
  <2>3. ASSUME NEW f \in All[q].verify
        PROVE  w.host[f] # None \/ (f = "nft-table" /\ f \in w.gone)
    <3>1. FactMoved(w, e, f) /\ VerifiedPlaced(q, f)
      BY <1>3, FactPlaces, VerifiedFrom
    <3>2. host[f] # None \/ (f = "nft-table" /\ f \in gone)
      BY <2>2
    <3>3. ~(e.kind = "image" /\ f = "quota-filesystem")
      BY <3>1 DEF VerifiedPlaced
    <3>4. CASE e.kind = "tryreset" /\ f = e.fact /\ f \in w.gone
      <4>1. f = "nft-table" \/ (f = "powerdns" /\ p = 9)
        BY <1>1, <3>4 DEF Placed
      <4>2. ~(f = "powerdns" /\ p = 9)
        BY <1>1, <3>1 DEF VerifiedPlaced
      <4> QED
        BY <3>4, <4>1, <4>2
    <3> QED
      BY <1>6, <2>1, <3>1, <3>2, <3>3, <3>4 DEF FactMoved
  <2> QED
    BY <1>4, <1>5, <2>1, <2>2, <2>3 DEF RunMoved
<1>14. ASSUME InPhase', NEW j \in 1..Len(Plan), j < i, NEW d, d = Plan[j]
       PROVE  EffectLeft(d)'
  <2>1. EffectLeft(d) /\ Placed(p, j, d) /\ FactsOf(d) \subseteq Facts
    BY <1>1, <1>9, <1>14
  <2>2. w.goes \in {"on", "done"}
    BY <1>11, <1>14
  <2>3. ASSUME NEW f \in FactsOf(d) PROVE Left(f)'
    <3>1. FactMoved(w, e, f) /\ Left(f)
      BY <1>3, <2>1 DEF EffectLeft
    <3> QED
      BY <1>4, <1>5, <1>6, <2>2, <3>1 DEF FactMoved, Left, Excused, RunMoved
  <2>4. d.kind \in {"secrets", "keep-secrets"} => HaveSecrets'
    BY <1>5, <1>7, <2>1 DEF EffectLeft, SecretsMoved, HaveSecrets
  <2>5. d.kind = "secrets" => PasswordGiven'
    <3>1. ASSUME d.kind = "secrets" PROVE w.secrets = secrets
      <4>1. p \in {6, 20} /\ j = 1
        BY <2>1, <3>1 DEF Placed
      <4>2. e.kind \notin {"secrets", "keep-secrets"}
        BY <1>1, <1>14, <4>1 DEF Placed
      <4> QED
        BY <1>7, <4>2 DEF SecretsMoved
    <3> QED
      BY <1>4, <1>5, <2>1, <3>1 DEF EffectLeft, PasswordGiven, RunMoved
  <2>6. d.kind = "key" => served'.key # 0
    BY <1>5, <1>7, <2>1 DEF EffectLeft, SecretsMoved
  <2>7. d.kind # "live"
    <3>1. ASSUME d.kind = "live" PROVE FALSE
      <4>1. p = 20 /\ j = 3
        BY <2>1, <3>1 DEF Placed
      <4> QED
        BY <1>1, <1>14, <4>1, Positions
    <3> QED
      BY <3>1
  <2>8. d.kind = "image" => (quota /\ host["quota-image"] # None)'
    <3>1. ASSUME d.kind = "image" PROVE w.host["quota-image"] # None
      <4>1. "quota-image" \in FactsOf(d) /\ "quota-image" \in Facts
        BY <2>1, <3>1 DEF FactsOf, Special
      <4>2. FactMoved(w, e, "quota-image") /\ host["quota-image"] # None
        BY <1>3, <2>1, <3>1, <4>1 DEF EffectLeft
      <4>3. e.kind \notin Special => e.fact # "quota-image"
        BY <1>1 DEF Placed, PlainPlaced, Made
      <4> QED
        BY <1>6, <4>2, <4>3 DEF FactMoved, Special
    <3> QED
      BY <1>5, <2>1, <3>1 DEF EffectLeft
  <2> QED
    BY <2>3, <2>4, <2>5, <2>6, <2>7, <2>8 DEF EffectLeft
<1>15. ASSUME run'.pc = "apply", NEW d, d = e PROVE EffectLeft(d)'
  <2>1. w.goes = "on"
    BY <1>4, <1>15 DEF RunMoved
  <2>2. \A f \in FactsOf(d) : Left(f)'
    BY <1>15, <1>4, <1>5, <1>7, <2>1 DEF FactsLeft, FactLeft, Left, Excused, RunMoved
  <2>3. e.kind = "image" => quota /\ w.host["quota-image"] # None
    BY <1>2, <2>1 DEF EffectMoved
  <2> QED
    BY <1>4, <1>5, <1>7, <1>15, <2>1, <2>2, <2>3
       DEF EffectLeft, SecretsLeft, HaveSecrets, PasswordGiven, RunMoved
<1>16. EffectsBehind'
  <2> SUFFICES ASSUME InPhase', NEW j \in 1..Len(Plan), j < run'.at,
                      NEW d, d = Plan[j]
               PROVE  EffectLeft(d)'
    BY <1>8 DEF EffectsBehind
  <2>1. CASE j < i
    BY <1>14, <2>1
  <2>2. CASE ~(j < i)
    <3>1. j = i /\ run'.pc = "apply"
      BY <1>1, <1>4, <2>2 DEF RunMoved, InPhase, i
    <3> QED
      BY <1>15, <3>1 DEF e
  <2> QED
    BY <2>1, <2>2
<1>17. Returned'
  <2>1. ASSUME run'.pc = "verify"
        PROVE  \/ p = 17 /\ ~quota
               \/ /\ p = 17 /\ run'.at = 4
                  /\ {"quota-mount", "quota-fstab", "home-binds"} \subseteq gone'
    <3>1. w.goes = "done" /\ run'.at = i
      BY <1>4, <2>1 DEF RunMoved, i
    <3> QED
      BY <1>1, <1>2, <1>5, <3>1 DEF EffectMoved, Placed
  <2> QED
    BY <1>5, <1>8, <2>1 DEF Returned
<1>18. PasswordInv'
  <2>1. ASSUME InRun', p > 20, ~run'.skipped
        PROVE  (HaveSecrets /\ PasswordGiven /\ served.admin = secrets.admin)'
    <3>1. e.kind \notin SecretEffects
      BY <1>1, <2>1 DEF Placed, SecretEffects
    <3>2. w.secrets = secrets /\ w.served = served
      BY <1>7, <3>1 DEF SecretsMoved, SecretEffects
    <3>3. HaveSecrets /\ PasswordGiven /\ served.admin = secrets.admin
      BY <1>4, <1>6, <2>1, AdministratorPhase DEF PasswordInv, InRun, RunMoved, p
    <3> QED
      BY <1>4, <1>5, <3>2, <3>3 DEF HaveSecrets, PasswordGiven, RunMoved
  <2> QED
    BY <1>5, <1>7, <1>8, <2>1, AdministratorPhase DEF PasswordInv, SecretsMoved
<1>19. SoundRun'
  <2> SUFFICES ASSUME InPhase', ~run'.hurt, NEW j \in 1..Len(Plan), j < run'.at,
                      NEW d, d = Plan[j]
               PROVE  Sound(d)'
    BY <1>8 DEF SoundRun
  <2>1. how = "works" /\ ~run.hurt /\ Works(w, e) /\ w.goes \in {"on", "done"}
    BY <1>4, <1>7, <1>11 DEF RunMoved
  <2>2. CASE j < i
    <3>1. Sound(d) /\ Placed(p, j, d) /\ FactsOf(d) \subseteq Facts
      BY <1>1, <1>9, <2>1, <2>2
    <3>2. d.kind \notin Special => w.host[d.fact] # None
      <4>1. ASSUME d.kind \notin Special
            PROVE  d.fact \in Facts \ {"quota-filesystem"} /\ host[d.fact] # None
        <5>1. FactsOf(d) = {d.fact}
          BY <4>1 DEF FactsOf, Special
        <5>2. d.fact # "quota-filesystem"
          BY <3>1, <4>1 DEF Placed, PlainPlaced, Made
        <5> QED
          BY <3>1, <4>1, <5>1, <5>2 DEF Sound
      <4> QED
        BY <2>1, <4>1 DEF Works
    <3>3. d.kind = "control-plane" => w.host["control-plane"] # None \/ "secrets" \in w.gone
      <4>1. ASSUME d.kind = "control-plane"
            PROVE  "secrets" \in gone => "secrets" \in w.gone
        <5>1. p = 18
          BY <3>1, <4>1 DEF Placed
        <5> QED
          BY <1>1, <1>7, <5>1 DEF Placed, SecretsMoved
      <4>2. "control-plane" \in Facts \ {"quota-filesystem"}
        BY FactPlaces DEF Made
      <4> QED
        BY <2>1, <3>1, <4>1, <4>2 DEF Sound, Works
    <3>4. d.kind = "backup-key" => w.host["backup-key.pub"] # None \/ "backup-key.pub" \in w.gone
      <4>1. FactMoved(w, e, "backup-key.pub")
        BY <1>3, FactPlaces
      <4> QED
        BY <1>6, <2>1, <3>1, <4>1 DEF Sound, Excused, FactMoved
    <3> QED
      BY <1>5, <3>2, <3>3, <3>4 DEF Sound, Excused
  <2>3. CASE ~(j < i)
    <3>1. j = i /\ w.goes = "on"
      BY <1>1, <1>4, <2>3 DEF RunMoved, InPhase, i
    <3>2. d = e
      BY <3>1 DEF e
    <3> QED
      BY <1>5, <2>1, <3>1, <3>2 DEF Sound, Works, Excused
  <2> QED
    BY <2>2, <2>3
<1>20. RerunRecovers'
  <2> SUFFICES ASSUME run'.pc = "error", ~run'.hurt, run'.password # KnownPassword
               PROVE  gone' \cap {"backup-key.pub", "secrets"} # {}
    BY DEF RerunRecovers
  <2>1. how = "works" /\ ~run.hurt /\ Works(w, e) /\ w.goes = "error"
    BY <1>4, <1>7 DEF RunMoved
  <2>2. e.kind = "need" /\ host[e.fact] = None /\ w.gone = gone
    BY <1>4, <2>1 DEF Works, RunMoved
  <2>3. CASE p = 11 /\ i = 12 /\ e.fact = "backup-key.pub"
    <3>1. 11 \in 1..Len(Plan) /\ Plan[11].kind = "backup-key"
      BY <1>1, <2>3, Positions
    <3>2. "backup-key.pub" \in gone
      BY <1>1, <2>1, <2>2, <2>3, <3>1 DEF Sound, Excused
    <3> QED
      BY <1>5, <2>2, <3>2
  <2>4. CASE p = 18 /\ i > 1 /\ e.fact = "services"
    <3>1. /\ 1 \in 1..Len(Plan) /\ Plan[1].kind = "try" /\ Plan[1].fact = "services"
      BY <1>1, <2>4, Positions DEF Try, Effect
    <3> QED
      BY <1>1, <2>1, <2>2, <2>4, <3>1 DEF Sound, Special
  <2> QED
    BY <1>1, <2>2, <2>3, <2>4 DEF Placed
<1> QED
  BY <1>12, <1>13, <1>16, <1>17, <1>18, <1>19, <1>20

LEMMA ApplyStep ==
    ASSUME InstallInv, Apply \/ ApplyWithFault
    PROVE  InstallInv'
<1>1. TypeOK
  BY DEF InstallInv
<1>2. ASSUME AtEffect, NEW how \in Hows, NEW hurt \in BOOLEAN, ~hurt => how = "works",
             ApplyOf(Take(World, Plan[run.at], how), hurt), faults' \in 0..MaxFaults
      PROVE  InstallInv'
  <2> DEFINE w == Take(World, Plan[run.at], how)
  <2>1. w \in Worlds
    BY <1>2, EffectMoves DEF EffectMoved
  <2> HIDE DEF w
  <2>2. w = Take(World, Plan[run.at], how) /\ ApplyOf(w, hurt)
    BY <1>2 DEF w
  <2>3. TypeOK'
    BY <1>2, <2>1, <2>2, RunMoves
  <2>4. PhasesKept' /\ KeyInv' /\ PairsInv'
    BY <1>2, <2>2, ApplyKeeps
  <2>5. Runner' /\ PhasesBehind' /\ EffectsBehind' /\ Returned' /\ PasswordInv'
        /\ SoundRun' /\ RerunRecovers'
    BY <1>2, <2>2, ApplyGoesOn
  <2> QED
    BY <2>3, <2>4, <2>5 DEF InstallInv
<1>3. CASE Apply
  <2>1. faults' \in 0..MaxFaults
    BY <1>1, <1>3 DEF Apply, TypeOK
  <2> QED
    BY <1>2, <1>3, <2>1 DEF Apply, Hows
<1>4. CASE ApplyWithFault
  <2>1. faults' \in 0..MaxFaults
    BY <1>1, <1>4, InstallerAssumption DEF ApplyWithFault, Fault, TypeOK
  <2>2. PICK how \in {"fails", "half"} : ApplyOf(Take(World, Plan[run.at], how), TRUE)
    BY <1>4 DEF ApplyWithFault
  <2> QED
    BY <1>2, <1>4, <2>1, <2>2 DEF ApplyWithFault, Hows
<1> QED
  BY <1>3, <1>4

\* A phase that verifies has all of its effects.
LEMMA CompleteKept ==
    ASSUME InstallInv, run.pc = "verify", Verify(run.phase),
           NEW i \in 1..Len(Plan)
    PROVE  EffectKept(Plan[i], run.conf)
<1>1. /\ run.phase \in Phases /\ Len(Plan) \in Nat
      /\ \A j \in 1..Len(Plan) : j < run.at => EffectLeft(Plan[j])
      /\ Plan = All[run.phase].apply
  BY PlanLength DEF InstallInv, Runner, EffectsBehind, InPhase, Plan
<1>2. ASSUME NEW e, EffectLeft(e) PROVE EffectKept(e, run.conf)
  BY <1>2 DEF EffectLeft, EffectKept, Left, Kept
<1>3. CASE run.at = Len(Plan) + 1
  BY <1>1, <1>2, <1>3
<1>4. CASE run.phase = 17 /\ ~quota
  <2>1. host["quota-directory"] # None
    BY <1>4, VerifiedFacts DEF Verify
  <2> QED
    BY <1>4, <2>1 DEF InstallInv, PairsInv
<1>5. CASE /\ run.phase = 17 /\ run.at = 4
           /\ {"quota-mount", "quota-fstab", "home-binds"} \subseteq gone
  <2>1. CASE i < 4
    BY <1>1, <1>2, <1>5, <2>1
  <2>2. CASE i \in {4, 5, 6}
    <3>1. FactsOf(Plan[i]) \subseteq {"quota-mount", "quota-fstab", "home-binds"}
          /\ Plan[i].kind \in {"must", "mount"}
      BY <1>1, <1>5, <2>2, Positions DEF FactsOf, Special, Must, Effect
    <3> QED
      BY <1>5, <3>1 DEF EffectKept, Kept, Excused
  <2> QED
    BY <1>1, <1>5, <2>1, <2>2, Positions
<1> QED
  BY <1>3, <1>4, <1>5 DEF InstallInv, Returned

\* Director's password, without what a run has made of it.
PasswordKept ==
    /\ host["control-plane"] # None => served.admin # 0
    /\ served.admin = 0 \/ secrets.admin \in {0, served.admin} \/ "password" \in gone

\* A step after which no run is under way.
LEMMA EndedStep ==
    ASSUME TypeOK', PhasesKept', KeyInv', PairsInv', PasswordKept', RerunRecovers',
           run'.pc = "error"
    PROVE  InstallInv'
  BY DEF InstallInv, Runner, InPhase, PhasesBehind, InRun, EffectsBehind, Returned,
         PasswordInv, PasswordKept, SoundRun

\* A step that leaves the host and the secrets as they are.
HostSame == UNCHANGED <<host, secrets, served, quota, fresh, gone>>

LEMMA HostSameKeeps ==
    ASSUME InstallInv, HostSame
    PROVE  /\ KeyInv' /\ PairsInv' /\ PasswordKept'
           /\ \A e, c : EffectKept(e, c) => EffectKept(e, c)'
           /\ (state' = state => PhasesKept')
<1>1. KeyInv' /\ PairsInv' /\ PasswordKept'
  BY DEF InstallInv, HostSame, KeyInv, HaveSecrets, PairsInv, Excused, PasswordKept, PasswordInv
<1>2. ASSUME NEW e, NEW c, EffectKept(e, c) PROVE EffectKept(e, c)'
  BY <1>2 DEF EffectKept, Kept, Excused, HaveSecrets, HostSame
<1>3. ASSUME state' = state PROVE PhasesKept'
  <2> SUFFICES ASSUME NEW p \in Phases, state'.status[p] = "complete",
                      NEW i \in 1..Len(All[p].apply), NEW e, e = All[p].apply[i],
                      NEW c, c = state'.print[p]
               PROVE  EffectKept(e, c)'
    BY DEF PhasesKept
  <2> QED
    BY <1>2, <1>3 DEF InstallInv, PhasesKept
<1> QED
  BY <1>1, <1>2, <1>3

\* The status of one phase is changed.
LEMMA StatusKeeps ==
    ASSUME InstallInv, HostSame, NEW p \in Phases, NEW s \in {"running", "failed"},
           state' = [state EXCEPT !.status[p] = s]
    PROVE  /\ PhasesKept'
           /\ state'.print = state.print /\ state'.status[p] = s
           /\ \A q \in Phases : q # p => state'.status[q] = state.status[q]
           /\ state' \in [status : [Phases -> {"none", "running", "failed", "complete"}],
                          print : [Phases -> Confs \cup {None}]]
<1>1. state \in [status : [Phases -> {"none", "running", "failed", "complete"}],
                 print : [Phases -> Confs \cup {None}]]
  BY DEF InstallInv, TypeOK
<1>2. /\ state'.print = state.print /\ state'.status[p] = s
      /\ \A q \in Phases : q # p => state'.status[q] = state.status[q]
      /\ state' \in [status : [Phases -> {"none", "running", "failed", "complete"}],
                     print : [Phases -> Confs \cup {None}]]
  BY <1>1
<1>3. PhasesKept'
  <2> SUFFICES ASSUME NEW q \in Phases, state'.status[q] = "complete",
                      NEW i \in 1..Len(All[q].apply), NEW e, e = All[q].apply[i],
                      NEW c, c = state'.print[q]
               PROVE  EffectKept(e, c)'
    BY DEF PhasesKept
  <2>1. q # p
    BY <1>2
  <2>2. EffectKept(e, c)
    BY <1>2, <2>1 DEF InstallInv, PhasesKept
  <2> QED
    BY <2>2, HostSameKeeps
<1> QED
  BY <1>2, <1>3

\* The phase is marked complete.
LEMMA CompleteKeeps ==
    ASSUME InstallInv, HostSame, run.pc = "verify", Verify(run.phase), state' = Complete
    PROVE  /\ PhasesKept'
           /\ state'.status[run.phase] = "complete" /\ state'.print[run.phase] = run.conf
           /\ \A q \in Phases : q # run.phase => /\ state'.status[q] = state.status[q]
                                                 /\ state'.print[q] = state.print[q]
           /\ state' \in [status : [Phases -> {"none", "running", "failed", "complete"}],
                          print : [Phases -> Confs \cup {None}]]
<1>1. /\ state \in [status : [Phases -> {"none", "running", "failed", "complete"}],
                    print : [Phases -> Confs \cup {None}]]
      /\ run.conf \in Confs /\ run.phase \in Phases
  BY DEF InstallInv, TypeOK, Runner, InPhase
<1>2. /\ state'.status = [state.status EXCEPT ![run.phase] = "complete"]
      /\ state'.print = [state.print EXCEPT ![run.phase] = run.conf]
      /\ state' = [status |-> [state.status EXCEPT ![run.phase] = "complete"],
                   print |-> [state.print EXCEPT ![run.phase] = run.conf]]
  BY DEF Complete, PhaseFingerprint
<1>3. /\ state'.status[run.phase] = "complete" /\ state'.print[run.phase] = run.conf
      /\ \A q \in Phases : q # run.phase => /\ state'.status[q] = state.status[q]
                                            /\ state'.print[q] = state.print[q]
  BY <1>1, <1>2
<1>4. state' \in [status : [Phases -> {"none", "running", "failed", "complete"}],
                  print : [Phases -> Confs \cup {None}]]
  BY <1>1, <1>2
<1>5. PhasesKept'
  <2> SUFFICES ASSUME NEW q \in Phases, state'.status[q] = "complete",
                      NEW i \in 1..Len(All[q].apply), NEW e, e = All[q].apply[i],
                      NEW c, c = state'.print[q]
               PROVE  EffectKept(e, c)'
    BY DEF PhasesKept
  <2>1. CASE q = run.phase
    <3>1. EffectKept(e, c)
      BY <1>3, <2>1, CompleteKept DEF Plan
    <3> QED
      BY <3>1, HostSameKeeps
  <2>2. CASE q # run.phase
    <3>1. EffectKept(e, c)
      BY <1>3, <2>2 DEF InstallInv, PhasesKept
    <3> QED
      BY <3>1, HostSameKeeps
  <2> QED
    BY <2>1, <2>2
<1> QED
  BY <1>3, <1>4, <1>5

LEMMA FaultType ==
    ASSUME TypeOK, Fault
    PROVE  faults' \in 0..MaxFaults
  BY InstallerAssumption DEF TypeOK, Fault

LEMMA RunType == ASSUME TypeOK PROVE run \in Records
  BY DEF TypeOK, Records

LEMMA StartStep ==
    ASSUME InstallInv, NEW c \in Configs, Start(c)
    PROVE  InstallInv'
<1>1. HostSame /\ state' = state /\ faults' = faults /\ runs' = runs + 1 /\ runs < MaxRuns
      /\ run' = [pc |-> "phase", phase |-> 1, at |-> 1, blank |-> FALSE, conf |-> c.conf,
                 password |-> c.password, printed |-> 0, hurt |-> FALSE, skipped |-> FALSE]
  BY DEF Start, HostSame
<1>2. KeyInv' /\ PairsInv' /\ PasswordKept' /\ PhasesKept'
  BY <1>1, HostSameKeeps
<1>3. TypeOK'
  <2>1. c.conf \in Confs /\ c.password \in Passwords /\ TypeOK
    BY DEF Configs, InstallInv
  <2>2. run' \in Records
    BY <1>1, <2>1, PhaseNumbers DEF Records
  <2>3. runs' \in 0..MaxRuns
    BY <1>1, <2>1, InstallerAssumption DEF TypeOK
  <2> QED
    BY <1>1, <2>1, <2>2, <2>3 DEF TypeOK, HostSame, Records
<1>4. /\ run'.pc = "phase" /\ run'.at = 1 /\ run'.phase = 1
  BY <1>1
<1>5. Runner' /\ EffectsBehind' /\ Returned' /\ SoundRun' /\ RerunRecovers'
  BY <1>4 DEF Runner, InPhase, EffectsBehind, Returned, SoundRun, RerunRecovers
<1>6. PhasesBehind'
  BY <1>4, PhaseNumbers DEF PhasesBehind
<1>7. PasswordInv'
  BY <1>2, <1>4, AdministratorPhase DEF PasswordInv, PasswordKept
<1> QED
  BY <1>2, <1>3, <1>5, <1>6, <1>7 DEF InstallInv

LEMMA SkipStep ==
    ASSUME InstallInv, Skip
    PROVE  InstallInv'
<1> DEFINE p == run.phase
           s == run.skipped \/ run.phase = Administrator
<1>1. HostSame /\ state' = state /\ faults' = faults /\ runs' = runs
      /\ run' = [run EXCEPT !.phase = p + 1, !.skipped = s]
      /\ run.pc = "phase" /\ p \in Phases
      /\ state.status[p] = "complete" /\ state.print[p] = run.conf
      /\ \A f \in All[p].verify : host[f] # None
  BY DEF Skip, HostSame, AtPhase, Skips, Verify, PhaseFingerprint
<1>2. KeyInv' /\ PairsInv' /\ PasswordKept' /\ PhasesKept'
  BY <1>1, HostSameKeeps
<1>3. s \in BOOLEAN /\ (~s => ~run.skipped /\ p # 20)
  BY AdministratorPhase
<1>4. p \in 1..22 /\ TypeOK /\ run.at = 1 /\ run \in Records
  BY <1>1, PhaseNumbers, RunType DEF InstallInv, Runner
<1> HIDE DEF s, p
<1>5. run' \in Records
  <2> DEFINE r == [run EXCEPT !.phase = p + 1]
  <2>1. r \in Records
    BY <1>4, PhaseNumbers DEF Records
  <2>2. run' = [r EXCEPT !.skipped = s]
    BY <1>1
  <2> HIDE DEF r
  <2> QED
    BY <1>3, <2>1, <2>2 DEF Records
<1>6. TypeOK'
  BY <1>1, <1>4, <1>5 DEF TypeOK, HostSame, Records
<1>7. /\ run'.pc = "phase" /\ run'.phase = p + 1 /\ run'.at = 1 /\ run'.conf = run.conf
      /\ run'.skipped = s /\ run'.password = run.password
  BY <1>1, <1>4 DEF Records
<1>8. Runner' /\ EffectsBehind' /\ Returned' /\ SoundRun' /\ RerunRecovers'
  BY <1>7 DEF Runner, InPhase, EffectsBehind, Returned, SoundRun, RerunRecovers
<1>9. PhasesBehind'
  <2> SUFFICES ASSUME NEW q \in Phases, q < p + 1
               PROVE  /\ state.status[q] = "complete" /\ state.print[q] = run.conf
                      /\ \A f \in All[q].verify : host[f] # None \/ (f = "nft-table" /\ f \in gone)
    BY <1>1, <1>7 DEF PhasesBehind, HostSame
  <2>1. CASE q = p
    BY <1>1, <2>1
  <2>2. CASE q < p
    BY <1>1, <2>2 DEF InstallInv, PhasesBehind, InRun, p
  <2> QED
    BY <1>4, <2>1, <2>2, PhaseNumbers
<1>10. PasswordInv'
  <2>1. ASSUME p + 1 > 20, ~s
        PROVE  HaveSecrets /\ PasswordGiven /\ served.admin = secrets.admin
    <3>1. p > 20 /\ ~run.skipped
      BY <1>3, <1>4, <2>1
    <3> QED
      BY <1>1, <3>1, AdministratorPhase DEF InstallInv, PasswordInv, InRun, p
  <2> QED
    BY <1>1, <1>2, <1>7, <2>1, AdministratorPhase
       DEF PasswordInv, PasswordKept, HostSame, HaveSecrets, PasswordGiven
<1> QED
  BY <1>2, <1>6, <1>8, <1>9, <1>10 DEF InstallInv

LEMMA BeginStep ==
    ASSUME InstallInv, Begin
    PROVE  InstallInv'
<1> DEFINE p == run.phase
<1>1. HostSame /\ state' = [state EXCEPT !.status[p] = "running"]
      /\ faults' = faults /\ runs' = runs /\ run' = [run EXCEPT !.pc = "apply"]
      /\ run.pc = "phase" /\ p \in Phases
  BY DEF Begin, HostSame, AtPhase
<1>2. KeyInv' /\ PairsInv' /\ PasswordKept'
  BY <1>1, HostSameKeeps
<1>3. /\ PhasesKept'
      /\ state'.print = state.print /\ state'.status[p] = "running"
      /\ \A q \in Phases : q # p => state'.status[q] = state.status[q]
      /\ state' \in [status : [Phases -> {"none", "running", "failed", "complete"}],
                     print : [Phases -> Confs \cup {None}]]
  BY <1>1, StatusKeeps
<1>4. p \in 1..22 /\ TypeOK /\ run.at = 1 /\ run \in Records
  BY <1>1, PhaseNumbers, RunType DEF InstallInv, Runner
<1>5. run' \in Records /\ run'.pc = "apply" /\ run'.phase = p /\ run'.at = 1
      /\ run'.conf = run.conf /\ run'.skipped = run.skipped /\ run'.password = run.password
  BY <1>1, <1>4 DEF Records
<1>6. TypeOK'
  BY <1>1, <1>3, <1>4, <1>5 DEF TypeOK, HostSame, Records
<1>7. Plan' = All[p].apply /\ Len(Plan') \in Nat
  BY <1>1, <1>5, PlanLength DEF Plan
<1>8. Runner' /\ EffectsBehind' /\ Returned' /\ SoundRun' /\ RerunRecovers'
  BY <1>1, <1>3, <1>5, <1>7
     DEF Runner, InPhase, EffectsBehind, Returned, SoundRun, RerunRecovers
<1>9. PhasesBehind'
  <2> SUFFICES ASSUME NEW q \in Phases, q < p
               PROVE  /\ state'.status[q] = "complete" /\ state'.print[q] = run.conf
                      /\ \A f \in All[q].verify : host[f] # None \/ (f = "nft-table" /\ f \in gone)
    BY <1>1, <1>5 DEF PhasesBehind, HostSame
  <2>1. state.status[q] = "complete" /\ q # p
    BY <1>1, <1>4 DEF InstallInv, PhasesBehind, InRun
  <2> QED
    BY <1>1, <1>3, <2>1 DEF InstallInv, PhasesBehind, InRun
<1>10. PasswordInv'
  BY <1>1, <1>2, <1>5
     DEF InstallInv, PasswordInv, PasswordKept, InRun, HostSame, HaveSecrets, PasswordGiven
<1> QED
  BY <1>2, <1>3, <1>6, <1>8, <1>9, <1>10 DEF InstallInv

LEMMA BeginFailsStep ==
    ASSUME InstallInv, BeginFails
    PROVE  InstallInv'
<1>1. HostSame /\ runs' = runs /\ run' = [run EXCEPT !.pc = "error", !.hurt = TRUE]
      /\ run.phase \in Phases
      /\ (state' = state \/ state' = [state EXCEPT !.status[run.phase] = "running"])
  BY DEF BeginFails, HostSame, AtPhase
<1>2. KeyInv' /\ PairsInv' /\ PasswordKept'
  BY <1>1, HostSameKeeps
<1>3. TypeOK /\ run \in Records /\ faults' \in 0..MaxFaults
  BY FaultType, RunType DEF InstallInv, BeginFails
<1>4. PhasesKept' /\ state' \in [status : [Phases -> {"none", "running", "failed", "complete"}],
                                 print : [Phases -> Confs \cup {None}]]
  BY <1>1, <1>3, HostSameKeeps, StatusKeeps DEF TypeOK
<1>5. run' \in Records /\ run'.pc = "error" /\ run'.hurt
  BY <1>1, <1>3 DEF Records
<1>6. TypeOK'
  BY <1>1, <1>3, <1>4, <1>5 DEF TypeOK, HostSame, Records
<1> QED
  BY <1>2, <1>4, <1>5, <1>6, EndedStep DEF RerunRecovers

LEMMA CheckFailsStep ==
    ASSUME InstallInv, CheckFails
    PROVE  InstallInv'
<1>1. HostSame /\ runs' = runs /\ faults' = faults /\ run' = [run EXCEPT !.pc = "error"]
      /\ run.phase \in Phases /\ run.password = KnownPassword
      /\ state' = [state EXCEPT !.status[run.phase] = "failed"]
  BY DEF CheckFails, HostSame, CheckPreflight, FailPhase, InstallInv, Runner, InPhase
<1>2. KeyInv' /\ PairsInv' /\ PasswordKept'
  BY <1>1, HostSameKeeps
<1>3. TypeOK /\ run \in Records
  BY RunType DEF InstallInv
<1>4. PhasesKept' /\ state' \in [status : [Phases -> {"none", "running", "failed", "complete"}],
                                 print : [Phases -> Confs \cup {None}]]
  BY <1>1, StatusKeeps
<1>5. run' \in Records /\ run'.pc = "error" /\ run'.password = KnownPassword
  BY <1>1, <1>3 DEF Records
<1>6. TypeOK'
  BY <1>1, <1>3, <1>4, <1>5 DEF TypeOK, HostSame, Records
<1> QED
  BY <1>2, <1>4, <1>5, <1>6, EndedStep DEF RerunRecovers

LEMMA AppliedStep ==
    ASSUME InstallInv, Applied
    PROVE  InstallInv'
<1>1. HostSame /\ state' = state /\ runs' = runs /\ faults' = faults
      /\ run' = [run EXCEPT !.pc = "verify"] /\ run.pc = "apply" /\ run.at > Len(Plan)
  BY DEF Applied, HostSame
<1>2. KeyInv' /\ PairsInv' /\ PasswordKept' /\ PhasesKept'
  BY <1>1, HostSameKeeps
<1>3. TypeOK /\ run \in Records /\ run.phase \in Phases /\ run.at \in 1..Len(Plan) + 1
      /\ Len(Plan) \in Nat /\ state.status[run.phase] = "running"
  BY <1>1, RunType, PlanLength DEF InstallInv, Runner, InPhase, Plan
<1>4. run' \in Records /\ run'.pc = "verify" /\ run'.phase = run.phase /\ run'.at = run.at
      /\ run'.conf = run.conf /\ run'.skipped = run.skipped /\ run'.password = run.password
      /\ run'.hurt = run.hurt
  BY <1>1, <1>3 DEF Records
<1>5. TypeOK'
  BY <1>1, <1>3, <1>4 DEF TypeOK, HostSame, Records
<1>6. Plan' = Plan /\ run.at = Len(Plan) + 1
  BY <1>1, <1>3, <1>4 DEF Plan
<1>7. Runner' /\ Returned' /\ RerunRecovers'
  BY <1>1, <1>3, <1>4, <1>6 DEF Runner, InPhase, Returned, RerunRecovers
<1>8. PhasesBehind'
  BY <1>1, <1>4 DEF InstallInv, PhasesBehind, InRun, HostSame
<1>9. EffectsBehind'
  <2> SUFFICES ASSUME NEW i \in 1..Len(Plan), i < run.at, NEW e, e = Plan[i]
               PROVE  EffectLeft(e)'
    BY <1>4, <1>6 DEF EffectsBehind
  <2>1. EffectLeft(e)
    BY <1>1 DEF InstallInv, EffectsBehind, InPhase
  <2> QED
    BY <1>1, <1>4, <2>1
       DEF EffectLeft, Left, Excused, HaveSecrets, PasswordGiven, HostSame
<1>10. SoundRun'
  <2> SUFFICES ASSUME ~run.hurt, NEW i \in 1..Len(Plan), i < run.at, NEW e, e = Plan[i]
               PROVE  Sound(e)'
    BY <1>4, <1>6 DEF SoundRun
  <2>1. Sound(e)
    BY <1>1 DEF InstallInv, SoundRun, InPhase
  <2> QED
    BY <1>1, <2>1 DEF Sound, Excused, HostSame
<1>11. PasswordInv'
  BY <1>1, <1>2, <1>4
     DEF InstallInv, PasswordInv, PasswordKept, InRun, HostSame, HaveSecrets, PasswordGiven
<1> QED
  BY <1>2, <1>5, <1>7, <1>8, <1>9, <1>10, <1>11 DEF InstallInv

\* A phase verifies, and the next one is due.
LEMMA VerifiedStep ==
    ASSUME InstallInv, run.pc = "verify", Verify(run.phase), HostSame, state' = Complete,
           runs' = runs, faults' = faults,
           run' = [run EXCEPT !.pc = "phase", !.phase = @ + 1, !.at = 1, !.blank = FALSE]
    PROVE  InstallInv'
<1> DEFINE p == run.phase
<1>1. KeyInv' /\ PairsInv' /\ PasswordKept'
  BY HostSameKeeps
<1>2. /\ PhasesKept'
      /\ state'.status[p] = "complete" /\ state'.print[p] = run.conf
      /\ \A q \in Phases : q # p => /\ state'.status[q] = state.status[q]
                                    /\ state'.print[q] = state.print[q]
      /\ state' \in [status : [Phases -> {"none", "running", "failed", "complete"}],
                     print : [Phases -> Confs \cup {None}]]
  BY CompleteKeeps
<1>3. TypeOK /\ run \in Records /\ p \in Phases /\ p \in 1..22
  BY RunType, PhaseNumbers DEF InstallInv, Runner, InPhase
<1>4. run' \in Records /\ run'.pc = "phase" /\ run'.phase = p + 1 /\ run'.at = 1
      /\ run'.conf = run.conf /\ run'.skipped = run.skipped /\ run'.password = run.password
  <2> DEFINE r == [run EXCEPT !.phase = p + 1]
  <2>1. r \in Records /\ r.phase = p + 1 /\ r.conf = run.conf
        /\ r.skipped = run.skipped /\ r.password = run.password
    BY <1>3, PhaseNumbers DEF Records
  <2> DEFINE t == [r EXCEPT !.at = 1]
  <2>2. run' = [t EXCEPT !.pc = "phase", !.blank = FALSE]
    BY <1>3 DEF Records
  <2> HIDE DEF r
  <2>3. t \in Records /\ t.phase = p + 1 /\ t.at = 1 /\ t.conf = run.conf
        /\ t.skipped = run.skipped /\ t.password = run.password
    BY <2>1 DEF Records
  <2> HIDE DEF t
  <2> QED
    BY <2>2, <2>3 DEF Records
<1>5. TypeOK'
  BY <1>2, <1>3, <1>4 DEF TypeOK, HostSame, Records
<1>6. Runner' /\ EffectsBehind' /\ Returned' /\ SoundRun' /\ RerunRecovers'
  BY <1>4 DEF Runner, InPhase, EffectsBehind, Returned, SoundRun, RerunRecovers
<1>7. PhasesBehind'
  <2> SUFFICES ASSUME NEW q \in Phases, q < p + 1
               PROVE  /\ state'.status[q] = "complete" /\ state'.print[q] = run.conf
                      /\ \A f \in All[q].verify : host[f] # None \/ (f = "nft-table" /\ f \in gone)
    BY <1>4 DEF PhasesBehind, HostSame
  <2>1. CASE q = p
    BY <1>2, <2>1 DEF Verify
  <2>2. CASE q # p
    <3>1. q < p
      BY <1>3, <2>2, PhaseNumbers
    <3> QED
      BY <1>2, <2>2, <3>1 DEF InstallInv, PhasesBehind, InRun
  <2> QED
    BY <2>1, <2>2
<1>8. PasswordInv'
  <2>1. ASSUME p + 1 > 20, ~run.skipped
        PROVE  HaveSecrets /\ PasswordGiven /\ served.admin = secrets.admin
    <3>1. CASE p > 20
      BY <2>1, <3>1, AdministratorPhase DEF InstallInv, PasswordInv, InRun
    <3>2. CASE p = 20
      <4>1. /\ Plan = All[20].apply /\ Len(Plan) = 3 /\ run.at = 4
            /\ Plan[1].kind = "secrets" /\ Plan[3].kind = "live"
        BY <3>2, Positions DEF InstallInv, Returned, Plan
      <4>2. EffectLeft(Plan[1]) /\ EffectLeft(Plan[3])
        BY <4>1 DEF InstallInv, EffectsBehind, InPhase
      <4>3. HaveSecrets /\ PasswordGiven /\ served.admin \in {0, secrets.admin}
        BY <4>1, <4>2 DEF EffectLeft
      <4>4. host["control-plane"] # None
        <5>1. 18 \in Phases /\ 18 < p /\ "control-plane" \in All[18].verify
          BY <3>2, PhaseNumbers, VerifiedFacts
        <5> QED
          BY <5>1 DEF InstallInv, PhasesBehind, InRun
      <4> QED
        BY <4>3, <4>4 DEF InstallInv, PasswordInv
    <3> QED
      BY <1>3, <2>1, <3>1, <3>2
  <2> QED
    BY <1>1, <1>4, <2>1, AdministratorPhase
       DEF PasswordInv, PasswordKept, HostSame, HaveSecrets, PasswordGiven
<1> QED
  BY <1>1, <1>2, <1>5, <1>6, <1>7, <1>8 DEF InstallInv

\* A phase that met no failure verifies, but for what no run can help.
LEMMA Verifies ==
    ASSUME InstallInv, run.pc = "verify", ~run.hurt, quota, "secrets" \notin gone
    PROVE  Verify(run.phase)
<1> DEFINE p == run.phase
<1> SUFFICES ASSUME NEW f \in All[p].verify PROVE host[f] # None
  BY DEF Verify
<1>1. p \in Phases /\ Len(Plan) \in Nat /\ Plan = All[p].apply
  BY PlanLength DEF InstallInv, Runner, InPhase, Plan
<1>2. VerifiedPlaced(p, f)
  BY <1>1, VerifiedFrom
<1>3. \/ run.at = Len(Plan) + 1
      \/ p = 17 /\ run.at = 4
  BY DEF InstallInv, Returned
<1>4. ASSUME NEW i \in 1..Len(Plan), i < run.at PROVE Sound(Plan[i])
  BY <1>4 DEF InstallInv, SoundRun, InPhase
<1>5. CASE \E i \in 1..Len(All[p].apply) :
              /\ All[p].apply[i].kind \notin Special /\ All[p].apply[i].fact = f
              /\ p = 17 => i < 4
  <2>1. PICK i \in 1..Len(Plan) : /\ Plan[i].kind \notin Special /\ Plan[i].fact = f
                                  /\ p = 17 => i < 4
    BY <1>1, <1>5
  <2>2. i < run.at
    BY <1>1, <1>3, <2>1
  <2> QED
    BY <1>4, <2>1, <2>2 DEF Sound
<1>6. CASE p = 18 /\ f = "control-plane"
  <2>1. 2 \in 1..Len(Plan) /\ Plan[2].kind = "control-plane" /\ 2 < run.at
    BY <1>1, <1>3, <1>6, Positions
  <2> QED
    BY <1>4, <1>6, <2>1 DEF Sound
<1>7. CASE p = 21 /\ f = "services"
  <2>1. 18 \in Phases /\ 18 < p /\ "services" \in All[18].verify
    BY <1>7, PhaseNumbers, VerifiedFacts
  <2> QED
    BY <1>7, <2>1 DEF InstallInv, PhasesBehind, InRun
<1> QED
  BY <1>2, <1>5, <1>6, <1>7 DEF VerifiedPlaced

LEMMA VerifyStep ==
    ASSUME InstallInv, VerifyPhase \/ VerifyFails
    PROVE  InstallInv'
<1>1. HostSame /\ runs' = runs /\ run.pc = "verify"
  BY DEF VerifyPhase, VerifyFails, HostSame
<1>2. KeyInv' /\ PairsInv' /\ PasswordKept'
  BY <1>1, HostSameKeeps
<1>3. TypeOK /\ run \in Records /\ run.phase \in Phases
  BY <1>1, RunType DEF InstallInv, Runner, InPhase
<1>4. CASE VerifyPhase /\ Verify(run.phase)
  BY <1>1, <1>4, VerifiedStep DEF VerifyPhase
<1>5. CASE VerifyPhase /\ ~Verify(run.phase)
  <2>1. /\ state' = [state EXCEPT !.status[run.phase] = "failed"] /\ faults' = faults
        /\ run' = [run EXCEPT !.pc = "error"]
    BY <1>5 DEF VerifyPhase, FailPhase
  <2>2. PhasesKept' /\ state' \in [status : [Phases -> {"none", "running", "failed", "complete"}],
                                   print : [Phases -> Confs \cup {None}]]
    BY <1>1, <1>3, <2>1, StatusKeeps
  <2>3. run' \in Records /\ run'.pc = "error" /\ run'.hurt = run.hurt
    BY <1>3, <2>1 DEF Records
  <2>4. TypeOK'
    BY <1>1, <1>3, <2>1, <2>2, <2>3 DEF TypeOK, HostSame, Records
  <2>5. RerunRecovers'
    BY <1>1, <1>5, <2>3, Verifies DEF RerunRecovers, HostSame
  <2> QED
    BY <1>2, <2>2, <2>3, <2>4, <2>5, EndedStep
<1>6. CASE VerifyFails
  <2>1. /\ run' = [run EXCEPT !.pc = "error", !.hurt = TRUE] /\ faults' \in 0..MaxFaults
        /\ (state' = state \/ (Verify(run.phase) /\ state' = Complete))
    BY <1>3, <1>6, FaultType DEF VerifyFails
  <2>2. PhasesKept' /\ state' \in [status : [Phases -> {"none", "running", "failed", "complete"}],
                                   print : [Phases -> Confs \cup {None}]]
    BY <1>1, <1>3, <2>1, HostSameKeeps, CompleteKeeps DEF TypeOK
  <2>3. run' \in Records /\ run'.pc = "error" /\ run'.hurt
    BY <1>3, <2>1 DEF Records
  <2>4. TypeOK'
    BY <1>1, <1>3, <2>1, <2>2, <2>3 DEF TypeOK, HostSame, Records
  <2> QED
    BY <1>2, <2>2, <2>3, <2>4, EndedStep DEF RerunRecovers
<1> QED
  BY <1>4, <1>5, <1>6

\* A step that changes only the secrets: a key in use is kept or its loss known.
LEMMA SecretsKeep ==
    ASSUME InstallInv, host' = host, quota' = quota, state' = state,
           gone \subseteq gone' \cup {"password"},
           HaveSecrets => "secrets" \in gone' \/ (secrets'.admin # 0 /\ secrets'.key = secrets.key),
           served'.key = served.key, served.admin # 0 => served'.admin # 0,
           served'.admin = 0 \/ secrets'.admin \in {0, served'.admin} \/ "password" \in gone'
    PROVE  KeyInv' /\ PairsInv' /\ PasswordKept' /\ PhasesKept'
<1>1. \A f \in Facts : f \in gone => f \in gone'
  BY FactPlaces
<1>2. "secrets" \in gone => "secrets" \in gone'
  OBVIOUS
<1>3. KeyInv'
  BY <1>2 DEF InstallInv, KeyInv, HaveSecrets
<1>4. PairsInv'
  BY <1>1, FactPlaces DEF InstallInv, PairsInv, Excused, Made
<1>5. PasswordKept'
  BY DEF InstallInv, PasswordInv, PasswordKept
<1>6. PhasesKept'
  <2> SUFFICES ASSUME NEW p \in Phases, state'.status[p] = "complete",
                      NEW i \in 1..Len(All[p].apply), NEW e, e = All[p].apply[i],
                      NEW c, c = state'.print[p]
               PROVE  EffectKept(e, c)'
    BY DEF PhasesKept
  <2>1. EffectKept(e, c) /\ FactsOf(e) \subseteq Facts
    BY FactPlaces DEF InstallInv, PhasesKept
  <2>2. ASSUME NEW f \in FactsOf(e) PROVE Kept(f, c)'
    BY <1>1, <2>1 DEF EffectKept, Kept, Excused
  <2>3. e.kind = "secrets" => (HaveSecrets \/ "secrets" \in gone)'
    BY <1>2, <2>1 DEF EffectKept, HaveSecrets
  <2> QED
    BY <2>1, <2>2, <2>3 DEF EffectKept
<1> QED
  BY <1>3, <1>4, <1>5, <1>6

LEMMA FinishStep ==
    ASSUME InstallInv, Finish
    PROVE  InstallInv' /\ PrintedPasswordWorks'
<1> DEFINE w == Ensure(World, run.password, "works")
<1>1. /\ run.pc = "phase" /\ run.phase \notin Phases /\ state' = state /\ quota' = quota
      /\ runs' = runs /\ faults' = faults
      /\ run' = [run EXCEPT !.pc = IF w.goes = "on" THEN "ok" ELSE "error",
                            !.printed = IF w.goes = "on" THEN w.secrets.admin ELSE 0]
      /\ host' = w.host /\ secrets' = w.secrets /\ served' = w.served
      /\ fresh' = w.fresh /\ gone' = w.gone
  BY DEF Finish, Becomes
<1>2. TypeOK /\ run \in Records /\ run.password \in Nat
  BY RunType, InstallerAssumption DEF InstallInv, TypeOK
<1>3. EnsureMoved(w, run.password, "works")
  BY <1>2, EnsureMoves DEF Hows
<1> HIDE DEF w
<1>4. /\ w \in Worlds /\ w.host = host /\ w.served = served
      /\ gone \subseteq w.gone /\ w.gone \subseteq gone \cup {"password"}
      /\ HaveSecrets => /\ w.secrets.admin # 0 /\ w.secrets.key = secrets.key
                        /\ run.password = 0 => w.secrets.admin = secrets.admin
      /\ w.goes = "on" => /\ w.secrets.admin # 0 /\ w.secrets.key # 0
                          /\ run.password # 0 => w.secrets.admin = run.password
      /\ w.goes # "on" => run.password = KnownPassword
      /\ \/ w.secrets.admin = secrets.admin
         \/ served.admin \in {0, w.secrets.admin} \/ "password" \in w.gone
  BY <1>3 DEF EnsureMoved
<1>5. \/ served'.admin = 0 \/ secrets'.admin \in {0, served'.admin} \/ "password" \in gone'
  BY <1>1, <1>4 DEF InstallInv, PasswordInv
<1>6. KeyInv' /\ PairsInv' /\ PasswordKept' /\ PhasesKept'
  BY <1>1, <1>4, <1>5, SecretsKeep
<1>7. w.secrets.admin \in Nat /\ run.phase = 23
  BY <1>1, <1>2, <1>4, PhaseNumbers DEF Worlds, Records
<1>8. /\ run' \in Records /\ run'.phase = 23 /\ run'.conf = run.conf
      /\ run'.skipped = run.skipped /\ run'.password = run.password
      /\ \/ run'.pc = "ok" /\ w.goes = "on" /\ run'.printed = w.secrets.admin
         \/ run'.pc = "error" /\ w.goes # "on"
  BY <1>1, <1>2, <1>7 DEF Records
<1>9. TypeOK'
  BY <1>1, <1>2, <1>4, <1>8 DEF TypeOK, Worlds, Records
<1>10. CASE w.goes # "on"
  <2>1. run'.pc = "error" /\ run'.password = KnownPassword
    BY <1>4, <1>8, <1>10
  <2> QED
    BY <1>6, <1>9, <2>1, EndedStep DEF RerunRecovers, PrintedPasswordWorks
<1>11. CASE w.goes = "on"
  <2>1. run'.pc = "ok" /\ run'.printed = w.secrets.admin
    BY <1>8, <1>11
  <2>2. Runner' /\ EffectsBehind' /\ Returned' /\ SoundRun' /\ RerunRecovers'
    BY <1>1, <1>7, <1>8, <2>1
       DEF Runner, InPhase, EffectsBehind, Returned, SoundRun, RerunRecovers
  <2>3. PhasesBehind'
    BY <1>1, <1>4, <1>7, <1>8 DEF InstallInv, PhasesBehind, InRun
  <2>4. ASSUME ~run.skipped
        PROVE  (HaveSecrets /\ PasswordGiven /\ served.admin = secrets.admin)'
    <3>1. HaveSecrets /\ PasswordGiven /\ served.admin = secrets.admin
      BY <1>1, <1>7, <2>4, AdministratorPhase DEF InstallInv, PasswordInv, InRun
    <3>2. w.secrets.admin = secrets.admin
      BY <1>4, <1>11, <3>1 DEF PasswordGiven
    <3> QED
      BY <1>1, <1>4, <1>8, <1>11, <3>1, <3>2 DEF HaveSecrets, PasswordGiven
  <2>5. PasswordInv'
    BY <1>6, <1>8, <2>4, AdministratorPhase DEF PasswordInv, PasswordKept
  <2>6. PrintedPasswordWorks'
    <3>1. host["control-plane"] # None
      <4>1. 18 \in Phases /\ 18 < run.phase /\ "control-plane" \in All[18].verify
        BY <1>7, PhaseNumbers, VerifiedFacts
      <4> QED
        BY <1>1, <4>1 DEF InstallInv, PhasesBehind, InRun
    <3>2. served.admin # 0
      BY <3>1 DEF InstallInv, PasswordInv
    <3>3. CASE run.skipped
      BY <1>1, <1>4, <1>5, <1>8, <1>11, <2>1, <3>2, <3>3 DEF PrintedPasswordWorks
    <3>4. CASE ~run.skipped
      BY <1>1, <2>1, <2>4, <3>4 DEF PrintedPasswordWorks
    <3> QED
      BY <3>3, <3>4
  <2> QED
    BY <1>6, <1>9, <2>2, <2>3, <2>5, <2>6 DEF InstallInv
<1> QED
  BY <1>10, <1>11

\* Between the runs.
LEMMA SetPasswordStep ==
    ASSUME InstallInv, NEW password \in Passwords \ {0}, NEW how \in {"works", "fails"},
           SetAdministratorPassword(password, how)
    PROVE  InstallInv' /\ run'.pc = "error"
<1> DEFINE w == Ensure(World, password, "works")
           live == IF w.goes = "on" THEN UpdateLiveAdminPassword(w, how) ELSE w
<1>1. /\ state' = state /\ quota' = quota /\ runs' = runs + 1 /\ runs < MaxRuns
      /\ run' = [run EXCEPT !.pc = "error", !.hurt = TRUE]
      /\ host' = live.host /\ secrets' = live.secrets /\ served' = live.served
      /\ fresh' = live.fresh /\ gone' = live.gone
  BY DEF SetAdministratorPassword, Becomes
<1>2. TypeOK /\ run \in Records /\ password \in Nat /\ faults' \in 0..MaxFaults
  <2>1. TypeOK /\ run \in Records /\ password \in Nat
    BY RunType, InstallerAssumption DEF InstallInv
  <2> QED
    BY <2>1, FaultType DEF SetAdministratorPassword, TypeOK
<1>3. EnsureMoved(w, password, "works")
  BY <1>2, EnsureMoves DEF Hows
<1> HIDE DEF w
<1>4. /\ w \in Worlds /\ w.host = host /\ w.served = served
      /\ gone \subseteq w.gone
      /\ HaveSecrets => w.secrets.admin # 0 /\ w.secrets.key = secrets.key
      /\ w.goes = "on" => w.secrets.admin # 0
      /\ \/ w.secrets.admin = secrets.admin
         \/ served.admin \in {0, w.secrets.admin} \/ "password" \in w.gone
  BY <1>3 DEF EnsureMoved
<1>5. served.admin = 0 \/ w.secrets.admin \in {0, served.admin} \/ "password" \in w.gone
  BY <1>4 DEF InstallInv, PasswordInv
<1>6. /\ live \in Worlds /\ live.host = host /\ live.secrets = w.secrets
      /\ live.served.key = served.key
      /\ \/ live.served.admin = served.admin /\ live.gone = w.gone
         \/ w.secrets.admin # 0 /\ live.served.admin = w.secrets.admin
            /\ live.gone = w.gone \ {"password"}
  <2>1. CASE live = w
    BY <1>4, <2>1
  <2>2. CASE live = Ends(w, how) /\ how = "fails"
    BY <1>4, <2>2, EndsMoves DEF Hows
  <2>3. CASE /\ w.goes = "on"
             /\ live = [w EXCEPT !.served.admin = w.secrets.admin, !.gone = @ \ {"password"}]
    <3>1. /\ live \in Worlds /\ live.host = host /\ live.secrets = w.secrets
          /\ live.served.key = served.key /\ live.served.admin = w.secrets.admin
          /\ live.gone = w.gone \ {"password"}
      BY <1>4, <2>3, AdminServed
    <3> QED
      BY <1>4, <2>3, <3>1
  <2> QED
    BY <2>1, <2>2, <2>3 DEF UpdateLiveAdminPassword
<1> HIDE DEF live
<1>7. KeyInv' /\ PairsInv' /\ PasswordKept' /\ PhasesKept'
  BY <1>1, <1>4, <1>5, <1>6, SecretsKeep
<1>8. run' \in Records /\ run'.pc = "error" /\ run'.hurt
  BY <1>1, <1>2 DEF Records
<1>9. runs' \in 0..MaxRuns
  BY <1>1, <1>2, InstallerAssumption DEF TypeOK
<1>10. TypeOK'
  BY <1>1, <1>2, <1>6, <1>8, <1>9 DEF TypeOK, Worlds, Records
<1> QED
  BY <1>7, <1>8, <1>10, EndedStep DEF RerunRecovers

LEMMA ChangeStep ==
    ASSUME InstallInv, ChangeInDirector
    PROVE  InstallInv' /\ run'.pc = "error"
<1>1. /\ served' = [served EXCEPT !.admin = fresh + 1] /\ fresh' = fresh + 1
      /\ gone' = gone \cup {"password"} /\ run' = [run EXCEPT !.pc = "error", !.hurt = TRUE]
      /\ state' = state /\ host' = host /\ secrets' = secrets /\ quota' = quota
      /\ runs' = runs
  BY DEF ChangeInDirector
<1>2. TypeOK /\ run \in Records /\ faults' \in 0..MaxFaults
  BY FaultType, RunType DEF InstallInv, ChangeInDirector
<1>3. /\ served' \in [key : Nat, admin : Nat] /\ served'.key = served.key
      /\ served'.admin # 0 /\ fresh' \in Nat
  BY <1>1, <1>2 DEF TypeOK
<1>4. KeyInv' /\ PairsInv' /\ PasswordKept' /\ PhasesKept'
  BY <1>1, <1>3, SecretsKeep DEF HaveSecrets
<1>5. run' \in Records /\ run'.pc = "error" /\ run'.hurt
  BY <1>1, <1>2 DEF Records
<1>6. TypeOK'
  BY <1>1, <1>2, <1>3, <1>5 DEF TypeOK, Records
<1> QED
  BY <1>4, <1>5, <1>6, EndedStep DEF RerunRecovers

LEMMA LoseSecretStep ==
    ASSUME InstallInv, NEW s \in {"admin", "key"}, LoseSecret(s)
    PROVE  InstallInv' /\ run'.pc = "error"
<1>1. /\ secrets' = [secrets EXCEPT ![s] = 0] /\ gone' = gone \cup {"secrets"}
      /\ run' = [run EXCEPT !.pc = "error", !.hurt = TRUE]
      /\ state' = state /\ host' = host /\ served' = served /\ quota' = quota
      /\ runs' = runs /\ fresh' = fresh
  BY DEF LoseSecret
<1>2. TypeOK /\ run \in Records /\ faults' \in 0..MaxFaults
  BY FaultType, RunType DEF InstallInv, LoseSecret
<1>3. /\ secrets' \in [admin : Nat, key : Nat]
      /\ secrets'.admin \in {0, secrets.admin}
  BY <1>1, <1>2 DEF TypeOK
<1>4. KeyInv' /\ PairsInv' /\ PasswordKept' /\ PhasesKept'
  <2>1. \/ served'.admin = 0 \/ secrets'.admin \in {0, served'.admin} \/ "password" \in gone'
    BY <1>1, <1>3 DEF InstallInv, PasswordInv
  <2> QED
    BY <1>1, <2>1, SecretsKeep
<1>5. run' \in Records /\ run'.pc = "error" /\ run'.hurt
  BY <1>1, <1>2 DEF Records
<1>6. TypeOK'
  BY <1>1, <1>2, <1>3, <1>5 DEF TypeOK, Records
<1> QED
  BY <1>4, <1>5, <1>6, EndedStep DEF RerunRecovers

LEMMA LoseStep ==
    ASSUME InstallInv, NEW x \in Facts, Lose(x)
    PROVE  InstallInv' /\ run'.pc = "error"
<1>1. /\ host' = [host EXCEPT ![x] = None]
      /\ gone' = IF x \in Verified THEN gone ELSE gone \cup {x}
      /\ run' = [run EXCEPT !.pc = "error", !.hurt = TRUE]
      /\ state' = state /\ secrets' = secrets /\ served' = served /\ quota' = quota
      /\ runs' = runs /\ fresh' = fresh
  BY DEF Lose
<1>2. TypeOK /\ run \in Records /\ faults' \in 0..MaxFaults
  BY FaultType, RunType DEF InstallInv, Lose
<1>3. /\ host'[x] = None /\ \A f \in Facts \ {x} : host'[f] = host[f]
      /\ host' \in [Facts -> Confs \cup {None}] /\ gone \subseteq gone'
      /\ gone' \subseteq gone \cup {x}
      /\ gone' \subseteq Facts \cup {"secrets", "password"}
  BY <1>1, <1>2 DEF TypeOK
<1>4. \A f \in Facts : host'[f] = host[f] \/ (host'[f] = None /\ (f \in Verified \/ f \in gone'))
  BY <1>1, <1>3
<1>5. {"backup-key", "backup-key.pub", "control-plane", "quota-image", "quota-filesystem",
       "quota-directory"} \subseteq Facts
      /\ "backup-key.pub" \notin Verified /\ "quota-filesystem" \notin Verified
      /\ x # "secrets" /\ x # "password"
  BY FactPlaces, VerifiedFacts DEF Made
<1>6. KeyInv' /\ PasswordKept'
  BY <1>1, <1>3, <1>4, <1>5
     DEF InstallInv, KeyInv, HaveSecrets, PasswordInv, PasswordKept
<1>7. PairsInv'
  BY <1>1, <1>3, <1>4, <1>5 DEF InstallInv, PairsInv, Excused
<1>8. PhasesKept'
  <2> SUFFICES ASSUME NEW p \in Phases, state'.status[p] = "complete",
                      NEW i \in 1..Len(All[p].apply), NEW e, e = All[p].apply[i],
                      NEW c, c = state'.print[p]
               PROVE  EffectKept(e, c)'
    BY DEF PhasesKept
  <2>1. EffectKept(e, c) /\ FactsOf(e) \subseteq Facts
    BY <1>1, FactPlaces DEF InstallInv, PhasesKept
  <2>2. ASSUME NEW f \in FactsOf(e) PROVE Kept(f, c)'
    <3>1. Kept(f, c) /\ f \in Facts
      BY <2>1 DEF EffectKept
    <3> QED
      BY <1>3, <1>4, <3>1 DEF Kept, Excused
  <2>3. e.kind = "secrets" => (HaveSecrets \/ "secrets" \in gone)'
    BY <1>1, <1>3, <2>1 DEF EffectKept, HaveSecrets
  <2> QED
    BY <1>1, <2>1, <2>2, <2>3 DEF EffectKept
<1>9. run' \in Records /\ run'.pc = "error" /\ run'.hurt
  BY <1>1, <1>2 DEF Records
<1>10. TypeOK'
  BY <1>1, <1>2, <1>3, <1>9 DEF TypeOK, Records
<1> QED
  BY <1>6, <1>7, <1>8, <1>9, <1>10, EndedStep DEF RerunRecovers

LEMMA InstallStutters ==
    ASSUME InstallInv, PrintedPasswordWorks, UNCHANGED vars
    PROVE  InstallInv' /\ PrintedPasswordWorks'
<1>1. /\ state' = state /\ host' = host /\ secrets' = secrets /\ served' = served
      /\ quota' = quota /\ run' = run /\ runs' = runs /\ faults' = faults
      /\ fresh' = fresh /\ gone' = gone
  BY DEF vars
<1>2. HostSame
  BY <1>1 DEF HostSame
<1>3. KeyInv' /\ PairsInv' /\ PasswordKept' /\ PhasesKept'
  BY <1>1, <1>2, HostSameKeeps
<1>4. TypeOK'
  BY <1>1 DEF InstallInv, TypeOK
<1>5. Plan' = Plan
  BY <1>1 DEF Plan
<1>6. Runner' /\ Returned' /\ PhasesBehind' /\ RerunRecovers'
  BY <1>1, <1>5 DEF InstallInv, Runner, InPhase, InRun, Returned, PhasesBehind, RerunRecovers
<1>7. EffectsBehind'
  <2> SUFFICES ASSUME InPhase, NEW i \in 1..Len(Plan), i < run.at, NEW e, e = Plan[i]
               PROVE  EffectLeft(e)'
    BY <1>1, <1>5 DEF EffectsBehind, InPhase
  <2>1. EffectLeft(e)
    BY DEF InstallInv, EffectsBehind
  <2> QED
    BY <1>1, <2>1 DEF EffectLeft, Left, Excused, HaveSecrets, PasswordGiven
<1>8. SoundRun'
  <2> SUFFICES ASSUME InPhase, ~run.hurt, NEW i \in 1..Len(Plan), i < run.at,
                      NEW e, e = Plan[i]
               PROVE  Sound(e)'
    BY <1>1, <1>5 DEF SoundRun, InPhase
  <2>1. Sound(e)
    BY DEF InstallInv, SoundRun
  <2> QED
    BY <1>1, <2>1 DEF Sound, Excused
<1>9. PasswordInv'
  BY <1>1 DEF InstallInv, PasswordInv, InRun, HaveSecrets, PasswordGiven
<1>10. PrintedPasswordWorks'
  BY <1>1 DEF PrintedPasswordWorks
<1> QED
  BY <1>3, <1>4, <1>6, <1>7, <1>8, <1>9, <1>10 DEF InstallInv

LEMMA InstallBegins ==
    ASSUME Init
    PROVE  InstallInv /\ PrintedPasswordWorks
<1>1. PICK c \in Confs :
         run = [pc |-> "error", phase |-> 1, at |-> 1, blank |-> FALSE, conf |-> c,
                password |-> 0, printed |-> 0, hurt |-> TRUE, skipped |-> FALSE]
  BY DEF Init
<1>2. run \in Records /\ run.pc = "error" /\ run.hurt
  BY <1>1, InstallerAssumption, PhaseNumbers DEF Records
<1>3. /\ state = [status |-> [p \in Phases |-> "none"], print |-> [p \in Phases |-> None]]
      /\ host = [f \in Facts |-> None]
      /\ secrets = [admin |-> 0, key |-> 0] /\ served = [key |-> 0, admin |-> 0]
      /\ quota \in BOOLEAN
      /\ runs = 0 /\ faults = 0 /\ fresh = KnownPassword /\ gone = {}
  BY DEF Init
<1>4. TypeOK
  BY <1>2, <1>3, InstallerAssumption DEF TypeOK, Records
<1>5. PhasesKept
  BY <1>3 DEF PhasesKept
<1>6. {"backup-key", "control-plane", "quota-image", "quota-directory"} \subseteq Facts
  BY FactPlaces DEF Made
<1>7. KeyInv /\ PairsInv
  BY <1>3, <1>6 DEF KeyInv, PairsInv
<1>8. PasswordInv
  BY <1>2, <1>3, <1>6 DEF PasswordInv, InRun
<1> QED
  BY <1>2, <1>4, <1>5, <1>7, <1>8
     DEF InstallInv, Runner, InPhase, PhasesBehind, InRun, EffectsBehind, Returned, SoundRun,
         RerunRecovers, PrintedPasswordWorks

LEMMA InstallNext ==
    ASSUME InstallInv, PrintedPasswordWorks, Next
    PROVE  InstallInv' /\ PrintedPasswordWorks'
<1>1. CASE \E c \in Configs : Start(c)
  <2>1. PICK c \in Configs : Start(c)
    BY <1>1
  <2>2. run'.pc = "phase"
    BY <2>1 DEF Start
  <2> QED
    BY <2>1, <2>2, StartStep DEF PrintedPasswordWorks
<1>2. run \in Records
  BY RunType DEF InstallInv
<1>3. CASE Skip
  <2>1. run'.pc = "phase"
    BY <1>2, <1>3 DEF Skip, AtPhase, Records
  <2> QED
    BY <1>3, <2>1, SkipStep DEF PrintedPasswordWorks
<1>4. CASE Begin
  <2>1. run'.pc = "apply"
    BY <1>2, <1>4 DEF Begin, Records
  <2> QED
    BY <1>4, <2>1, BeginStep DEF PrintedPasswordWorks
<1>5. CASE BeginFails
  <2>1. run'.pc = "error"
    BY <1>2, <1>5 DEF BeginFails, Records
  <2> QED
    BY <1>5, <2>1, BeginFailsStep DEF PrintedPasswordWorks
<1>6. CASE CheckFails
  <2>1. run'.pc = "error"
    BY <1>2, <1>6 DEF CheckFails, Records
  <2> QED
    BY <1>6, <2>1, CheckFailsStep DEF PrintedPasswordWorks
<1>7. CASE Apply \/ ApplyWithFault
  <2>1. run'.pc # "ok"
    <3>1. PICK w, hurt : ApplyOf(w, hurt)
      BY <1>7 DEF Apply, ApplyWithFault
    <3>2. run.pc = "apply"
      BY <1>7 DEF Apply, ApplyWithFault, AtEffect
    <3> QED
      BY <1>2, <3>1, <3>2 DEF ApplyOf, Records
  <2> QED
    BY <1>7, <2>1, ApplyStep DEF PrintedPasswordWorks
<1>8. CASE Applied
  <2>1. run'.pc = "verify"
    BY <1>2, <1>8 DEF Applied, Records
  <2> QED
    BY <1>8, <2>1, AppliedStep DEF PrintedPasswordWorks
<1>9. CASE VerifyPhase \/ VerifyFails
  <2>1. run'.pc \in {"phase", "error"}
    BY <1>2, <1>9 DEF VerifyPhase, VerifyFails, Records
  <2> QED
    BY <1>9, <2>1, VerifyStep DEF PrintedPasswordWorks
<1>10. CASE Finish
  BY <1>10, FinishStep
<1>11. CASE \E password \in Passwords \ {0}, how \in {"works", "fails"} :
               SetAdministratorPassword(password, how)
  BY <1>11, SetPasswordStep DEF PrintedPasswordWorks
<1>12. CASE ChangeInDirector
  BY <1>12, ChangeStep DEF PrintedPasswordWorks
<1>13. CASE \E f \in Facts : Lose(f)
  BY <1>13, LoseStep DEF PrintedPasswordWorks
<1>14. CASE \E s \in {"admin", "key"} : LoseSecret(s)
  BY <1>14, LoseSecretStep DEF PrintedPasswordWorks
<1>15. CASE Done
  BY <1>15, InstallStutters DEF Done
<1> QED
  BY <1>1, <1>3, <1>4, <1>5, <1>6, <1>7, <1>8, <1>9, <1>10, <1>11, <1>12, <1>13, <1>14, <1>15
     DEF Next

LEMMA InstallInvHolds == ProgramSpec => [](InstallInv /\ PrintedPasswordWorks)
<1>1. ProgramInit => InstallInv /\ PrintedPasswordWorks
  BY InstallBegins DEF ProgramInit
<1>2. InstallInv /\ PrintedPasswordWorks /\ [ProgramNext]_<<program, updateVars, vars>>
        => (InstallInv /\ PrintedPasswordWorks)'
  BY InstallNext, InstallStutters DEF ProgramNext, InstallStep, UpdateStep
<1> QED
  BY <1>1, <1>2, PTL DEF ProgramSpec

\* The state file, the host and the run of panel-install, and the files, the
\* journal and the command of panel-updater have their types in every state.
THEOREM ProgramTypeCorrect == ProgramSpec => []ProgramTypeOK
<1>1. ProgramInit => UpdateInv
  BY UpdateInitially DEF ProgramInit
<1>2. UpdateInv /\ [ProgramNext]_<<program, updateVars, vars>> => UpdateInv'
  BY UpdateInvStep DEF ProgramNext, InstallStep, UpdateStep
<1>3. UpdateInv => UpdateTypeOK
  BY DEF UpdateInv
<1>4. InstallInv => TypeOK
  BY DEF InstallInv
<1>5. UpdateTypeOK /\ TypeOK => ProgramTypeOK
  BY DEF ProgramTypeOK
<1> QED
  BY <1>1, <1>2, <1>3, <1>4, <1>5, InstallInvHolds, PTL DEF ProgramSpec

\* When Run reports success, what every phase establishes is on the host for the
\* configuration of this run, whatever configuration, failure, crash or loss the
\* runs before it met, but for what the code gives up on.
THEOREM InstalledIsWhole == ProgramSpec => []InstalledOnSuccess
<1>1. InstallInv => InstalledOnSuccess
  <2> SUFFICES ASSUME InstallInv, run.pc = "ok", NEW f \in Facts
               PROVE  /\ host[f] # None \/ (f \in gone /\ f \notin Verified \ {"nft-table"})
                      /\ f \in Named => host[f] = run.conf \/ f \in gone
    BY DEF InstalledOnSuccess
  <2>1. \A q \in Phases : q < run.phase
    BY PhaseNumbers DEF InstallInv, Runner, TypeOK
  <2>2. \A q \in Phases :
           /\ state.status[q] = "complete" /\ state.print[q] = run.conf
           /\ \A g \in All[q].verify : host[g] # None \/ (g = "nft-table" /\ g \in gone)
    BY <2>1 DEF InstallInv, PhasesBehind, InRun
  <2>3. PICK q \in Phases : \E i \in 1..Len(All[q].apply) : f \in FactsOf(All[q].apply[i])
    BY FactPlaces
  <2>4. Kept(f, run.conf)
    BY <2>2, <2>3 DEF InstallInv, PhasesKept, EffectKept
  <2>5. f \in Verified => host[f] # None \/ (f = "nft-table" /\ f \in gone)
    BY <2>2 DEF Verified
  <2> QED
    BY <2>4, <2>5 DEF Kept, Excused
<1> QED
  BY <1>1, InstallInvHolds, PTL

\* After an installation that succeeds PowerDNS has the panel's API key, unless
\* a secret file was lost since, and Director accepts the password that is
\* printed, unless the administrator's phase was skipped and the password was
\* stored or changed since it was last made live.
THEOREM SecretsAreOne == ProgramSpec => []SecretsAgree
<1>1. InstallInv /\ PrintedPasswordWorks => SecretsAgree
  <2> SUFFICES ASSUME InstallInv, run.pc = "ok"
               PROVE  secrets.key = served.key \/ "secrets" \in gone
    BY DEF SecretsAgree, KeysAgree
  <2>1. 9 \in Phases /\ 9 < run.phase
    BY PhaseNumbers DEF InstallInv, Runner, TypeOK
  <2>2. state.status[9] = "complete"
    BY <2>1 DEF InstallInv, PhasesBehind, InRun
  <2>3. 4 \in 1..Len(All[9].apply) /\ All[9].apply[4].kind = "key"
    BY Positions
  <2>4. EffectKept(All[9].apply[4], state.print[9])
    BY <2>1, <2>2, <2>3 DEF InstallInv, PhasesKept
  <2>5. served.key # 0
    BY <2>3, <2>4 DEF EffectKept
  <2> QED
    BY <2>5 DEF InstallInv, KeyInv
<1> QED
  BY <1>1, InstallInvHolds, PTL

\* A run of panel-install that meets no failure of its own succeeds, whatever the
\* runs before it left behind, but for the development password, a kernel
\* without quotas, the offsite key without its public half and a lost secret.
THEOREM RerunSucceeds == ProgramSpec => []RerunRecovers
<1>1. InstallInv => RerunRecovers
  BY DEF InstallInv
<1> QED
  BY <1>1, InstallInvHolds, PTL
=============================================================================
