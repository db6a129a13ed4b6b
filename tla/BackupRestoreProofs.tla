------------------------- MODULE BackupRestoreProofs -------------------------
(***************************************************************************)
(* Proofs about BackupRestore, for any number of backups, of requests, of  *)
(* restores and of faults: an account has one restore under way at a time, *)
(* a backup that is shown as succeeded is whole, a finished restore is not *)
(* repeated and a resumed one is whole.                                    *)
(***************************************************************************)
EXTENDS BackupRestore, FiniteSetTheorems, TLAPS

(***************************************************************************)
(* The inductive invariant.                                                *)
(***************************************************************************)

\* The backup job: the row of the attempt is not shown as succeeded while its
\* object may be replaced, and what is sealed is what was listed.
AttemptOfBackup ==
    back.pc # "idle" =>
        /\ back.b \in Backups
        /\ rows[back.b].key >= 2
        /\ back.pc = "collect" => back.i <= 3
        /\ back.pc # "collect" \/ back.i > 1 => "home" \in In(back.got)
        /\ back.pc \in {"put", "rename", "reconcile"} => In(back.got) = back.expected
        /\ back.pc # "done" => rows[back.b].state = "uploading"
        /\ back.pc = "reconcile" => objects[rows[back.b].key] = Sealed

\* A key that two rows have now was given to the second of them while the first
\* had it.
SharedKeysKnown ==
    /\ count.clock >= 2
    /\ \A b, o \in Backups :
          b # o /\ rows[b].key = rows[o].key /\ rows[b].key >= 2 => rows[b].key \in hist.shared

\* Every archive has a home.
ArchivesHaveHome == \A k \in Keys : There(k) => "home" \in In(objects[k].parts)

\* The partial unique index of restore_journals.
ActiveUnique ==
    /\ Len(restores) <= MaxRestores
    /\ \A r, s \in DOMAIN restores : Active(r) /\ Active(s) => r = s

\* The row of a request is of the backup the request is for.
RequestHasRow ==
    \A q \in Requests :
        /\ rjobs[q].pc = "checked" => rjobs[q].b \in Backups
        /\ rjobs[q].pc \in {"waiting", "running", "done"} =>
              /\ rjobs[q].b \in Backups
              /\ rjobs[q].row \in DOMAIN restores
              /\ restores[rjobs[q].row].b = rjobs[q].b

OnRow == {"journal", "maintenance", "stage", "each", "commit", "verify", "complete", "finish"}
Putting == {"each", "commit"}
Closing == {"verify", "complete", "finish"}

\* An attempt of a restore serves its request, and from the journal on it works
\* on an active row of its backup.
AttemptOfRestore ==
    /\ rest.pc # "idle" =>
          /\ rest.q \in Requests
          /\ rjobs[rest.q].pc = "running"
          /\ rest.b = rjobs[rest.q].b
          /\ "home" \in In(rest.parts)
    /\ rest.pc \in OnRow =>
          /\ rest.row \in DOMAIN restores
          /\ Active(rest.row)
          /\ restores[rest.row].b = rest.b
    /\ rest.pc \in OnRow \ {"journal"} => journal.there

\* The checkpoints an attempt has left behind it.
CheckpointsLeft ==
    /\ rest.pc \in {"idle", "lookup", "insert", "journal", "maintenance", "stage"} => rest.i = 1
    /\ rest.pc \in Putting =>
          /\ rest.i <= 3
          /\ HPM3 => "staged" \in journal.steps
          /\ rest.i > 1 => "home" \in journal.steps
    /\ rest.pc \in Closing => "home" \in journal.steps /\ (HPM3 => "staged" \in journal.steps)

\* A finished restore has left the two checkpoints that keep it from being
\* repeated; one that is putting components in place is not finished.
FinishedLeavesCheckpoints ==
    /\ \A r \in DOMAIN restores :
          restores[r].state = "complete" /\ restores[r].b \notin Legacy
          => {"staged", "home"} \subseteq journal.steps
    /\ rest.pc \in Putting /\ HPM3 => restores[rjobs[rest.q].row].state # "complete"

\* The components before the i-th.
Before(i) == {c \in Components : \/ c = "home" /\ i > 1
                                 \/ c = "db" /\ i > 2
                                 \/ c = "mail" /\ i > 3}

\* While the first restore is under way and no attempt ended after the home's
\* checkpoint, the journal knows of no component the attempt has not put in
\* place itself.
FirstUnderWay == 1 \in DOMAIN restores /\ Active(1) /\ ~hist.late
Checkpointed == journal.steps \cap Components

FirstRestore ==
    /\ ~journal.there => journal.steps = {}
    /\ restores = <<>> => ~journal.there
    /\ FirstUnderWay =>
          /\ rest.pc \notin Putting \cup Closing => Checkpointed = {}
          /\ rest.pc \in Putting =>
                /\ Checkpointed \subseteq Before(rest.i)
                /\ In(Content) \cap Before(rest.i) \subseteq hist.put[1]
                /\ rest.pc = "commit" => Component \in hist.put[1]
          /\ rest.pc \in Closing => In(Content) \subseteq hist.put[1]

BackupInv ==
    /\ TypeOK
    /\ AttemptOfBackup
    /\ SharedKeysKnown
    /\ ArchivesHaveHome
    /\ SucceededIsWhole

RestoreInv ==
    /\ ActiveUnique
    /\ RequestHasRow
    /\ AttemptOfRestore
    /\ CheckpointsLeft
    /\ FinishedLeavesCheckpoints
    /\ FirstRestore

Inv == BackupInv /\ RestoreInv

(***************************************************************************)
(* Lemmas.                                                                 *)
(***************************************************************************)

\* The types of the two attempts.
BackType == [pc : {"idle", "collect", "match", "put", "rename", "reconcile", "done"},
             b : Backups \cup {"none"}, i : 1..4, expected : SUBSET Components, got : Parts]
RestType == [pc : {"idle", "lookup", "insert", "journal", "maintenance", "stage",
                   "each", "commit", "verify", "complete", "finish", "done"},
             q : Requests \cup {"none"}, b : Backups \cup {"none"}, key : Keys,
             row : Nat, i : 1..4, parts : Parts]
RowType == [b : Backups, key : Keys, hash : BOOLEAN,
            state : {"restore_requested", "maintenance", "manual_intervention", "complete"}]
RequestType == [pc : JobStates \cup {"checked", "refused"},
                b : Backups \cup {"none"}, key : Keys, row : Nat]
BackupRowType == [state : {"none", "queued", "uploading", "succeeded"},
                  key : Keys, destination : Destinations]
JournalType == [there : BOOLEAN, pin : Pin, steps : SUBSET Steps]
CountType == [clock : Keys, writes : 0..MaxWrites, faults : 0..MaxFaults]
HistType == [put : [1..MaxRestores -> SUBSET Components], late : BOOLEAN,
             shared : SUBSET Keys]

\* Three components.
LEMMA OrderLength == Len(Order) = 3 /\ Order[1] = "home" /\ Order[2] = "db" /\ Order[3] = "mail"
  BY DEF Order

\* The type invariant, variable by variable.
LEMMA Types ==
  TypeOK <=>
    /\ live \in [Components -> Versions]
    /\ inv \subseteq Components
    /\ rows \in [Backups -> BackupRowType]
    /\ objects \in [Keys -> Object]
    /\ bjobs \in [Backups -> JobStates]
    /\ back \in BackType
    /\ restores \in Seq(RowType)
    /\ rjobs \in [Requests -> RequestType]
    /\ rest \in RestType
    /\ journal \in JournalType
    /\ count \in CountType
    /\ hist \in HistType
<1>1. 1..Len(Order) + 1 = 1..4
  BY OrderLength
<1> QED
  BY <1>1 DEF TypeOK, BackType, RestType, RowType, RequestType, BackupRowType, JournalType,
              CountType, HistType

\* And after a step.
LEMMA TypesAfter ==
  ASSUME live' \in [Components -> Versions], inv' \subseteq Components,
         rows' \in [Backups -> BackupRowType], objects' \in [Keys -> Object],
         bjobs' \in [Backups -> JobStates], back' \in BackType, restores' \in Seq(RowType),
         rjobs' \in [Requests -> RequestType], rest' \in RestType, journal' \in JournalType,
         count' \in CountType, hist' \in HistType
  PROVE  TypeOK'
<1>1. 1..Len(Order) + 1 = 1..4
  BY OrderLength
<1> QED
  BY <1>1 DEF TypeOK, BackType, RestType, RowType, RequestType, BackupRowType, JournalType,
              CountType, HistType

\* What the actions of a restore leave alone keeps the invariant of backups.
LEMMA BackupFrame ==
  ASSUME BackupInv, UNCHANGED backupVars, count'.clock = count.clock, hist'.shared = hist.shared
  PROVE  AttemptOfBackup' /\ SharedKeysKnown' /\ ArchivesHaveHome' /\ SucceededIsWhole'
  BY DEF BackupInv, backupVars, AttemptOfBackup, SharedKeysKnown, ArchivesHaveHome,
         SucceededIsWhole, There, Sealed

\* And the other way round.
LEMMA RestoreFrame ==
  ASSUME RestoreInv, UNCHANGED <<restores, rjobs, rest, journal>>,
         hist'.put = hist.put, hist'.late = hist.late
  PROVE  RestoreInv'
  BY DEF RestoreInv, ActiveUnique, RequestHasRow, AttemptOfRestore, CheckpointsLeft,
         FinishedLeavesCheckpoints, FirstRestore, FirstUnderWay, Checkpointed, Content,
         Component, HPM3, Active

(***************************************************************************)
(* The user and the backup job.                                            *)
(***************************************************************************)

\* An archive gets what is on the host, and a component that is there is not
\* Absent.
LEMMA VersionsAreParts ==
  ASSUME live \in [Components -> Versions]
  PROVE  /\ live \in Parts
         /\ NoParts \in Parts
         /\ \A c \in Components : live[c] # Absent
         /\ In(live) = Components
  BY BackupAssumption DEF Parts, NoParts, Versions, Absent, Mixed, In

LEMMA UserStep ==
  ASSUME Inv, User
  PROVE  Inv'
<1>1. PICK c \in Components : WriteData(c) \/ ChangeInventory(c)
  BY DEF User
<1>2. count' \in CountType /\ count'.clock = count.clock /\ count.writes + 1 \in 0..MaxWrites
  <2>1. count \in CountType /\ count.writes < MaxWrites
    BY <1>1, Types DEF Inv, BackupInv, WriteData, ChangeInventory
  <2>2. count' = [count EXCEPT !.writes = count.writes + 1]
    BY <1>1 DEF WriteData, ChangeInventory
  <2> QED
    BY <2>1, <2>2, BackupAssumption DEF CountType
<1>3. live' \in [Components -> Versions] /\ inv' \subseteq Components
  BY <1>1, <1>2, Types, BackupAssumption DEF Inv, BackupInv, WriteData, ChangeInventory, Versions, Mixed
<1>4. UNCHANGED <<backupVars, restoreVars>>
  BY <1>1 DEF WriteData, ChangeInventory
<1>5. TypeOK'
  BY <1>2, <1>3, <1>4, Types, TypesAfter DEF Inv, BackupInv, backupVars, restoreVars
<1>6. AttemptOfBackup' /\ SharedKeysKnown' /\ ArchivesHaveHome' /\ SucceededIsWhole'
  BY <1>2, <1>4, BackupFrame DEF Inv, restoreVars
<1>7. RestoreInv'
  BY <1>4, RestoreFrame DEF Inv, restoreVars
<1> QED
  BY <1>5, <1>6, <1>7 DEF Inv, BackupInv

LEMMA CreateBackupStep ==
  ASSUME Inv, NEW b \in Backups, NEW d \in Destinations, CreateBackup(b, d)
  PROVE  Inv'
<1>1. /\ rows \in [Backups -> BackupRowType]
      /\ bjobs \in [Backups -> JobStates]
  BY Types DEF Inv, BackupInv
<1>2. rows' = [rows EXCEPT ![b] = [rows[b] EXCEPT !.state = "queued", !.destination = d]]
  BY <1>1 DEF CreateBackup
<1>3. /\ rows' \in [Backups -> BackupRowType]
      /\ \A o \in Backups : rows'[o].key = rows[o].key
      /\ \A o \in Backups : o # b => rows'[o] = rows[o]
      /\ rows'[b].state = "queued"
      /\ rows[b].state = "none"
  <2>1. [rows[b] EXCEPT !.state = "queued", !.destination = d] \in BackupRowType
    BY <1>1 DEF BackupRowType
  <2> QED
    BY <2>1, <1>1, <1>2 DEF BackupRowType, CreateBackup
<1>4. bjobs' \in [Backups -> JobStates]
  BY <1>1 DEF CreateBackup, JobStates
<1>5. UNCHANGED <<live, inv, objects, back, restores, rjobs, rest, journal, hist, count>>
  BY DEF CreateBackup, restoreVars
<1>6. TypeOK'
  BY <1>3, <1>4, <1>5, Types, TypesAfter DEF Inv, BackupInv
<1>7. AttemptOfBackup'
  BY <1>3, <1>5 DEF Inv, BackupInv, AttemptOfBackup, Sealed
<1>8. SharedKeysKnown' /\ ArchivesHaveHome' /\ SucceededIsWhole'
  BY <1>3, <1>5 DEF Inv, BackupInv, SharedKeysKnown, ArchivesHaveHome, SucceededIsWhole, There
<1>9. RestoreInv'
  BY <1>5, RestoreFrame DEF Inv
<1> QED
  BY <1>6, <1>7, <1>8, <1>9 DEF Inv, BackupInv

\* The key of an attempt, with the keys of the other rows that it is shared with.
LEMMA StartBackupStep ==
  ASSUME Inv, NEW b \in Backups, StartBackup(b)
  PROVE  Inv'
<1>1. /\ rows \in [Backups -> BackupRowType] /\ bjobs \in [Backups -> JobStates]
      /\ count \in CountType /\ hist \in HistType /\ inv \subseteq Components
      /\ live \in [Components -> Versions]
  BY Types DEF Inv, BackupInv
<1>2. PICK second \in Keys :
         /\ second \in {count.clock, count.clock + 1}
         /\ rows' = [rows EXCEPT ![b] = [rows[b] EXCEPT !.state = "uploading", !.key = second]]
         /\ count' = [count EXCEPT !.clock = second]
         /\ hist' = [hist EXCEPT !.shared = hist.shared \cup Shared(b, second)]
  BY <1>1 DEF StartBackup
<1>3. second >= 2
  BY <1>1, <1>2, BackupAssumption DEF Inv, BackupInv, SharedKeysKnown, CountType, Keys
<1>4. /\ rows' \in [Backups -> BackupRowType]
      /\ \A o \in Backups : o # b => rows'[o] = rows[o]
      /\ rows'[b].state = "uploading" /\ rows'[b].key = second
  <2>1. [rows[b] EXCEPT !.state = "uploading", !.key = second] \in BackupRowType
    BY <1>1 DEF BackupRowType
  <2> QED
    BY <2>1, <1>1, <1>2 DEF BackupRowType
<1>5. /\ hist' \in HistType /\ hist'.put = hist.put /\ hist'.late = hist.late
      /\ hist.shared \subseteq hist'.shared
      /\ \A o \in Backups : o # b /\ rows[o].key = second => second \in hist'.shared
  <2>1. Shared(b, second) \subseteq Keys
    BY DEF Shared
  <2>2. hist.shared \cup Shared(b, second) \in SUBSET Keys
    BY <2>1, <1>1 DEF HistType
  <2>3. hist'.shared = hist.shared \cup Shared(b, second)
    BY <1>1, <1>2 DEF HistType
  <2>4. \A o \in Backups : o # b /\ rows[o].key = second => second \in Shared(b, second)
    BY DEF Shared
  <2> QED
    BY <2>2, <2>3, <2>4, <1>1, <1>2 DEF HistType
<1>6. count' \in CountType /\ count'.clock = second
  BY <1>1, <1>2 DEF CountType
<1>7. /\ back' \in BackType /\ back'.pc = "collect" /\ back'.b = b /\ back'.i = 1
      /\ back.pc = "idle"
  <2>1. back' = [pc |-> "collect", b |-> b, i |-> 1, expected |-> inv, got |-> NoParts]
    BY DEF StartBackup, NoBack
  <2>2. NoParts \in Parts
    BY <1>1, VersionsAreParts
  <2>3. back' \in BackType
    BY <2>1, <2>2, <1>1 DEF BackType
  <2>4. back.pc = "idle"
    BY DEF StartBackup, AtBack
  <2> QED
    BY <2>1, <2>3, <2>4
<1>8. bjobs' \in [Backups -> JobStates]
  BY <1>1 DEF StartBackup, JobStates
<1>9. UNCHANGED <<live, inv, objects, restores, rjobs, rest, journal>>
  BY DEF StartBackup
<1>10. TypeOK'
  BY <1>4, <1>5, <1>6, <1>7, <1>8, <1>9, Types, TypesAfter DEF Inv, BackupInv
<1>11. AttemptOfBackup'
  BY <1>3, <1>4, <1>7 DEF AttemptOfBackup
<1>12. SharedKeysKnown'
  BY <1>3, <1>4, <1>5, <1>6 DEF Inv, BackupInv, SharedKeysKnown
<1>13. ArchivesHaveHome' /\ SucceededIsWhole'
  BY <1>4, <1>5, <1>9 DEF Inv, BackupInv, ArchivesHaveHome, SucceededIsWhole, There
<1>14. RestoreInv'
  BY <1>5, <1>9, RestoreFrame DEF Inv
<1> QED
  BY <1>10, <1>11, <1>12, <1>13, <1>14 DEF Inv, BackupInv

\* A step of the attempt that writes neither a row nor an object.
LEMMA AttemptGoesOn ==
  ASSUME Inv, AttemptOfBackup', back' \in BackType, bjobs' \in [Backups -> JobStates],
         count' \in CountType, count'.clock = count.clock,
         UNCHANGED <<live, inv, rows, objects, restoreVars>>
  PROVE  Inv'
<1>1. TypeOK'
  BY Types, TypesAfter DEF Inv, BackupInv, restoreVars
<1>2. SharedKeysKnown' /\ ArchivesHaveHome' /\ SucceededIsWhole'
  BY DEF Inv, BackupInv, SharedKeysKnown, ArchivesHaveHome, SucceededIsWhole, There, restoreVars
<1>3. RestoreInv'
  BY RestoreFrame DEF Inv, restoreVars
<1> QED
  BY <1>1, <1>2, <1>3 DEF Inv, BackupInv

LEMMA NoBackType == NoBack \in BackType
<1>1. NoParts \in Parts
  BY DEF NoParts, Parts
<1> QED
  BY <1>1 DEF NoBack, BackType

LEMMA CollectPartStep ==
  ASSUME Inv, CollectPart
  PROVE  Inv'
<1>1. /\ live \in [Components -> Versions] /\ inv \subseteq Components
      /\ bjobs \in [Backups -> JobStates] /\ back \in BackType /\ count \in CountType
      /\ back.got \in Parts
  BY Types DEF Inv, BackupInv, BackType
<1>2. /\ back.pc = "collect" /\ back.i \in 1..3 /\ back.b \in Backups
      /\ rows[back.b].key >= 2 /\ rows[back.b].state = "uploading"
      /\ back.i > 1 => "home" \in In(back.got)
  BY <1>1 DEF CollectPart, AtBack, Inv, BackupInv, AttemptOfBackup, BackType
<1> DEFINE c == Order[back.i]
<1>3. c \in Components /\ (back.i = 1 <=> c = "home")
  BY <1>2, OrderLength DEF Components
<1> HIDE DEF c
<1>4. PICK got \in Parts :
         /\ got = (IF c \in inv \cup {"home"} THEN Collected(c) ELSE back.got)
         /\ back.i = 1 \/ "home" \in In(back.got) => "home" \in In(got)
  <2>1. Collected(c) = [back.got EXCEPT ![c] = live[c]]
    BY DEF Collected, DumpHostedDatabase, PackDirectory
  <2>2. \A d \in Components : live[d] \in Versions /\ live[d] # Absent
    BY <1>1, VersionsAreParts
  <2>3. Collected(c) \in Parts
    BY <2>1, <2>2, <1>1, <1>3 DEF Parts
  <2>4. "home" \in In(back.got) \/ c = "home" => "home" \in In(Collected(c))
    BY <2>1, <2>2, <1>1, <1>3 DEF Parts, In, Components
  <2> QED
    BY <2>3, <2>4, <1>1, <1>3
<1>5. PICK pc \in {"match", "collect"} :
         pc = IF back.i = Len(Order) THEN "match" ELSE "collect"
  OBVIOUS
<1>6. back' = [back EXCEPT !.got = got, !.i = back.i + 1, !.pc = pc]
  BY <1>4, <1>5 DEF CollectPart, c
<1>7. /\ back'.pc = pc /\ back'.i = back.i + 1 /\ back'.b = back.b /\ back'.got = got
      /\ back' \in BackType
  <2>1. back.i + 1 \in 1..4
    BY <1>2
  <2> QED
    BY <2>1, <1>1, <1>6 DEF BackType
<1>8. UNCHANGED <<live, inv, rows, objects, bjobs, restoreVars, count>>
  BY DEF CollectPart
<1>9. AttemptOfBackup'
  BY <1>2, <1>4, <1>5, <1>7, <1>8, OrderLength DEF AttemptOfBackup
<1> QED
  BY <1>1, <1>7, <1>8, <1>9, AttemptGoesOn

LEMMA MatchExpectedStep ==
  ASSUME Inv, MatchExpected
  PROVE  Inv'
<1>1. /\ bjobs \in [Backups -> JobStates] /\ back \in BackType /\ count \in CountType
  BY Types DEF Inv, BackupInv
<1>2. UNCHANGED <<live, inv, rows, objects, restoreVars, count>>
  BY DEF MatchExpected
<1>3. CASE ValidInventory /\ back' = [back EXCEPT !.pc = "put"] /\ UNCHANGED bjobs
  <2>1. /\ back' \in BackType /\ back'.pc = "put" /\ back'.b = back.b /\ back'.i = back.i
        /\ back'.got = back.got /\ back'.expected = back.expected
    BY <1>1, <1>3 DEF BackType
  <2>2. back.pc = "match"
    BY DEF MatchExpected, AtBack
  <2>3. AttemptOfBackup'
    BY <2>1, <2>2, <1>2, <1>3 DEF Inv, BackupInv, AttemptOfBackup, ValidInventory
  <2> QED
    BY <2>1, <2>3, <1>1, <1>2, <1>3, AttemptGoesOn
<1>4. CASE back' = NoBack /\ \E s \in Retried : bjobs' = [bjobs EXCEPT ![back.b] = s]
  <2>1. bjobs' \in [Backups -> JobStates]
    BY <1>1, <1>4 DEF Retried, JobStates
  <2>2. AttemptOfBackup'
    BY <1>4 DEF AttemptOfBackup, NoBack
  <2> QED
    BY <2>1, <2>2, <1>1, <1>2, <1>4, NoBackType, AttemptGoesOn
<1> QED
  BY <1>3, <1>4 DEF MatchExpected

LEMMA BackupEndsStep ==
  ASSUME Inv, BackupDone \/ BackupFails
  PROVE  Inv'
<1>1. /\ bjobs \in [Backups -> JobStates] /\ count \in CountType
  BY Types DEF Inv, BackupInv
<1>2. UNCHANGED <<live, inv, rows, objects, restoreVars>> /\ back' = NoBack
  BY DEF BackupDone, BackupFails
<1>3. bjobs' \in [Backups -> JobStates]
  BY <1>1 DEF BackupDone, BackupFails, Retried, JobStates
<1>4. count' \in CountType /\ count'.clock = count.clock
  BY <1>1, BackupAssumption DEF BackupDone, BackupFails, CountType
<1>5. AttemptOfBackup'
  BY <1>2 DEF AttemptOfBackup, NoBack
<1> QED
  BY <1>2, <1>3, <1>4, <1>5, NoBackType, AttemptGoesOn

\* The object of the attempt is removed or written: no other backup with a key
\* of its own has it.
LEMMA ObjectStep ==
  ASSUME Inv, PutLocal \/ PutS3 \/ RenameSFTP \/ RemoveSFTP
  PROVE  Inv'
<1>1. /\ objects \in [Keys -> Object] /\ back \in BackType /\ back.got \in Parts
      /\ rows \in [Backups -> BackupRowType]
  BY Types DEF Inv, BackupInv, BackType
<1>2. /\ back.pc \in {"put", "rename"} /\ back.b \in Backups
      /\ rows[back.b].key >= 2 /\ rows[back.b].state = "uploading"
      /\ "home" \in In(back.got) /\ In(back.got) = back.expected
  BY DEF PutLocal, PutS3, RenameSFTP, RemoveSFTP, Uploading, AtBack, Inv, BackupInv, AttemptOfBackup
<1> DEFINE key == rows[back.b].key
<1>3. key \in Keys
  BY <1>1, <1>2 DEF BackupRowType
<1>4. PICK object \in {Sealed, NoObject}, pc \in {"reconcile", "rename"} :
         /\ objects' = [objects EXCEPT ![key] = object]
         /\ back' = [back EXCEPT !.pc = pc]
         /\ pc = "reconcile" => object = Sealed
  BY DEF PutLocal, PutS3, RenameSFTP, RemoveSFTP, Upload
<1>5. UNCHANGED <<live, inv, rows, bjobs, restoreVars, count>>
  BY DEF PutLocal, PutS3, RenameSFTP, RemoveSFTP, Upload
<1>6. Sealed \in Object /\ NoObject \in Object
  <2>1. NoParts \in Parts
    BY DEF NoParts, Parts
  <2> QED
    BY <2>1, <1>1, <1>2 DEF Sealed, NoObject, Object
<1>7. objects' \in [Keys -> Object] /\ objects'[key] = object
      /\ \A k \in Keys : k # key => objects'[k] = objects[k]
  BY <1>1, <1>3, <1>4, <1>6
<1>8. /\ back' \in BackType /\ back'.pc = pc /\ back'.b = back.b /\ back'.i = back.i
      /\ back'.got = back.got /\ back'.expected = back.expected
  BY <1>1, <1>4 DEF BackType
<1>9. TypeOK'
  BY <1>5, <1>7, <1>8, Types, TypesAfter DEF Inv, BackupInv, restoreVars
<1>10. AttemptOfBackup'
  BY <1>2, <1>4, <1>5, <1>7, <1>8 DEF AttemptOfBackup, Sealed
<1>11. SharedKeysKnown'
  BY <1>5 DEF Inv, BackupInv, SharedKeysKnown, restoreVars
<1>12. ArchivesHaveHome'
  BY <1>2, <1>4, <1>7 DEF Inv, BackupInv, ArchivesHaveHome, There, Sealed
<1>13. SucceededIsWhole'
  <2> SUFFICES ASSUME NEW b \in Backups \ Legacy, rows[b].state = "succeeded",
                      rows[b].key \notin hist.shared
               PROVE  objects'[rows[b].key] = objects[rows[b].key]
    BY <1>5 DEF Inv, BackupInv, SucceededIsWhole, restoreVars
  <2>1. b # back.b /\ rows[b].key \in Keys
    BY <1>1, <1>2 DEF BackupRowType
  <2>2. rows[b].key # key
    BY <2>1, <1>2 DEF Inv, BackupInv, SharedKeysKnown
  <2> QED
    BY <2>1, <2>2, <1>7
<1>14. RestoreInv'
  BY <1>5, RestoreFrame DEF Inv, restoreVars
<1> QED
  BY <1>9, <1>10, <1>11, <1>12, <1>13, <1>14 DEF Inv, BackupInv

LEMMA ReconcileUploadedStep ==
  ASSUME Inv, ReconcileUploaded
  PROVE  Inv'
<1>1. /\ back \in BackType /\ rows \in [Backups -> BackupRowType]
  BY Types DEF Inv, BackupInv
<1>2. /\ back.pc = "reconcile" /\ back.b \in Backups /\ rows[back.b].key >= 2
      /\ "home" \in In(back.got) /\ objects[rows[back.b].key] = Sealed
  BY DEF ReconcileUploaded, AtBack, Inv, BackupInv, AttemptOfBackup
<1>3. /\ rows' \in [Backups -> BackupRowType]
      /\ \A b \in Backups : rows'[b].key = rows[b].key
      /\ \A b \in Backups : b # back.b => rows'[b] = rows[b]
  <2>1. rows' = [rows EXCEPT ![back.b] = [rows[back.b] EXCEPT !.state = "succeeded"]]
    BY <1>1 DEF ReconcileUploaded
  <2>2. [rows[back.b] EXCEPT !.state = "succeeded"] \in BackupRowType
    BY <1>1, <1>2 DEF BackupRowType
  <2> QED
    BY <2>1, <2>2, <1>1, <1>2 DEF BackupRowType
<1>4. /\ back' \in BackType /\ back'.pc = "done" /\ back'.b = back.b /\ back'.i = back.i
      /\ back'.got = back.got
  BY <1>1 DEF ReconcileUploaded, BackType
<1>5. UNCHANGED <<live, inv, objects, bjobs, restoreVars, count>>
  BY DEF ReconcileUploaded
<1>6. TypeOK'
  BY <1>3, <1>4, <1>5, Types, TypesAfter DEF Inv, BackupInv, restoreVars
<1>7. AttemptOfBackup'
  BY <1>2, <1>3, <1>4 DEF AttemptOfBackup
<1>8. SharedKeysKnown'
  BY <1>3, <1>5 DEF Inv, BackupInv, SharedKeysKnown, restoreVars
<1>9. ArchivesHaveHome'
  BY <1>5 DEF Inv, BackupInv, ArchivesHaveHome, There
<1>10. SucceededIsWhole'
  BY <1>2, <1>3, <1>5 DEF Inv, BackupInv, SucceededIsWhole, Sealed, restoreVars
<1>11. RestoreInv'
  BY <1>5, RestoreFrame DEF Inv, restoreVars
<1> QED
  BY <1>6, <1>7, <1>8, <1>9, <1>10, <1>11 DEF Inv, BackupInv

(***************************************************************************)
(* The rows of restores.                                                   *)
(***************************************************************************)

\* insertRestore.
LEMMA RowAdded ==
  ASSUME restores \in Seq(RowType), NEW row \in RowType, restores' = Append(restores, row)
  PROVE  /\ restores' \in Seq(RowType)
         /\ Len(restores') = Len(restores) + 1
         /\ Len(restores) + 1 \notin DOMAIN restores
         /\ DOMAIN restores' = DOMAIN restores \cup {Len(restores) + 1}
         /\ \A r \in DOMAIN restores : restores'[r] = restores[r]
         /\ restores'[Len(restores) + 1] = row
         /\ restores' # <<>>
         /\ restores # <<>> => 1 \in DOMAIN restores
         /\ restores = <<>> => Len(restores) = 0
  OBVIOUS

\* The rows keep their backups, and the finished ones stay the finished ones.
SameRows ==
    /\ Len(restores') = Len(restores)
    /\ DOMAIN restores' = DOMAIN restores
    /\ \A r \in DOMAIN restores :
          /\ restores'[r].b = restores[r].b
          /\ restores'[r].state = "complete" <=> restores[r].state = "complete"

\* CheckpointRestore, FailRestore and FinishRestore change the state of a row.
LEMMA RowChanged ==
  ASSUME restores \in Seq(RowType), rest.row \in DOMAIN restores,
         NEW s \in {"maintenance", "manual_intervention", "complete"}, RowState(s)
  PROVE  /\ restores' \in Seq(RowType)
         /\ Len(restores') = Len(restores)
         /\ DOMAIN restores' = DOMAIN restores
         /\ \A r \in DOMAIN restores : restores'[r].b = restores[r].b
         /\ \A r \in DOMAIN restores : r # rest.row => restores'[r] = restores[r]
         /\ restores'[rest.row].state = s
<1>1. restores[rest.row] \in RowType
  OBVIOUS
<1>2. restores' = [restores EXCEPT ![rest.row] = [restores[rest.row] EXCEPT !.state = s]]
  BY DEF RowState
<1> DEFINE row == [restores[rest.row] EXCEPT !.state = s]
<1>3. row \in RowType /\ row.b = restores[rest.row].b /\ row.state = s
  BY <1>1 DEF RowType
<1> HIDE DEF row
<1>4. restores' = [restores EXCEPT ![rest.row] = row]
  BY <1>2 DEF row
<1>5. Len(restores) \in Nat /\ restores \in [1..Len(restores) -> RowType]
      /\ DOMAIN restores = 1..Len(restores)
  OBVIOUS
<1>6. restores' \in [1..Len(restores) -> RowType]
  BY <1>3, <1>4, <1>5
<1>7. restores' \in Seq(RowType) /\ Len(restores') = Len(restores)
  BY <1>5, <1>6
<1> QED
  BY <1>3, <1>4, <1>5, <1>7

\* An active row that stays active.
LEMMA RowStaysActive ==
  ASSUME restores \in Seq(RowType), rest.row \in DOMAIN restores, Active(rest.row),
         NEW s \in {"maintenance", "manual_intervention"}, RowState(s)
  PROVE  restores' \in Seq(RowType) /\ SameRows
<1>1. s # "complete" /\ s \in {"maintenance", "manual_intervention", "complete"}
  OBVIOUS
<1> QED
  BY <1>1, RowChanged DEF SameRows, Active

(***************************************************************************)
(* What the steps of an attempt of a restore have in common.               *)
(***************************************************************************)

\* The steps of the worker that keep to the restore's own variables.
LEMMA RestoreKeepsBackups ==
  ASSUME Inv, UNCHANGED backupVars, count' \in CountType, count'.clock = count.clock,
         hist' \in HistType, hist'.shared = hist.shared,
         live' \in [Components -> Versions], inv' \subseteq Components,
         restores' \in Seq(RowType), rjobs' \in [Requests -> RequestType], rest' \in RestType,
         journal' \in JournalType, RestoreInv'
  PROVE  Inv'
<1>1. TypeOK'
  BY Types, TypesAfter DEF Inv, BackupInv, backupVars
<1> QED
  BY <1>1, BackupFrame DEF Inv, BackupInv

\* The attempt is over, with or without an error: the job waits or is done.
LEMMA AttemptEnds ==
  ASSUME Inv, rest.pc # "idle", rest' = NoRest,
         NEW s \in Retried, rjobs' = [rjobs EXCEPT ![rest.q].pc = s],
         SameRows, journal'.there = journal.there, journal.steps \subseteq journal'.steps,
         ~journal.there => journal'.steps = {},
         restores = <<>> => restores' = <<>>, restores # <<>> => restores' # <<>>,
         FirstUnderWay' => Checkpointed' = {}
  PROVE  RestoreInv' /\ rjobs' \in [Requests -> RequestType] /\ rest' \in RestType
<1>1. rjobs \in [Requests -> RequestType] /\ rest.q \in Requests /\ rjobs[rest.q].pc = "running"
  BY Types DEF Inv, BackupInv, RestoreInv, AttemptOfRestore
<1>2. /\ rjobs' \in [Requests -> RequestType]
      /\ \A q \in Requests : rjobs'[q].b = rjobs[q].b /\ rjobs'[q].row = rjobs[q].row
      /\ \A q \in Requests : q # rest.q => rjobs'[q] = rjobs[q]
      /\ rjobs'[rest.q].pc = s
  <2>1. PICK x \in RequestType : /\ x = [rjobs[rest.q] EXCEPT !.pc = s] /\ x.pc = s
                                 /\ x.b = rjobs[rest.q].b /\ x.row = rjobs[rest.q].row
    BY <1>1 DEF RequestType, Retried, JobStates
  <2>2. rjobs' = [rjobs EXCEPT ![rest.q] = x]
    BY <2>1
  <2> QED
    BY <2>1, <2>2, <1>1
<1>3. rest' \in RestType /\ rest'.pc = "idle" /\ rest'.i = 1
  <2>1. NoParts \in Parts
    BY DEF NoParts, Parts
  <2> QED
    BY <2>1, BackupAssumption DEF NoRest, RestType, Keys
<1>4. ActiveUnique'
  BY DEF Inv, RestoreInv, ActiveUnique, SameRows, Active
<1>5. RequestHasRow'
  <2> SUFFICES ASSUME NEW q \in Requests
               PROVE  RequestHasRow!(q)'
    BY DEF RequestHasRow
  <2>1. s \notin {"checked"}
    BY DEF Retried
  <2> QED
    BY <2>1, <1>1, <1>2 DEF Inv, RestoreInv, RequestHasRow, SameRows, Retried
<1>6. AttemptOfRestore' /\ CheckpointsLeft'
  BY <1>3 DEF AttemptOfRestore, CheckpointsLeft, OnRow, Putting, Closing
<1>7. FinishedLeavesCheckpoints'
  BY <1>3 DEF Inv, RestoreInv, FinishedLeavesCheckpoints, SameRows, Putting
<1>8. FirstRestore'
  BY <1>3 DEF Inv, RestoreInv, FirstRestore, Putting, Closing
<1> QED
  BY <1>2, <1>3, <1>4, <1>5, <1>6, <1>7, <1>8 DEF RestoreInv

\* The attempt goes on with the row it has.
LEMMA AttemptMoves ==
  ASSUME Inv, rest.pc \in OnRow, rest'.pc \in OnRow,
         rest'.q = rest.q, rest'.b = rest.b, rest'.row = rest.row, rest'.parts = rest.parts,
         UNCHANGED rjobs, SameRows, restores # <<>> => restores' # <<>>,
         journal.steps \subseteq journal'.steps, journal'.there,
         CheckpointsLeft', FirstRestore',
         rest'.pc \in Putting /\ HPM3 =>
            rest.pc \in Putting \/ restores[rjobs[rest.q].row].state # "complete"
  PROVE  RestoreInv'
<1>1. ActiveUnique'
  BY DEF Inv, RestoreInv, ActiveUnique, SameRows, Active
<1>2. RequestHasRow'
  BY DEF Inv, RestoreInv, RequestHasRow, SameRows
<1>3. rest.pc # "idle" /\ rest'.pc # "idle"
  BY DEF OnRow
<1>4. AttemptOfRestore'
  BY <1>3 DEF Inv, RestoreInv, AttemptOfRestore, SameRows, Active
<1>5. FinishedLeavesCheckpoints'
  <2>1. /\ rest.q \in Requests /\ rjobs[rest.q].pc = "running"
        /\ rjobs[rest.q].row \in DOMAIN restores
    BY <1>3 DEF Inv, RestoreInv, AttemptOfRestore, RequestHasRow
  <2> QED
    BY <2>1 DEF Inv, RestoreInv, FinishedLeavesCheckpoints, SameRows, HPM3
<1> QED
  BY <1>1, <1>2, <1>4, <1>5 DEF RestoreInv

(***************************************************************************)
(* The API's part of a restore.                                            *)
(***************************************************************************)

LEMMA RestoreBackupStep ==
  ASSUME Inv, NEW q \in Requests, NEW b \in Backups, RestoreBackup(q, b)
  PROVE  Inv'
<1>1. /\ rjobs \in [Requests -> RequestType] /\ rows[b].key \in Keys
      /\ count \in CountType /\ hist \in HistType
  BY Types DEF Inv, BackupInv, BackupRowType
<1>2. PICK pc \in {"checked", "refused"} :
         rjobs' = [rjobs EXCEPT ![q].pc = pc, ![q].b = b, ![q].key = rows[b].key]
  BY DEF RestoreBackup
<1>3. rjobs' = [rjobs EXCEPT ![q] = [rjobs[q] EXCEPT !.pc = pc, !.b = b, !.key = rows[b].key]]
  BY <1>1, <1>2
<1>4. /\ rjobs' \in [Requests -> RequestType]
      /\ \A p \in Requests : p # q => rjobs'[p] = rjobs[p]
      /\ rjobs'[q].pc = pc /\ rjobs'[q].b = b
  <2> DEFINE x == [rjobs[q] EXCEPT !.pc = pc, !.b = b, !.key = rows[b].key]
  <2>1. x \in RequestType
    BY <1>1 DEF RequestType
  <2>2. x.pc = pc /\ x.b = b
    BY <1>1 DEF RequestType
  <2> HIDE DEF x
  <2>3. rjobs' = [rjobs EXCEPT ![q] = x]
    BY <1>3 DEF x
  <2> QED
    BY <2>1, <2>2, <2>3, <1>1
<1>5. UNCHANGED <<live, inv, backupVars, restores, rest, journal, count, hist>>
  BY DEF RestoreBackup
<1>6. rest.pc # "idle" => rest.q \in Requests /\ rest.q # q
  BY DEF RestoreBackup, Inv, RestoreInv, AttemptOfRestore
<1>7. ActiveUnique' /\ FirstRestore' /\ CheckpointsLeft'
  BY <1>5 DEF Inv, RestoreInv, ActiveUnique, FirstRestore, CheckpointsLeft, Active, FirstUnderWay,
              Checkpointed, Content, Component, HPM3
<1>8. RequestHasRow'
  BY <1>4, <1>5 DEF Inv, RestoreInv, RequestHasRow
<1>9. AttemptOfRestore' /\ FinishedLeavesCheckpoints'
  BY <1>4, <1>5, <1>6 DEF Inv, RestoreInv, AttemptOfRestore, FinishedLeavesCheckpoints, Active,
                          HPM3, OnRow, Putting
<1>10. RestoreInv'
  BY <1>7, <1>8, <1>9 DEF RestoreInv
<1> QED
  BY <1>4, <1>5, <1>10, Types, RestoreKeepsBackups DEF Inv, BackupInv

\* The index admits the row: no restore is under way, so no attempt has a row
\* and, if it is the first row, the journal is new as well.
LEMMA RowInserted ==
  ASSUME Inv, ActiveRestores = {}, Len(restores) < MaxRestores, NEW row \in RowType,
         row.state = "restore_requested", restores' = Append(restores, row),
         UNCHANGED <<journal, hist>>
  PROVE  /\ ActiveUnique'
         /\ \A r \in DOMAIN restores' :
               restores'[r].state = "complete" /\ restores'[r].b \notin Legacy
               => {"staged", "home"} \subseteq journal'.steps
         /\ rest.pc \notin OnRow
         /\ FirstUnderWay' => Checkpointed' = {}
<1>1. restores \in Seq(RowType)
  BY Types DEF Inv, BackupInv
<1>2. /\ Len(restores') = Len(restores) + 1
      /\ DOMAIN restores' = DOMAIN restores \cup {Len(restores) + 1}
      /\ \A r \in DOMAIN restores : restores'[r] = restores[r]
      /\ restores'[Len(restores) + 1] = row
      /\ restores # <<>> => 1 \in DOMAIN restores
  BY <1>1, RowAdded
<1>3. \A r \in DOMAIN restores : restores[r].state = "complete"
  BY DEF ActiveRestores, Active
<1>4. ActiveUnique'
  BY <1>1, <1>2, <1>3, BackupAssumption DEF ActiveUnique, Active
<1>5. rest.pc \notin OnRow
  BY <1>3 DEF Inv, RestoreInv, AttemptOfRestore, Active
<1>6. FirstUnderWay' => Checkpointed' = {}
  BY <1>2, <1>3 DEF Inv, RestoreInv, FirstRestore, FirstUnderWay, Checkpointed, Active
<1>7. \A r \in DOMAIN restores' :
         restores'[r].state = "complete" /\ restores'[r].b \notin Legacy
         => {"staged", "home"} \subseteq journal'.steps
  BY <1>2 DEF Inv, RestoreInv, FinishedLeavesCheckpoints
<1> QED
  BY <1>4, <1>5, <1>6, <1>7

LEMMA CreateRestoreStep ==
  ASSUME Inv, NEW q \in Requests, CreateRestoreWithJob(q)
  PROVE  Inv'
<1>1. /\ rjobs \in [Requests -> RequestType] /\ restores \in Seq(RowType)
      /\ rjobs[q].pc = "checked" /\ rjobs[q].b \in Backups /\ rjobs[q].key \in Keys
      /\ Len(restores) < MaxRestores /\ Len(restores) \in Nat
  BY Types DEF Inv, BackupInv, RestoreInv, RequestHasRow, CreateRestoreWithJob, RequestType
<1>2. UNCHANGED <<live, inv, backupVars, rest, journal, count, hist>>
  BY DEF CreateRestoreWithJob
<1>3. rest.pc # "idle" => rest.q \in Requests /\ rest.q # q
  BY <1>1 DEF Inv, RestoreInv, AttemptOfRestore
<1> DEFINE row == [b |-> rjobs[q].b, key |-> rjobs[q].key, hash |-> FALSE,
                   state |-> "restore_requested"]
<1>4. row \in RowType /\ row.state = "restore_requested" /\ row.b = rjobs[q].b
  BY <1>1 DEF RowType
<1> HIDE DEF row
<1>5. CASE /\ ActiveRestores = {} /\ restores' = Append(restores, row)
           /\ rjobs' = [rjobs EXCEPT ![q].pc = "waiting", ![q].row = Len(restores) + 1]
  <2>1. /\ restores' \in Seq(RowType)
        /\ DOMAIN restores' = DOMAIN restores \cup {Len(restores) + 1}
        /\ \A r \in DOMAIN restores : restores'[r] = restores[r]
        /\ restores'[Len(restores) + 1] = row
        /\ restores' # <<>>
    BY <1>1, <1>4, <1>5, RowAdded
  <2>2. /\ rjobs' \in [Requests -> RequestType]
        /\ \A p \in Requests : p # q => rjobs'[p] = rjobs[p]
        /\ rjobs'[q].pc = "waiting" /\ rjobs'[q].b = rjobs[q].b
        /\ rjobs'[q].row = Len(restores) + 1
    <3>1. PICK n \in Nat : n = Len(restores) + 1
      BY <1>1
    <3> DEFINE x == [rjobs[q] EXCEPT !.pc = "waiting", !.row = n]
    <3>2. x \in RequestType
      BY <1>1 DEF RequestType, JobStates
    <3>3. x.pc = "waiting" /\ x.b = rjobs[q].b /\ x.row = n
      BY <1>1 DEF RequestType
    <3>4. rjobs' = [rjobs EXCEPT ![q] = x]
      BY <3>1, <1>1, <1>5
    <3> HIDE DEF x
    <3> QED
      BY <3>1, <3>2, <3>3, <3>4, <1>1
  <2>3. /\ ActiveUnique'
        /\ \A r \in DOMAIN restores' :
              restores'[r].state = "complete" /\ restores'[r].b \notin Legacy
              => {"staged", "home"} \subseteq journal'.steps
        /\ rest.pc \notin OnRow
        /\ FirstUnderWay' => Checkpointed' = {}
    BY <1>1, <1>2, <1>4, <1>5, RowInserted
  <2>4. RequestHasRow'
    BY <2>1, <2>2, <1>1, <1>4 DEF Inv, RestoreInv, RequestHasRow
  <2>5. AttemptOfRestore'
    BY <2>2, <2>3, <1>2, <1>3 DEF Inv, RestoreInv, AttemptOfRestore
  <2>6. CheckpointsLeft' /\ FinishedLeavesCheckpoints'
    BY <2>3, <1>2 DEF Inv, RestoreInv, CheckpointsLeft, FinishedLeavesCheckpoints, OnRow,
                      Putting, Closing
  <2>7. FirstRestore'
    BY <2>1, <2>3, <1>2 DEF Inv, RestoreInv, FirstRestore, OnRow, Putting, Closing
  <2>8. RestoreInv'
    BY <2>3, <2>4, <2>5, <2>6, <2>7 DEF RestoreInv
  <2> QED
    BY <2>1, <2>2, <2>8, <1>2, Types, RestoreKeepsBackups DEF Inv, BackupInv
<1>6. CASE rjobs' = [rjobs EXCEPT ![q].pc = "refused"] /\ UNCHANGED restores
  <2>1. /\ rjobs' \in [Requests -> RequestType]
        /\ \A p \in Requests : p # q => rjobs'[p] = rjobs[p]
        /\ rjobs'[q].pc = "refused"
    <3> DEFINE x == [rjobs[q] EXCEPT !.pc = "refused"]
    <3>1. x \in RequestType /\ x.pc = "refused"
      BY <1>1 DEF RequestType
    <3>2. rjobs' = [rjobs EXCEPT ![q] = x]
      BY <1>1, <1>6
    <3> HIDE DEF x
    <3> QED
      BY <3>1, <3>2, <1>1
  <2>2. ActiveUnique' /\ FirstRestore' /\ CheckpointsLeft'
    BY <1>2, <1>6 DEF Inv, RestoreInv, ActiveUnique, FirstRestore, CheckpointsLeft, Active,
                      FirstUnderWay, Checkpointed, Content, Component, HPM3
  <2>3. RequestHasRow'
    BY <2>1, <1>6 DEF Inv, RestoreInv, RequestHasRow
  <2>4. AttemptOfRestore' /\ FinishedLeavesCheckpoints'
    BY <2>1, <1>2, <1>3, <1>6 DEF Inv, RestoreInv, AttemptOfRestore, FinishedLeavesCheckpoints,
                                  Active, HPM3, OnRow, Putting
  <2>5. RestoreInv'
    BY <2>2, <2>3, <2>4 DEF RestoreInv
  <2> QED
    BY <2>1, <2>5, <1>2, <1>6, Types, RestoreKeepsBackups DEF Inv, BackupInv
<1> QED
  BY <1>5, <1>6 DEF CreateRestoreWithJob, InsertRestore, row

(***************************************************************************)
(* The worker's part of a restore.                                         *)
(***************************************************************************)

RestSteps == {"idle", "lookup", "insert", "journal", "maintenance", "stage", "each",
              "commit", "verify", "complete", "finish", "done"}

LEMMA GotoFacts ==
  ASSUME rest \in RestType, NEW pc \in RestSteps, GotoRest(pc)
  PROVE  /\ rest' \in RestType /\ rest'.pc = pc
         /\ rest'.q = rest.q /\ rest'.b = rest.b /\ rest'.key = rest.key
         /\ rest'.row = rest.row /\ rest'.i = rest.i /\ rest'.parts = rest.parts
  BY DEF GotoRest, RestType, RestSteps

LEMMA AfterComponentFacts ==
  ASSUME rest \in RestType, rest.i <= 3, AfterComponent
  PROVE  /\ rest' \in RestType
         /\ rest'.pc = IF rest.i = 3 THEN "verify" ELSE "each"
         /\ rest'.i = rest.i + 1
         /\ rest'.q = rest.q /\ rest'.b = rest.b /\ rest'.key = rest.key
         /\ rest'.row = rest.row /\ rest'.parts = rest.parts
<1>1. rest.i \in 1..3 /\ rest.i + 1 \in 1..4
  BY DEF RestType
<1>2. PICK pc \in {"verify", "each"} : pc = IF rest.i = 3 THEN "verify" ELSE "each"
  OBVIOUS
<1>3. rest' = [rest EXCEPT !.i = rest.i + 1, !.pc = pc]
  BY <1>2, OrderLength DEF AfterComponent
<1>4. [rest EXCEPT !.i = rest.i + 1, !.pc = pc] \in RestType
  BY <1>1 DEF RestType
<1> QED
  BY <1>2, <1>3, <1>4 DEF RestType

LEMMA CheckpointFacts ==
  ASSUME journal \in JournalType, NEW step \in Steps, CheckpointStep(step)
  PROVE  /\ journal' \in JournalType /\ journal'.there = journal.there
         /\ journal'.steps = journal.steps \cup {step}
<1>1. journal.steps \cup {step} \in SUBSET Steps
  BY DEF JournalType
<1>2. journal' = [journal EXCEPT !.steps = journal.steps \cup {step}]
  BY DEF CheckpointStep
<1> QED
  BY <1>1, <1>2 DEF JournalType

\* The request's record when the state of its job changes.
LEMMA JobFacts ==
  ASSUME rjobs \in [Requests -> RequestType], NEW q \in Requests, NEW s \in JobStates,
         rjobs' = [rjobs EXCEPT ![q].pc = s]
  PROVE  /\ rjobs' \in [Requests -> RequestType]
         /\ \A p \in Requests : p # q => rjobs'[p] = rjobs[p]
         /\ rjobs'[q].pc = s /\ rjobs'[q].b = rjobs[q].b /\ rjobs'[q].row = rjobs[q].row
<1> DEFINE x == [rjobs[q] EXCEPT !.pc = s]
<1>1. x \in RequestType /\ x.pc = s /\ x.b = rjobs[q].b /\ x.row = rjobs[q].row
  BY DEF RequestType
<1>2. rjobs' = [rjobs EXCEPT ![q] = x]
  OBVIOUS
<1> HIDE DEF x
<1> QED
  BY <1>1, <1>2

LEMMA OpenAnyStep ==
  ASSUME Inv, NEW q \in Requests, OpenAny(q)
  PROVE  Inv'
<1>1. /\ rjobs \in [Requests -> RequestType] /\ rows \in [Backups -> BackupRowType]
      /\ objects \in [Keys -> Object] /\ rest.pc = "idle" /\ rjobs[q].pc = "waiting"
      /\ rjobs[q].b \in Backups
  BY Types DEF Inv, BackupInv, RestoreInv, RequestHasRow, OpenAny, AtRest
<1>2. UNCHANGED <<live, inv, backupVars, restores, journal, count, hist>>
  BY DEF OpenAny
<1>3. PICK key \in Keys : key = rows[rjobs[q].b].key
  BY <1>1 DEF BackupRowType
<1>4. /\ rest.pc \notin OnRow
      /\ rest.pc \notin Putting /\ rest.pc \notin Closing
  BY <1>1 DEF OnRow, Putting, Closing
<1>5. ASSUME NEW s \in JobStates, rjobs' = [rjobs EXCEPT ![q].pc = s],
             s \in {"waiting", "running", "done"}, rest' \in RestType,
             \/ UNCHANGED rest
             \/ /\ rest'.pc = "lookup" /\ rest'.q = q /\ s = "running" /\ rest'.b = rjobs[q].b
                /\ "home" \in In(rest'.parts) /\ rest'.i = 1
      PROVE  Inv'
  <2>1. /\ rjobs' \in [Requests -> RequestType]
        /\ \A p \in Requests : p # q => rjobs'[p] = rjobs[p]
        /\ rjobs'[q].pc = s /\ rjobs'[q].b = rjobs[q].b /\ rjobs'[q].row = rjobs[q].row
    BY <1>1, <1>5, JobFacts
  <2>2. rest'.pc \notin OnRow /\ rest'.pc \notin Putting /\ rest'.pc \notin Closing
    BY <1>4, <1>5 DEF OnRow, Putting, Closing
  <2>3. ActiveUnique' /\ CheckpointsLeft' /\ FinishedLeavesCheckpoints' /\ FirstRestore'
    BY <2>2, <1>1, <1>2, <1>4, <1>5 DEF Inv, RestoreInv, ActiveUnique, CheckpointsLeft,
         FinishedLeavesCheckpoints, FirstRestore, FirstUnderWay, Checkpointed, Active
  <2>4. RequestHasRow'
    BY <2>1, <1>1, <1>2, <1>5 DEF Inv, RestoreInv, RequestHasRow
  <2>5. AttemptOfRestore'
    BY <2>1, <2>2, <1>1, <1>5 DEF AttemptOfRestore
  <2>6. RestoreInv'
    BY <2>3, <2>4, <2>5 DEF RestoreInv
  <2> QED
    BY <2>1, <2>6, <1>2, <1>5, Types, RestoreKeepsBackups DEF Inv, BackupInv
<1>6. CASE There(key)
  <2> DEFINE opened == [NoRest EXCEPT !.pc = "lookup", !.q = q, !.b = rjobs[q].b,
                                      !.key = key, !.parts = objects[key].parts]
  <2>1. rest' = opened /\ rjobs' = [rjobs EXCEPT ![q].pc = "running"]
    BY <1>3, <1>6 DEF OpenAny, OpenArchive
  <2>2. "home" \in In(objects[key].parts) /\ objects[key].parts \in Parts
    BY <1>1, <1>6 DEF Inv, BackupInv, ArchivesHaveHome, Object
  <2>3. NoRest \in RestType
    BY BackupAssumption DEF NoRest, RestType, NoParts, Parts, Keys
  <2>4. rest' \in RestType
    BY <2>1, <2>2, <2>3, <1>1 DEF RestType
  <2>5. /\ rest'.pc = "lookup" /\ rest'.q = q /\ rest'.b = rjobs[q].b /\ "home" \in In(rest'.parts)
        /\ rest'.i = 1
    <3>1. /\ rest'.parts = objects[key].parts /\ rest'.i = NoRest.i
          /\ rest'.pc = "lookup" /\ rest'.q = q /\ rest'.b = rjobs[q].b
      BY <2>1, <2>3 DEF RestType
    <3>2. NoRest.i = 1
      BY DEF NoRest
    <3> QED
      BY <3>1, <3>2, <2>2
  <2> HIDE DEF opened
  <2>6. "running" \in JobStates
    BY DEF JobStates
  <2> QED
    BY <2>1, <2>4, <2>5, <2>6, <1>5
<1>7. CASE ~There(key)
  <2>1. PICK s \in Retried : rjobs' = [rjobs EXCEPT ![q].pc = s]
    BY <1>3, <1>7 DEF OpenAny
  <2>2. UNCHANGED rest
    BY <1>3, <1>7 DEF OpenAny
  <2>3. s \in JobStates /\ s \in {"waiting", "running", "done"}
    BY DEF Retried, JobStates
  <2>4. rest' \in RestType
    BY <2>2, Types DEF Inv, BackupInv
  <2> QED
    BY <2>1, <2>2, <2>3, <2>4, <1>5
<1> QED
  BY <1>6, <1>7

\* The attempt ends with an error before it has touched the host.
LEMMA RefuseStep ==
  ASSUME Inv, Refuse, rest.pc \in {"lookup", "insert", "journal"},
         UNCHANGED <<live, inv, backupVars, restores, journal, count, hist>>
  PROVE  Inv'
<1>1. PICK s \in Retried : rjobs' = [rjobs EXCEPT ![rest.q].pc = s]
  BY DEF Refuse, Job
<1>2. rest' = NoRest /\ rest.pc # "idle" /\ rest.pc \notin Putting \cup Closing
  BY DEF Refuse, Putting, Closing
<1>3. SameRows
  BY DEF SameRows
<1>4. FirstUnderWay' => Checkpointed' = {}
  BY <1>2 DEF Inv, RestoreInv, FirstRestore, FirstUnderWay, Checkpointed, Active
<1>5. ~journal.there => journal'.steps = {}
  BY DEF Inv, RestoreInv, FirstRestore
<1>6. RestoreInv' /\ rjobs' \in [Requests -> RequestType] /\ rest' \in RestType
  BY <1>1, <1>2, <1>3, <1>4, <1>5, AttemptEnds
<1> QED
  BY <1>6, Types, RestoreKeepsBackups DEF Inv, BackupInv

LEMMA BeginRestoreStep ==
  ASSUME Inv, BeginRestore
  PROVE  Inv'
<1>1. /\ rest.pc = "lookup" /\ rest \in RestType /\ restores \in Seq(RowType)
  BY Types DEF BeginRestore, AtRest, Inv, BackupInv
<1>2. UNCHANGED <<live, inv, backupVars, restores, journal, count, hist>>
  BY DEF BeginRestore
<1>3. ASSUME UNCHANGED rjobs, rest' \in RestType, rest'.q = rest.q, rest'.b = rest.b,
             rest'.parts = rest.parts, rest'.i = rest.i,
             \/ rest'.pc = "insert"
             \/ /\ rest'.pc = "journal" /\ rest'.row \in DOMAIN restores
                /\ Active(rest'.row) /\ restores[rest'.row].b = rest.b
      PROVE  Inv'
  <2>1. /\ rest'.pc \notin OnRow \ {"journal"} /\ rest'.pc \notin Putting /\ rest'.pc \notin Closing
        /\ rest.pc \notin Putting /\ rest.pc \notin Closing
        /\ rest'.pc \in OnRow => rest'.pc = "journal"
    BY <1>1, <1>3 DEF OnRow, Putting, Closing
  <2>2. ActiveUnique' /\ RequestHasRow' /\ CheckpointsLeft' /\ FinishedLeavesCheckpoints' /\ FirstRestore'
    BY <2>1, <1>1, <1>2, <1>3 DEF Inv, RestoreInv, ActiveUnique, RequestHasRow, CheckpointsLeft,
         FinishedLeavesCheckpoints, FirstRestore, FirstUnderWay, Checkpointed, Active
  <2>3. AttemptOfRestore'
    BY <2>1, <1>1, <1>2, <1>3 DEF Inv, RestoreInv, AttemptOfRestore, Active
  <2>4. RestoreInv'
    BY <2>2, <2>3 DEF RestoreInv
  <2> QED
    BY <2>4, <1>2, <1>3, Types, RestoreKeepsBackups DEF Inv, BackupInv
<1>4. CASE GotoRest("insert") /\ UNCHANGED rjobs
  <2>1. "insert" \in RestSteps
    BY DEF RestSteps
  <2> QED
    BY <2>1, <1>1, <1>3, <1>4, GotoFacts
<1>5. CASE \E r \in ActiveRestores : /\ SameSource(r) /\ UNCHANGED rjobs
                                     /\ rest' = [rest EXCEPT !.pc = "journal", !.row = r]
  <2>1. PICK r \in DOMAIN restores :
           /\ Active(r) /\ restores[r].b = rest.b
           /\ rest' = [rest EXCEPT !.pc = "journal", !.row = r]
    BY <1>5 DEF ActiveRestores, SameSource
  <2>2. r \in Nat
    BY <1>1
  <2>3. [rest EXCEPT !.pc = "journal", !.row = r] \in RestType
    BY <2>2, <1>1 DEF RestType
  <2>4. /\ rest'.q = rest.q /\ rest'.b = rest.b /\ rest'.parts = rest.parts
        /\ rest'.pc = "journal" /\ rest'.row = r /\ rest'.i = rest.i
    BY <2>1, <1>1 DEF RestType
  <2> QED
    BY <2>1, <2>3, <2>4, <1>3, <1>5
<1>6. CASE Refuse
  BY <1>1, <1>2, <1>6, RefuseStep
<1> QED
  BY <1>4, <1>5, <1>6 DEF BeginRestore

LEMMA BeginOwnRestoreStep ==
  ASSUME Inv, BeginOwnRestore
  PROVE  Inv'
<1>1. /\ rest.pc = "insert" /\ rest \in RestType /\ restores \in Seq(RowType)
      /\ rest.q \in Requests /\ rjobs[rest.q].pc = "running" /\ rest.b = rjobs[rest.q].b
      /\ rest.b \in Backups /\ rest.key \in Keys
      /\ Len(restores) < MaxRestores /\ Len(restores) \in Nat
  BY Types DEF BeginOwnRestore, AtRest, Inv, BackupInv, RestoreInv, AttemptOfRestore, RequestHasRow,
               RestType
<1>2. UNCHANGED <<live, inv, backupVars, journal, count, hist>>
  BY DEF BeginOwnRestore
<1> DEFINE row == [b |-> rest.b, key |-> rest.key, hash |-> TRUE, state |-> "restore_requested"]
<1>3. row \in RowType /\ row.state = "restore_requested" /\ row.b = rest.b
  BY <1>1 DEF RowType
<1> HIDE DEF row
<1>4. CASE /\ ActiveRestores = {} /\ restores' = Append(restores, row) /\ UNCHANGED rjobs
           /\ rest' = [rest EXCEPT !.pc = "journal", !.row = Len(restores) + 1]
  <2>1. /\ restores' \in Seq(RowType)
        /\ DOMAIN restores' = DOMAIN restores \cup {Len(restores) + 1}
        /\ \A r \in DOMAIN restores : restores'[r] = restores[r]
        /\ restores'[Len(restores) + 1] = row
        /\ restores' # <<>>
    BY <1>1, <1>3, <1>4, RowAdded
  <2>2. PICK n \in Nat : n = Len(restores) + 1
    BY <1>1
  <2>3. /\ rest' \in RestType /\ rest'.pc = "journal" /\ rest'.row = n
        /\ rest'.q = rest.q /\ rest'.b = rest.b /\ rest'.parts = rest.parts /\ rest'.i = rest.i
    <3>1. rest' = [rest EXCEPT !.pc = "journal", !.row = n]
      BY <2>2, <1>4
    <3>2. [rest EXCEPT !.pc = "journal", !.row = n] \in RestType
      BY <1>1 DEF RestType
    <3> QED
      BY <3>1, <3>2, <1>1 DEF RestType
  <2>4. /\ ActiveUnique'
        /\ \A r \in DOMAIN restores' :
              restores'[r].state = "complete" /\ restores'[r].b \notin Legacy
              => {"staged", "home"} \subseteq journal'.steps
        /\ FirstUnderWay' => Checkpointed' = {}
    BY <1>1, <1>2, <1>3, <1>4, RowInserted
  <2>5. RequestHasRow'
    BY <2>1, <1>4 DEF Inv, RestoreInv, RequestHasRow
  <2>6. AttemptOfRestore'
    BY <2>1, <2>2, <2>3, <1>1, <1>3, <1>4 DEF Inv, RestoreInv, AttemptOfRestore, OnRow, Active
  <2>7. CheckpointsLeft' /\ FinishedLeavesCheckpoints'
    BY <2>3, <2>4, <1>1 DEF Inv, RestoreInv, CheckpointsLeft, FinishedLeavesCheckpoints, Putting,
                            Closing
  <2>8. FirstRestore'
    BY <2>1, <2>3, <2>4, <1>2 DEF Inv, RestoreInv, FirstRestore, Putting, Closing
  <2>9. RestoreInv'
    BY <2>4, <2>5, <2>6, <2>7, <2>8 DEF RestoreInv
  <2> QED
    BY <2>1, <2>3, <2>9, <1>2, <1>4, Types, RestoreKeepsBackups DEF Inv, BackupInv
<1>5. CASE Refuse /\ UNCHANGED restores
  BY <1>1, <1>2, <1>5, RefuseStep
<1> QED
  BY <1>4, <1>5 DEF BeginOwnRestore, InsertRestore, row

\* What every step of an attempt that has a row starts from.
LEMMA AttemptFacts ==
  ASSUME Inv, rest.pc \in OnRow
  PROVE  /\ rest \in RestType /\ journal \in JournalType /\ hist \in HistType
         /\ restores \in Seq(RowType) /\ count \in CountType
         /\ live \in [Components -> Versions] /\ inv \subseteq Components
         /\ rjobs \in [Requests -> RequestType]
         /\ rest.q \in Requests /\ rjobs[rest.q].row \in DOMAIN restores
         /\ restores[rjobs[rest.q].row].b = rest.b
         /\ rest.row \in DOMAIN restores /\ Active(rest.row)
         /\ restores[rest.row].b = rest.b
         /\ restores # <<>>
         /\ "home" \in In(Content)
         /\ rest.pc # "journal" => journal.there
<1>1. rest.pc # "idle"
  BY DEF OnRow
<1>2. restores # <<>>
  BY DEF Inv, RestoreInv, AttemptOfRestore
<1> QED
  BY <1>1, <1>2, Types DEF Inv, BackupInv, RestoreInv, AttemptOfRestore, RequestHasRow, Content

\* A row whose state stays, or an active row that stays active, changes nothing
\* about the first restore.
LEMMA FirstUnderWaySame ==
  ASSUME SameRows, hist'.late = hist.late
  PROVE  FirstUnderWay' <=> FirstUnderWay
  BY DEF SameRows, FirstUnderWay, Active

\* The components before the next.
LEMMA BeforeNext ==
  /\ Before(1) = {} /\ Before(4) = Components
  /\ \A i \in 1..3 : /\ Order[i] \in Components /\ Order[i] \notin Before(i)
                     /\ Before(i + 1) = Before(i) \cup {Order[i]}
                     /\ i > 1 <=> "home" \in Before(i)
                     /\ i = 1 <=> Order[i] = "home"
<1>1. Before(1) = {} /\ Before(2) = {"home"} /\ Before(3) = {"home", "db"} /\ Before(4) = Components
  BY DEF Before, Components
<1>2. Components = {"home", "db", "mail"}
  BY DEF Components
<1>3. \A i \in 1..3 : i = 1 \/ i = 2 \/ i = 3
  OBVIOUS
<1> QED
  BY <1>1, <1>2, <1>3, OrderLength

LEMMA OpenJournalStep ==
  ASSUME Inv, OpenJournal
  PROVE  Inv'
<1>1. rest.pc = "journal" /\ rest.pc \in OnRow
  BY DEF OpenJournal, AtRest, OnRow
<1>2. UNCHANGED <<live, inv, backupVars, restores, count, hist>>
  BY DEF OpenJournal
<1> USE AttemptFacts
<1>3. ASSUME GotoRest("maintenance"), UNCHANGED rjobs, journal' \in JournalType, journal'.there,
             journal.steps = journal'.steps
      PROVE  Inv'
  <2>1. /\ rest' \in RestType /\ rest'.pc = "maintenance" /\ rest'.i = rest.i
        /\ rest'.q = rest.q /\ rest'.b = rest.b /\ rest'.row = rest.row /\ rest'.parts = rest.parts
    <3>1. "maintenance" \in RestSteps
      BY DEF RestSteps
    <3> QED
      BY <3>1, <1>1, <1>3, GotoFacts
  <2>2. SameRows
    BY <1>2 DEF SameRows
  <2>3. rest'.pc \in OnRow /\ rest'.pc \notin Putting \cup Closing /\ rest.pc \notin Putting \cup Closing
    BY <2>1, <1>1 DEF OnRow, Putting, Closing
  <2>4. CheckpointsLeft'
    BY <2>1, <2>3, <1>1 DEF Inv, RestoreInv, CheckpointsLeft
  <2>5. FirstRestore'
    BY <2>2, <2>3, <1>1, <1>2, <1>3, FirstUnderWaySame DEF Inv, RestoreInv, FirstRestore, Checkpointed
  <2>6. RestoreInv'
    BY <2>1, <2>2, <2>3, <2>4, <2>5, <1>1, <1>2, <1>3, AttemptMoves
  <2> QED
    BY <2>1, <2>6, <1>1, <1>2, <1>3, RestoreKeepsBackups
<1>4. CASE ~journal.there /\ CreateJournal /\ GotoRest("maintenance") /\ UNCHANGED rjobs
  <2>1. journal.steps = {}
    BY <1>4 DEF Inv, RestoreInv, FirstRestore
  <2>2. restores[rest.row] \in RowType
    BY <1>1
  <2>3. RestorePin \in Pin
    BY <2>2 DEF RestorePin, Pin, RowType
  <2>4. journal' = [there |-> TRUE, pin |-> RestorePin, steps |-> {}]
    BY <1>4 DEF CreateJournal
  <2>5. journal' \in JournalType /\ journal'.there /\ journal'.steps = {}
    BY <2>3, <2>4 DEF JournalType
  <2> QED
    BY <2>1, <2>5, <1>3, <1>4
<1>5. CASE journal.there /\ GotoRest("maintenance") /\ UNCHANGED <<journal, rjobs>>
  BY <1>1, <1>3, <1>5
<1>6. CASE Refuse /\ UNCHANGED journal
  BY <1>1, <1>2, <1>6, RefuseStep
<1> QED
  BY <1>4, <1>5, <1>6 DEF OpenJournal

LEMMA EnterMaintenanceStep ==
  ASSUME Inv, EnterMaintenance
  PROVE  Inv'
<1>1. rest.pc = "maintenance" /\ rest.pc \in OnRow
  BY DEF EnterMaintenance, AtRest, OnRow
<1>2. UNCHANGED <<live, inv, backupVars, rjobs, count, hist>>
  BY DEF EnterMaintenance
<1> USE AttemptFacts
<1>3. /\ rest' \in RestType /\ rest'.pc = "stage" /\ rest'.i = rest.i
      /\ rest'.q = rest.q /\ rest'.b = rest.b /\ rest'.row = rest.row /\ rest'.parts = rest.parts
  <2>1. "stage" \in RestSteps
    BY DEF RestSteps
  <2> QED
    BY <2>1, <1>1, GotoFacts DEF EnterMaintenance
<1>4. /\ journal' \in JournalType /\ journal'.there = journal.there
      /\ journal.steps \subseteq journal'.steps /\ Checkpointed' = Checkpointed
      /\ restores' \in Seq(RowType) /\ SameRows
  <2>1. CASE HasCheckpoint("maintenance")
    <3>1. UNCHANGED <<journal, restores>>
      BY <2>1 DEF EnterMaintenance
    <3> QED
      BY <3>1, <1>1 DEF SameRows, Checkpointed
  <2>2. CASE ~HasCheckpoint("maintenance")
    <3>1. "maintenance" \in Steps /\ "maintenance" \notin Components
      BY DEF Steps, Components
    <3>2. CheckpointStep("maintenance") /\ RowState("maintenance")
      BY <2>2 DEF EnterMaintenance
    <3>3. /\ journal' \in JournalType /\ journal'.there = journal.there
          /\ journal'.steps = journal.steps \cup {"maintenance"}
      BY <3>1, <3>2, <1>1, CheckpointFacts
    <3>4. restores' \in Seq(RowType) /\ SameRows
      BY <3>2, <1>1, RowStaysActive
    <3> QED
      BY <3>1, <3>3, <3>4 DEF Checkpointed
  <2> QED
    BY <2>1, <2>2
<1>5. /\ rest'.pc \in OnRow /\ rest'.pc \notin Putting \cup Closing
      /\ rest.pc \notin Putting \cup Closing /\ journal.there
  BY <1>1, <1>3 DEF OnRow, Putting, Closing
<1>6. CheckpointsLeft'
  BY <1>1, <1>3, <1>5 DEF Inv, RestoreInv, CheckpointsLeft
<1>7. restores' # <<>>
  BY <1>1, <1>4 DEF SameRows
<1>8. FirstRestore'
  BY <1>2, <1>4, <1>5, <1>7, FirstUnderWaySame DEF Inv, RestoreInv, FirstRestore
<1>9. RestoreInv'
  BY <1>1, <1>2, <1>3, <1>4, <1>5, <1>6, <1>7, <1>8, AttemptMoves
<1> QED
  BY <1>1, <1>2, <1>3, <1>4, <1>9, RestoreKeepsBackups

\* A restore whose row is finished finds the two checkpoints and puts nothing
\* in place again.
LEMMA StageStep ==
  ASSUME Inv, Stage
  PROVE  Inv'
<1>1. rest.pc = "stage" /\ rest.pc \in OnRow /\ rest.pc \notin Putting \cup Closing
  BY DEF Stage, AtRest, OnRow, Putting, Closing
<1>2. UNCHANGED <<live, inv, backupVars, restores, rjobs, count, hist>>
  BY DEF Stage
<1> USE AttemptFacts
<1>3. SameRows /\ journal.there
  BY <1>1, <1>2 DEF SameRows
<1>4. rest.i = 1
  BY <1>1 DEF Inv, RestoreInv, CheckpointsLeft
<1>5. FirstUnderWay => Checkpointed = {}
  BY <1>1 DEF Inv, RestoreInv, FirstRestore
<1>6. CASE HPM3 /\ HasCheckpoint("staged") /\ HasCheckpoint("home")
  <2>1. GotoRest("verify") /\ UNCHANGED journal
    BY <1>6 DEF Stage
  <2>2. /\ rest' \in RestType /\ rest'.pc = "verify" /\ rest'.i = rest.i
        /\ rest'.q = rest.q /\ rest'.b = rest.b /\ rest'.row = rest.row /\ rest'.parts = rest.parts
    <3>1. "verify" \in RestSteps
      BY DEF RestSteps
    <3> QED
      BY <2>1, <3>1, <1>1, GotoFacts
  <2>3. rest'.pc \in OnRow /\ rest'.pc \notin Putting
    BY <2>2 DEF OnRow, Putting
  <2>4. CheckpointsLeft'
    BY <2>1, <2>2, <2>3, <1>6 DEF CheckpointsLeft, HasCheckpoint
  <2>5. ~FirstUnderWay
    BY <1>5, <1>6 DEF HasCheckpoint, Checkpointed, Components
  <2>6. FirstRestore'
    BY <2>1, <2>5, <1>2, <1>3, FirstUnderWaySame DEF Inv, RestoreInv, FirstRestore
  <2>7. RestoreInv'
    BY <2>1, <2>2, <2>3, <2>4, <2>6, <1>1, <1>2, <1>3, AttemptMoves
  <2> QED
    BY <2>1, <2>2, <2>7, <1>1, <1>2, RestoreKeepsBackups
<1>7. CASE ~(HPM3 /\ HasCheckpoint("staged") /\ HasCheckpoint("home"))
  <2>1. /\ GotoRest("each")
        /\ HPM3 => CheckpointStep("staged")
        /\ ~HPM3 => UNCHANGED journal
    BY <1>7 DEF Stage
  <2>2. /\ rest' \in RestType /\ rest'.pc = "each" /\ rest'.i = rest.i
        /\ rest'.q = rest.q /\ rest'.b = rest.b /\ rest'.row = rest.row /\ rest'.parts = rest.parts
    <3>1. "each" \in RestSteps
      BY DEF RestSteps
    <3> QED
      BY <2>1, <3>1, <1>1, GotoFacts
  <2>3. /\ journal' \in JournalType /\ journal'.there = journal.there
        /\ journal.steps \subseteq journal'.steps /\ Checkpointed' = Checkpointed
        /\ HPM3 => "staged" \in journal'.steps
    <3>1. "staged" \in Steps /\ "staged" \notin Components
      BY DEF Steps, Components
    <3>2. CASE HPM3
      <4>1. /\ journal' \in JournalType /\ journal'.there = journal.there
            /\ journal'.steps = journal.steps \cup {"staged"}
        BY <2>1, <3>1, <3>2, <1>1, CheckpointFacts
      <4> QED
        BY <3>1, <4>1 DEF Checkpointed
    <3>3. CASE ~HPM3
      BY <2>1, <3>3, <1>1 DEF Checkpointed
    <3> QED
      BY <3>2, <3>3
  <2>4. rest'.pc \in OnRow /\ rest'.pc \in Putting /\ rest'.pc \notin Closing /\ rest'.pc # "commit"
        /\ rest'.pc # "stage"
    BY <2>2 DEF OnRow, Putting, Closing
  <2>5. CheckpointsLeft'
    BY <2>2, <2>3, <2>4, <1>4 DEF CheckpointsLeft, HPM3
  <2>6. FirstRestore'
    <3>1. FirstUnderWay' <=> FirstUnderWay
      BY <1>2, <1>3, FirstUnderWaySame
    <3>2. Before(rest'.i) = {}
      BY <2>2, <1>4, BeforeNext
    <3> QED
      BY <2>3, <2>4, <3>1, <3>2, <1>1, <1>2, <1>3, <1>5 DEF FirstRestore
  <2>7. HPM3 => restores[rjobs[rest.q].row].state # "complete"
    BY <1>1, <1>7 DEF Inv, RestoreInv, FinishedLeavesCheckpoints, HasCheckpoint, HPM3
  <2>8. RestoreInv'
    BY <2>2, <2>3, <2>4, <2>5, <2>6, <2>7, <1>1, <1>2, <1>3, AttemptMoves
  <2> QED
    BY <2>2, <2>3, <2>8, <1>1, <1>2, RestoreKeepsBackups
<1> QED
  BY <1>6, <1>7

\* The component of an attempt that puts the components in place.
LEMMA ComponentFacts ==
  ASSUME Inv, rest.pc \in Putting
  PROVE  /\ rest.i \in 1..3 /\ rest.pc \in OnRow
         /\ Component \in Components /\ Component \notin Before(rest.i)
         /\ Before(rest.i + 1) = Before(rest.i) \cup {Component}
         /\ rest.i = 1 <=> Component = "home"
         /\ rest.i = 3 => Before(rest.i + 1) = Components
         /\ FirstUnderWay =>
               /\ Checkpointed \subseteq Before(rest.i)
               /\ In(Content) \cap Before(rest.i) \subseteq hist.put[1]
               /\ rest.pc = "commit" => Component \in hist.put[1]
         /\ rest.i > 1 => "home" \in journal.steps
         /\ HPM3 => "staged" \in journal.steps
<1>1. rest.pc \in OnRow
  BY DEF OnRow, Putting
<1>2. rest.i \in 1..3
  BY <1>1, AttemptFacts DEF Inv, RestoreInv, CheckpointsLeft, RestType
<1>3. rest.i = 3 => rest.i + 1 = 4
  BY <1>2
<1> QED
  BY <1>1, <1>2, <1>3, BeforeNext DEF Inv, RestoreInv, CheckpointsLeft, FirstRestore, Component

\* The attempt passes on to the next component: it has a checkpoint, is not in
\* the archive, or is in place.
LEMMA PassComponent ==
  ASSUME Inv, rest.pc \in Putting, AfterComponent,
         UNCHANGED <<live, inv, backupVars, restores, rjobs, count, hist>>,
         journal' \in JournalType, journal'.there = journal.there,
         journal.steps \subseteq journal'.steps,
         rest.i = 1 => "home" \in journal'.steps,
         FirstUnderWay => /\ Checkpointed' \subseteq Checkpointed \cup {Component}
                          /\ Component \in In(Content) => Component \in hist.put[1]
  PROVE  Inv'
<1>1. rest.pc \in OnRow /\ rest.pc # "journal"
  BY DEF OnRow, Putting
<1> USE AttemptFacts
<1>2. /\ rest' \in RestType
      /\ rest'.pc = IF rest.i = 3 THEN "verify" ELSE "each"
      /\ rest'.i = rest.i + 1
      /\ rest'.q = rest.q /\ rest'.b = rest.b /\ rest'.row = rest.row /\ rest'.parts = rest.parts
  BY <1>1, ComponentFacts, AfterComponentFacts
<1>3. SameRows /\ journal'.there
  BY <1>1 DEF SameRows
<1>4. rest'.pc \in OnRow /\ rest'.pc \notin {"idle", "lookup", "insert", "journal", "maintenance", "stage"}
  BY <1>2 DEF OnRow
<1>5. CheckpointsLeft'
  <2>1. "home" \in journal'.steps
    BY ComponentFacts
  <2>2. HPM3' => "staged" \in journal'.steps
    BY <1>2, ComponentFacts DEF HPM3
  <2>3. rest'.pc \in Putting => rest'.i <= 3
    BY <1>2, ComponentFacts DEF Putting
  <2> QED
    BY <2>1, <2>2, <2>3, <1>4 DEF CheckpointsLeft
<1>6. FirstRestore'
  <2>1. FirstUnderWay' <=> FirstUnderWay
    BY <1>3, FirstUnderWaySame
  <2>2. Content' = Content
    BY <1>2 DEF Content
  <2>3. /\ rest'.pc \in Putting \cup Closing /\ rest'.pc # "commit"
        /\ rest'.pc \in Closing => rest.i = 3
    BY <1>2 DEF Putting, Closing
  <2>4. ASSUME FirstUnderWay
        PROVE  /\ Checkpointed' \subseteq Before(rest'.i)
               /\ In(Content') \cap Before(rest'.i) \subseteq hist'.put[1]
    <3>1. Before(rest'.i) = Before(rest.i) \cup {Component}
      BY <1>2, ComponentFacts
    <3>2. /\ Checkpointed \subseteq Before(rest.i)
          /\ In(Content) \cap Before(rest.i) \subseteq hist.put[1]
      BY <2>4, ComponentFacts
    <3> QED
      BY <2>2, <2>4, <3>1, <3>2
  <2>5. rest.i = 3 => Before(rest'.i) = Components
    BY <1>2, ComponentFacts
  <2>6. In(Content') \subseteq Components
    BY DEF In
  <2>7. FirstUnderWay /\ rest'.pc \in Closing => In(Content') \subseteq hist'.put[1]
    BY <2>3, <2>4, <2>5, <2>6
  <2>8. restores' # <<>>
    BY <1>1
  <2> QED
    BY <2>1, <2>3, <2>4, <2>7, <2>8, <1>3 DEF FirstRestore
<1>7. RestoreInv'
  BY <1>1, <1>2, <1>3, <1>4, <1>5, <1>6, AttemptMoves
<1> QED
  BY <1>1, <1>2, <1>7, RestoreKeepsBackups

LEMMA SkipComponentStep ==
  ASSUME Inv, SkipComponent
  PROVE  Inv'
<1>1. rest.pc \in Putting /\ rest.pc \in OnRow
  BY DEF SkipComponent, AtRest, Putting, OnRow
<1>2. UNCHANGED <<live, inv, backupVars, restores, rjobs, journal, count, hist>>
  BY DEF SkipComponent
<1>3. Component \notin In(Content) \/ HasCheckpoint(Component)
  BY DEF SkipComponent, Pending
<1>4. rest.i = 1 => "home" \in journal'.steps
  BY <1>1, <1>2, <1>3, AttemptFacts, ComponentFacts DEF HasCheckpoint
<1>5. FirstUnderWay => Component \notin In(Content)
  BY <1>1, <1>3, ComponentFacts DEF HasCheckpoint, Checkpointed
<1>6. Checkpointed' = Checkpointed
  BY <1>2 DEF Checkpointed
<1> QED
  BY <1>1, <1>2, <1>4, <1>5, <1>6, AttemptFacts, PassComponent DEF SkipComponent

LEMMA CommitComponentStep ==
  ASSUME Inv, CommitComponent
  PROVE  Inv'
<1>1. rest.pc \in Putting /\ rest.pc \in OnRow /\ rest.pc = "commit"
  BY DEF CommitComponent, AtRest, Putting, OnRow
<1>2. UNCHANGED <<live, inv, backupVars, restores, rjobs, count, hist>>
  BY DEF CommitComponent
<1>3. /\ journal' \in JournalType /\ journal'.there = journal.there
      /\ journal.steps \subseteq journal'.steps
      /\ Component = "home" => "home" \in journal'.steps
      /\ Checkpointed' \subseteq Checkpointed \cup {Component}
  <2>1. CASE HPM3 \/ Component = "home"
    <3>1. Component \in Steps
      BY <1>1, ComponentFacts DEF Steps
    <3>2. /\ journal' \in JournalType /\ journal'.there = journal.there
          /\ journal'.steps = journal.steps \cup {Component}
      BY <2>1, <3>1, <1>1, AttemptFacts, CheckpointFacts DEF CommitComponent
    <3> QED
      BY <3>2 DEF Checkpointed
  <2>2. CASE ~(HPM3 \/ Component = "home")
    <3>1. UNCHANGED journal
      BY <2>2 DEF CommitComponent
    <3> QED
      BY <2>2, <3>1, <1>1, AttemptFacts DEF Checkpointed
  <2> QED
    BY <2>1, <2>2
<1> QED
  BY <1>1, <1>2, <1>3, ComponentFacts, PassComponent DEF CommitComponent

\* A component is put in place; for the first restore the history says so.
LEMMA SwitchedStep ==
  ASSUME Inv, RestoreHomeTar \/ RestoreDatabaseDumps \/ RestoreMailboxTrees
  PROVE  Inv'
<1>1. PICK c \in Components : Switched(c) /\ inv' \subseteq inv \cup {"db"}
  BY DEF RestoreHomeTar, RestoreDatabaseDumps, RestoreMailboxTrees, EnsureHostedDBOnHost, Components
<1>2. rest.pc = "each" /\ rest.pc \in Putting /\ rest.pc \in OnRow /\ rest.pc # "journal"
  BY <1>1 DEF Switched, AtRest, Putting, OnRow
<1>3. UNCHANGED <<backupVars, restores, rjobs, journal, count>> /\ Component = c /\ c \in In(Content)
  BY <1>1 DEF Switched, Pending
<1> USE AttemptFacts
<1>4. SameRows
  BY <1>3 DEF SameRows
<1>5. live' \in [Components -> Versions] /\ inv' \subseteq Components
  <2>1. Content[c] \in Versions
    BY <1>2, <1>3 DEF Content, RestType, Parts, In
  <2>2. live' = [live EXCEPT ![c] = Content[c]]
    BY <1>1 DEF Switched
  <2>3. inv' \subseteq Components
    BY <1>1, <1>2 DEF Components
  <2> QED
    BY <2>1, <2>2, <2>3, <1>2
<1>6. /\ rest' \in RestType /\ rest'.pc = "commit" /\ rest'.i = rest.i
      /\ rest'.q = rest.q /\ rest'.b = rest.b /\ rest'.row = rest.row /\ rest'.parts = rest.parts
  <2>1. "commit" \in RestSteps
    BY DEF RestSteps
  <2> QED
    BY <2>1, <1>1, <1>2, GotoFacts DEF Switched
<1>7. /\ hist' \in HistType /\ hist'.late = hist.late /\ hist'.shared = hist.shared
      /\ FirstUnderWay => hist'.put[1] = hist.put[1] \cup {c}
  <2>1. hist.put \in [1..MaxRestores -> SUBSET Components]
    BY <1>2 DEF HistType
  <2> DEFINE put == [hist.put EXCEPT ![rest.row] = hist.put[rest.row] \cup {c}]
  <2>2. hist' = [hist EXCEPT !.put = put]
    BY <1>1, <1>2 DEF Switched, HistType
  <2>3. put \in [1..MaxRestores -> SUBSET Components]
    BY <2>1
  <2>4. FirstUnderWay => rest.row = 1 /\ 1 \in 1..MaxRestores
    <3>1. Len(restores) \in Nat /\ DOMAIN restores = 1..Len(restores) /\ Len(restores) <= MaxRestores
      BY <1>2 DEF Inv, RestoreInv, ActiveUnique
    <3> QED
      BY <3>1, <1>2, BackupAssumption DEF Inv, RestoreInv, ActiveUnique, FirstUnderWay
  <2>5. FirstUnderWay => put[1] = hist.put[1] \cup {c}
    BY <2>1, <2>4
  <2> HIDE DEF put
  <2>6. [hist EXCEPT !.put = put] \in HistType
    BY <2>3, <1>2 DEF HistType
  <2>7. hist'.put = put /\ hist'.late = hist.late /\ hist'.shared = hist.shared
    BY <2>2, <1>2 DEF HistType
  <2> QED
    BY <2>2, <2>5, <2>6, <2>7
<1>8. /\ rest'.pc \in OnRow /\ rest'.pc \in Putting /\ rest'.pc \notin Closing
      /\ rest'.pc \notin {"idle", "lookup", "insert", "journal", "maintenance", "stage"}
  BY <1>6 DEF OnRow, Putting, Closing
<1>9. CheckpointsLeft'
  BY <1>2, <1>3, <1>6, <1>8, ComponentFacts DEF CheckpointsLeft, HPM3
<1>10. FirstRestore'
  <2>1. FirstUnderWay' <=> FirstUnderWay
    BY <1>4, <1>7, FirstUnderWaySame
  <2>2. Content' = Content /\ Component' = Component /\ Checkpointed' = Checkpointed
    BY <1>3, <1>6 DEF Content, Component, Checkpointed
  <2>3. ASSUME FirstUnderWay
        PROVE  /\ Checkpointed' \subseteq Before(rest'.i)
               /\ In(Content') \cap Before(rest'.i) \subseteq hist'.put[1]
               /\ Component' \in hist'.put[1]
    BY <2>2, <2>3, <1>2, <1>3, <1>6, <1>7, ComponentFacts
  <2>4. restores' # <<>> /\ journal'.there
    BY <1>2, <1>3
  <2> QED
    BY <2>1, <2>3, <2>4, <1>8 DEF FirstRestore
<1>11. RestoreInv'
  BY <1>2, <1>3, <1>4, <1>6, <1>8, <1>9, <1>10, AttemptMoves
<1> QED
  BY <1>2, <1>3, <1>5, <1>6, <1>7, <1>11, RestoreKeepsBackups

\* The restore is verified and its journal closed: a checkpoint of no component.
LEMMA CloseStep ==
  ASSUME Inv, VerifyRestore \/ CompleteJournal
  PROVE  Inv'
<1>1. /\ rest.pc \in OnRow /\ rest.pc \in Closing /\ rest.pc \notin Putting /\ rest.pc # "journal"
  BY DEF VerifyRestore, CompleteJournal, AtRest, OnRow, Closing, Putting
<1>2. UNCHANGED <<live, inv, backupVars, restores, rjobs, count, hist>>
  BY DEF VerifyRestore, CompleteJournal
<1> USE AttemptFacts
<1>3. PICK step \in {"restore_verifying", "complete"}, pc \in {"complete", "finish"} :
         CheckpointStep(step) /\ GotoRest(pc)
  BY DEF VerifyRestore, CompleteJournal
<1>4. /\ rest' \in RestType /\ rest'.pc = pc /\ rest'.i = rest.i
      /\ rest'.q = rest.q /\ rest'.b = rest.b /\ rest'.row = rest.row /\ rest'.parts = rest.parts
  <2>1. pc \in RestSteps
    BY DEF RestSteps
  <2> QED
    BY <2>1, <1>1, <1>3, GotoFacts
<1>5. /\ journal' \in JournalType /\ journal'.there /\ journal.steps \subseteq journal'.steps
      /\ Checkpointed' = Checkpointed
  <2>1. step \in Steps /\ step \notin Components
    BY DEF Steps, Components
  <2>2. /\ journal' \in JournalType /\ journal'.there = journal.there
        /\ journal'.steps = journal.steps \cup {step}
    BY <2>1, <1>1, <1>3, CheckpointFacts
  <2> QED
    BY <2>1, <2>2, <1>1 DEF Checkpointed
<1>6. SameRows
  BY <1>2 DEF SameRows
<1>7. /\ rest'.pc \in OnRow /\ rest'.pc \notin Putting /\ rest'.pc \in Closing
      /\ rest'.pc \notin {"idle", "lookup", "insert", "journal", "maintenance", "stage"}
  BY <1>4 DEF OnRow, Putting, Closing
<1>8. CheckpointsLeft'
  BY <1>1, <1>4, <1>5, <1>7 DEF Inv, RestoreInv, CheckpointsLeft, HPM3
<1>9. FirstRestore'
  <2>1. FirstUnderWay' <=> FirstUnderWay
    BY <1>2, <1>6, FirstUnderWaySame
  <2>2. Content' = Content
    BY <1>4 DEF Content
  <2>3. restores' # <<>>
    BY <1>1, <1>2
  <2> QED
    BY <2>1, <2>2, <2>3, <1>1, <1>2, <1>5, <1>7 DEF Inv, RestoreInv, FirstRestore
<1>10. RestoreInv'
  BY <1>1, <1>2, <1>4, <1>5, <1>6, <1>7, <1>8, <1>9, AttemptMoves
<1> QED
  BY <1>1, <1>2, <1>4, <1>5, <1>10, RestoreKeepsBackups

\* The row is finished: it was the one that was under way.
LEMMA FinishRestoreStep ==
  ASSUME Inv, FinishRestore
  PROVE  Inv'
<1>1. rest.pc = "finish" /\ rest.pc \in OnRow /\ rest.pc \in Closing /\ rest.pc # "journal"
  BY DEF FinishRestore, AtRest, OnRow, Closing
<1>2. UNCHANGED <<live, inv, backupVars, rjobs, journal, count, hist>>
  BY DEF FinishRestore
<1> USE AttemptFacts
<1>3. /\ rest' \in RestType /\ rest'.pc = "done"
      /\ rest'.q = rest.q /\ rest'.b = rest.b /\ rest'.parts = rest.parts
  <2>1. "done" \in RestSteps
    BY DEF RestSteps
  <2> QED
    BY <2>1, <1>1, GotoFacts DEF FinishRestore
<1>4. /\ restores' \in Seq(RowType)
      /\ Len(restores') = Len(restores)
      /\ DOMAIN restores' = DOMAIN restores
      /\ \A r \in DOMAIN restores : restores'[r].b = restores[r].b
      /\ \A r \in DOMAIN restores : r # rest.row => restores'[r] = restores[r]
      /\ restores'[rest.row].state = "complete"
  BY <1>1, RowChanged DEF FinishRestore
<1>5. \A r \in DOMAIN restores : restores'[r].state = "complete"
  BY <1>1, <1>4 DEF Inv, RestoreInv, ActiveUnique, Active
<1>6. /\ rest'.pc \notin OnRow /\ rest'.pc \notin Putting /\ rest'.pc \notin Closing
      /\ rest'.pc \notin {"idle", "lookup", "insert", "journal", "maintenance", "stage"}
  BY <1>3 DEF OnRow, Putting, Closing
<1>7. ActiveUnique'
  BY <1>4, <1>5 DEF Inv, RestoreInv, ActiveUnique, Active
<1>8. RequestHasRow'
  BY <1>2, <1>4 DEF Inv, RestoreInv, RequestHasRow
<1>9. AttemptOfRestore' /\ CheckpointsLeft'
  BY <1>1, <1>2, <1>3, <1>6 DEF Inv, RestoreInv, AttemptOfRestore, CheckpointsLeft
<1>10. FinishedLeavesCheckpoints'
  <2>1. rest.b \notin Legacy => {"staged", "home"} \subseteq journal.steps
    BY <1>1 DEF Inv, RestoreInv, CheckpointsLeft, HPM3
  <2> QED
    BY <2>1, <1>1, <1>2, <1>4, <1>6 DEF Inv, RestoreInv, FinishedLeavesCheckpoints
<1>11. FirstRestore'
  <2>1. ~FirstUnderWay'
    BY <1>4, <1>5 DEF FirstUnderWay, Active
  <2>2. restores' # <<>> /\ journal'.there
    BY <1>1, <1>2, <1>4
  <2> QED
    BY <2>1, <2>2 DEF FirstRestore
<1>12. RestoreInv'
  BY <1>7, <1>8, <1>9, <1>10, <1>11 DEF RestoreInv
<1> QED
  BY <1>1, <1>2, <1>3, <1>4, <1>12, RestoreKeepsBackups

\* A fault is counted.
LEMMA FaultFacts ==
  ASSUME count \in CountType, count.faults < MaxFaults,
         count' = [count EXCEPT !.faults = @ + 1]
  PROVE  count' \in CountType /\ count'.clock = count.clock
<1>1. count.faults + 1 \in 0..MaxFaults
  BY BackupAssumption DEF CountType
<1> QED
  BY <1>1 DEF CountType

\* The history remembers that an attempt ended after the home's checkpoint.
LEMMA LateFacts ==
  ASSUME hist \in HistType, hist' = [hist EXCEPT !.late = @ \/ HasCheckpoint("home")]
  PROVE  /\ hist' \in HistType /\ hist'.put = hist.put /\ hist'.shared = hist.shared
         /\ ~hist'.late => ~hist.late /\ "home" \notin journal.steps
<1>1. (hist.late \/ HasCheckpoint("home")) \in BOOLEAN
  OBVIOUS
<1>2. hist'.late = (hist.late \/ HasCheckpoint("home"))
  BY DEF HistType
<1>3. hist' \in HistType /\ hist'.put = hist.put /\ hist'.shared = hist.shared
  BY <1>1 DEF HistType
<1> QED
  BY <1>2, <1>3 DEF HasCheckpoint

\* Without the home's checkpoint there is none of a component.
LEMMA NothingCheckpointed ==
  ASSUME Inv, FirstUnderWay, "home" \notin journal.steps
  PROVE  Checkpointed = {}
<1>1. CASE rest.pc \notin Putting \cup Closing
  BY <1>1 DEF Inv, RestoreInv, FirstRestore
<1>2. CASE rest.pc \in Putting
  <2>1. rest.i = 1 /\ Checkpointed \subseteq Before(rest.i)
    BY <1>2, ComponentFacts
  <2> QED
    BY <2>1, BeforeNext
<1>3. CASE rest.pc \in Closing
  BY <1>3 DEF Inv, RestoreInv, CheckpointsLeft
<1> QED
  BY <1>1, <1>2, <1>3

\* A component failed: the row and the journal ask for an operator.
LEMMA FailComponentStep ==
  ASSUME Inv, FailComponent
  PROVE  Inv'
<1>1. rest.pc \in OnRow /\ rest.pc \in Putting /\ rest.pc # "idle" /\ rest.pc # "journal"
  BY DEF FailComponent, AtRest, OnRow, Putting
<1>2. UNCHANGED <<inv, backupVars>>
  BY DEF FailComponent
<1> USE AttemptFacts
<1>3. count' \in CountType /\ count'.clock = count.clock
  BY <1>1, FaultFacts DEF FailComponent
<1>4. live' \in [Components -> Versions]
  <2>1. PICK v \in {live[Component], Mixed} : live' = [live EXCEPT ![Component] = v]
    BY DEF FailComponent, RestoreHostedDatabase, UnpackDirectory
  <2>2. Component \in Components
    BY <1>1, ComponentFacts
  <2>3. v \in Versions
    BY <2>2, <1>1, BackupAssumption DEF Versions, Mixed
  <2> QED
    BY <2>1, <2>2, <2>3, <1>1
<1>5. /\ journal' \in JournalType /\ journal'.there = journal.there
      /\ journal.steps \subseteq journal'.steps /\ Checkpointed' = Checkpointed
  <2>1. "manual_intervention" \in Steps /\ "manual_intervention" \notin Components
    BY DEF Steps, Components
  <2>2. /\ journal' \in JournalType /\ journal'.there = journal.there
        /\ journal'.steps = journal.steps \cup {"manual_intervention"}
    BY <2>1, <1>1, CheckpointFacts DEF FailComponent, FailRollback
  <2> QED
    BY <2>1, <2>2 DEF Checkpointed
<1>6. restores' \in Seq(RowType) /\ SameRows
  BY <1>1, RowStaysActive DEF FailComponent, FailRestore
<1>7. /\ hist' \in HistType /\ hist'.put = hist.put /\ hist'.shared = hist.shared
      /\ ~hist'.late => ~hist.late /\ "home" \notin journal.steps
  BY <1>1, LateFacts DEF FailComponent
<1>8. FirstUnderWay' => Checkpointed' = {}
  <2>1. FirstUnderWay' => FirstUnderWay /\ "home" \notin journal.steps
    BY <1>6, <1>7 DEF FirstUnderWay, SameRows, Active
  <2> QED
    BY <2>1, <1>5, NothingCheckpointed
<1>9. PICK s \in Retried : rjobs' = [rjobs EXCEPT ![rest.q].pc = s]
  BY DEF FailComponent, Refuse, Job
<1>10. rest' = NoRest
  BY DEF FailComponent, Refuse
<1>11. restores' # <<>> /\ restores # <<>> /\ journal.there
  BY <1>1, <1>6 DEF SameRows
<1>12. RestoreInv' /\ rjobs' \in [Requests -> RequestType] /\ rest' \in RestType
  BY <1>1, <1>5, <1>6, <1>8, <1>9, <1>10, <1>11, AttemptEnds
<1> QED
  BY <1>1, <1>2, <1>3, <1>4, <1>5, <1>6, <1>7, <1>12, RestoreKeepsBackups

\* The attempt is done, or stops with the process.
LEMMA RestoreEndsStep ==
  ASSUME Inv, RestoreDone \/ RestoreStops
  PROVE  Inv'
<1>1. rest.pc # "idle" /\ rest' = NoRest
  BY DEF RestoreDone, RestoreStops, AtRest
<1>2. UNCHANGED <<live, inv, backupVars, restores, journal>>
  BY DEF RestoreDone, RestoreStops
<1>3. PICK s \in Retried : rjobs' = [rjobs EXCEPT ![rest.q].pc = s]
  BY DEF RestoreDone, RestoreStops, Job, Retried
<1>4. /\ hist \in HistType /\ count \in CountType
      /\ live \in [Components -> Versions] /\ inv \subseteq Components
      /\ restores \in Seq(RowType) /\ journal \in JournalType
  BY Types DEF Inv, BackupInv
<1>5. count' \in CountType /\ count'.clock = count.clock
  BY <1>4, FaultFacts DEF RestoreDone, RestoreStops
<1>6. /\ hist' \in HistType /\ hist'.put = hist.put /\ hist'.shared = hist.shared
      /\ ~hist'.late => ~hist.late
  BY <1>4, LateFacts DEF RestoreDone, RestoreStops
<1>7. SameRows
  BY <1>2 DEF SameRows
<1>8. FirstUnderWay' => Checkpointed' = {}
  <2>1. FirstUnderWay' => FirstUnderWay
    BY <1>2, <1>6 DEF FirstUnderWay, Active
  <2>2. Checkpointed' = Checkpointed
    BY <1>2 DEF Checkpointed
  <2>3. CASE RestoreDone
    <3>1. rest.pc \notin Putting \cup Closing
      BY <2>3 DEF RestoreDone, AtRest, Putting, Closing
    <3> QED
      BY <2>1, <2>2, <3>1 DEF Inv, RestoreInv, FirstRestore
  <2>4. CASE RestoreStops
    <3>1. ~hist'.late => "home" \notin journal.steps
      BY <2>4, <1>4, LateFacts DEF RestoreStops
    <3>2. FirstUnderWay' => ~hist'.late
      BY DEF FirstUnderWay
    <3> QED
      BY <2>1, <2>2, <3>1, <3>2, NothingCheckpointed
  <2> QED
    BY <2>3, <2>4
<1>9. ~journal.there => journal'.steps = {}
  BY <1>2 DEF Inv, RestoreInv, FirstRestore
<1>10. RestoreInv' /\ rjobs' \in [Requests -> RequestType] /\ rest' \in RestType
  BY <1>1, <1>2, <1>3, <1>7, <1>8, <1>9, AttemptEnds
<1> QED
  BY <1>2, <1>4, <1>5, <1>6, <1>10, RestoreKeepsBackups

(***************************************************************************)
(* The theorems.                                                           *)
(***************************************************************************)

LEMMA InvInit == Init => Inv
<1> SUFFICES ASSUME Init PROVE Inv
  OBVIOUS
<1> USE BackupAssumption
<1>1. live \in [Components -> Versions] /\ inv \subseteq Components
  BY DEF Init, Versions, Mixed
<1>2. 0 \in Keys /\ 1 \in Keys /\ 2 \in Keys
  BY DEF Keys
<1>3. rows \in [Backups -> BackupRowType] /\ \A b \in Backups : rows[b].key \in {0, 1}
  BY <1>2 DEF Init, BackupRowType, Destinations
<1>4. \A b \in Backups \ Legacy : rows[b].state = "none"
  BY DEF Init
<1>5. live \in Parts /\ "home" \in In(live) /\ NoParts \in Parts
  BY <1>1, VersionsAreParts DEF Components
<1>6. objects \in [Keys -> Object] /\ \A k \in Keys : There(k) => objects[k].parts = live
  <2>1. NoObject \in Object
    BY <1>5 DEF NoObject, Object
  <2>2. ASSUME Legacy # {}
        PROVE  [b |-> CHOOSE b \in Legacy : TRUE, parts |-> live] \in Object
    <3>1. (CHOOSE b \in Legacy : TRUE) \in Backups
      BY <2>2
    <3> QED
      BY <3>1, <1>5 DEF Object
  <2>3. objects = [k \in Keys |-> IF k = 1 /\ Legacy # {}
                     THEN [b |-> CHOOSE b \in Legacy : TRUE, parts |-> live] ELSE NoObject]
    BY DEF Init
  <2>4. objects \in [Keys -> Object]
    BY <2>1, <2>2, <2>3
  <2>5. \A k \in Keys : There(k) => objects[k].parts = live
    BY <2>3 DEF There
  <2> QED
    BY <2>4, <2>5
<1>7. bjobs \in [Backups -> JobStates] /\ back \in BackType
  BY NoBackType DEF Init, JobStates
<1>8. restores \in Seq(RowType) /\ restores = <<>>
  BY DEF Init
<1>9. rjobs \in [Requests -> RequestType] /\ \A q \in Requests : rjobs[q].pc = "none"
  BY <1>2 DEF Init, RequestType, JobStates
<1>10. rest \in RestType /\ rest.pc = "idle" /\ rest.i = 1
  BY <1>2, <1>5 DEF Init, NoRest, RestType
<1>11. journal \in JournalType /\ ~journal.there /\ journal.steps = {}
  BY <1>2 DEF Init, NoJournal, JournalType, Pin
<1>12. count \in CountType /\ count.clock = 2
  BY <1>2 DEF Init, CountType
<1>13. hist \in HistType
  BY DEF Init, HistType
<1>14. TypeOK
  BY <1>1, <1>3, <1>6, <1>7, <1>8, <1>9, <1>10, <1>11, <1>12, <1>13, Types
<1>15. AttemptOfBackup
  BY DEF Init, NoBack, AttemptOfBackup
<1>16. SharedKeysKnown
  BY <1>3, <1>12 DEF SharedKeysKnown
<1>17. ArchivesHaveHome /\ SucceededIsWhole
  BY <1>4, <1>5, <1>6 DEF ArchivesHaveHome, SucceededIsWhole
<1>18. ActiveUnique
  BY <1>8 DEF ActiveUnique
<1>19. RequestHasRow
  BY <1>9 DEF RequestHasRow
<1>20. AttemptOfRestore /\ CheckpointsLeft /\ FinishedLeavesCheckpoints
  BY <1>8, <1>10 DEF AttemptOfRestore, CheckpointsLeft, FinishedLeavesCheckpoints, OnRow, Putting,
                     Closing
<1>21. FirstRestore
  BY <1>8, <1>11 DEF FirstRestore, FirstUnderWay
<1> QED
  BY <1>14, <1>15, <1>16, <1>17, <1>18, <1>19, <1>20, <1>21 DEF Inv, BackupInv, RestoreInv

LEMMA InvStep == Inv /\ [Next]_vars => Inv'
<1> SUFFICES ASSUME Inv, [Next]_vars PROVE Inv'
  OBVIOUS
<1>1. CASE User
  BY <1>1, UserStep
<1>2. CASE API
  BY <1>2, CreateBackupStep, RestoreBackupStep, CreateRestoreStep DEF API
<1>3. CASE BackupJob
  BY <1>3, StartBackupStep, CollectPartStep, MatchExpectedStep, ObjectStep, ReconcileUploadedStep,
     BackupEndsStep DEF BackupJob
<1>4. CASE RestoreJob
  BY <1>4, OpenAnyStep, BeginRestoreStep, BeginOwnRestoreStep, OpenJournalStep,
     EnterMaintenanceStep, StageStep, SkipComponentStep, SwitchedStep, CommitComponentStep,
     FailComponentStep, CloseStep, FinishRestoreStep, RestoreEndsStep DEF RestoreJob
<1>5. CASE UNCHANGED vars
  <2>1. TypeOK'
    BY <1>5, Types, TypesAfter DEF Inv, BackupInv, vars
  <2> QED
    BY <2>1, <1>5, BackupFrame, RestoreFrame DEF Inv, BackupInv, vars, backupVars
<1> QED
  BY <1>1, <1>2, <1>3, <1>4, <1>5 DEF Next

LEMMA InvHolds == Spec => []Inv
  BY InvInit, InvStep, PTL DEF Spec

\* Every variable keeps the type the code gives it: the rows and jobs of backups
\* and restores, the attempts, the journal file.
THEOREM BackupTypeCorrect == Spec => []TypeOK
<1>1. Inv => TypeOK
  BY DEF Inv, BackupInv
<1> QED
  BY <1>1, InvHolds, PTL

\* An account has at most one restore under way, whichever requests and attempts
\* look for one at the same time (postgres.go, CreateRestoreWithJob and
\* BeginRestore on the partial unique index).
THEOREM RestoreUnique == Spec => []OneActiveRestore
<1>1. Inv => OneActiveRestore
  <2> SUFFICES ASSUME Inv PROVE Cardinality(ActiveRestores) <= 1
    BY DEF OneActiveRestore
  <2>1. CASE ActiveRestores = {}
    BY <2>1, FS_EmptySet
  <2>2. CASE ActiveRestores # {}
    <3>1. PICK r : r \in ActiveRestores
      BY <2>2
    <3>2. ActiveRestores = {r}
      BY <3>1 DEF Inv, RestoreInv, ActiveUnique, ActiveRestores
    <3>3. Cardinality({r}) = 1
      BY FS_Singleton
    <3> QED
      BY <3>2, <3>3
  <2> QED
    BY <2>1, <2>2
<1> QED
  BY <1>1, InvHolds, PTL

\* The steps that write an object seal what their attempt has expected.
LEMMA SealStep ==
  ASSUME Inv, [Next]_vars, NEW k \in Keys, objects'[k] # objects[k], objects'[k] # NoObject
  PROVE  In(objects'[k].parts) = back.expected
<1>1. ~UNCHANGED objects
  OBVIOUS
<1>2. ~User /\ ~API /\ ~RestoreJob /\ ~UNCHANGED vars
  BY <1>1 DEF User, WriteData, ChangeInventory, API, CreateBackup, RestoreBackup,
     CreateRestoreWithJob, RestoreJob, OpenAny, BeginRestore, BeginOwnRestore, OpenJournal,
     EnterMaintenance, Stage, SkipComponent, RestoreHomeTar, RestoreDatabaseDumps,
     RestoreMailboxTrees, Switched, CommitComponent, FailComponent, VerifyRestore,
     CompleteJournal, FinishRestore, RestoreDone, RestoreStops, backupVars, vars
<1>3. PutLocal \/ PutS3 \/ RenameSFTP \/ RemoveSFTP
  BY <1>1, <1>2 DEF Next, BackupJob, StartBackup, CollectPart, MatchExpected, ReconcileUploaded,
     BackupDone, BackupFails
<1>4. PICK object \in {Sealed, NoObject} : objects' = [objects EXCEPT ![rows[back.b].key] = object]
  BY <1>3 DEF PutLocal, PutS3, RenameSFTP, RemoveSFTP, Upload
<1>5. In(back.got) = back.expected
  BY <1>3 DEF PutLocal, PutS3, RenameSFTP, RemoveSFTP, Uploading, AtBack, Inv, BackupInv, AttemptOfBackup
<1>6. objects \in [Keys -> Object]
  BY Types DEF Inv, BackupInv
<1>7. objects'[k] = Sealed
  BY <1>4, <1>6
<1> QED
  BY <1>5, <1>7 DEF Sealed

\* Every backup the panel offers is whole: its object was sealed for it, with the
\* components that were listed when its attempt began, however attempts were cut
\* short, unless another backup was given its object key (worker.go,
\* createBackup; internal/backup/reconcile.go, stream.go).
THEOREM OfferedBackupsWhole == Spec => BackupsAreWhole
<1>1. Inv => SucceededIsWhole
  BY DEF Inv, BackupInv
<1>2. Inv /\ [Next]_vars =>
         [\A k \in Keys : objects'[k] # objects[k] /\ objects'[k] # NoObject
                         => In(objects'[k].parts) = back.expected]_vars
  BY SealStep
<1> QED
  BY <1>1, <1>2, InvHolds, PTL DEF BackupsAreWhole, SealsWhatWasListed, Spec

\* A job that runs again after its restore was reported complete puts nothing over
\* what the user has written since: it finds the journal's checkpoints (worker.go,
\* restoreHPM3).
THEOREM NotRepeated == Spec => FinishedRestoreNotRepeated
<1>1. ASSUME Inv, [Next]_vars, rest.q \in Requests, HPM3, hist'.put # hist.put
      PROVE  restores[rjobs[rest.q].row].state # "complete"
  <2>1. hist \in HistType
    BY <1>1, Types DEF Inv, BackupInv
  <2>2. ~User /\ ~API /\ ~UNCHANGED vars
    BY <1>1 DEF User, WriteData, ChangeInventory, API, CreateBackup, RestoreBackup,
       CreateRestoreWithJob, restoreVars, vars
  <2>3. ~BackupJob
    <3>1. \A b \in Backups : ~StartBackup(b)
      BY <2>1, <1>1 DEF StartBackup, HistType
    <3> QED
      BY <3>1, <1>1 DEF BackupJob, CollectPart, MatchExpected, PutLocal, PutS3, RemoveSFTP,
         RenameSFTP, Upload, ReconcileUploaded, BackupDone, BackupFails, restoreVars
  <2>4. ~FailComponent /\ ~RestoreStops
    BY <2>1, <1>1, LateFacts DEF FailComponent, RestoreStops
  <2>5. \E c \in Components : Switched(c)
    BY <2>2, <2>3, <2>4, <1>1 DEF Next, RestoreJob, OpenAny, BeginRestore, BeginOwnRestore,
       OpenJournal, EnterMaintenance, Stage, SkipComponent, RestoreHomeTar, RestoreDatabaseDumps,
       RestoreMailboxTrees, CommitComponent, VerifyRestore, CompleteJournal, FinishRestore,
       RestoreDone, Components
  <2>6. rest.pc \in Putting
    BY <2>5 DEF Switched, AtRest, Putting
  <2> QED
    BY <2>6, <1>1 DEF Inv, RestoreInv, FinishedLeavesCheckpoints
<1>2. Inv /\ [Next]_vars =>
         [rest.q \in Requests /\ HPM3 /\ hist'.put # hist.put
          => restores[rjobs[rest.q].row].state # "complete"]_vars
  BY <1>1
<1> QED
  BY <1>2, InvHolds, PTL DEF FinishedRestoreNotRepeated, Spec

\* The first restore of an account that completes has put every component of its
\* backup in place, however often it was resumed, if no attempt ended after the
\* home's checkpoint (worker.go, restoreHPM3 and restoreBackup).
THEOREM ResumedWhole == Spec => ResumedRestoreIsWhole
<1>1. ASSUME Inv, [Next]_vars, 1 \in DOMAIN restores, Completes(1), ~hist.late
      PROVE  PutInPlace(1)
  <2>1. FirstUnderWay /\ restores \in Seq(RowType) /\ ~UNCHANGED restores
    BY <1>1, Types DEF FirstUnderWay, Completes, Active, Inv, BackupInv
  <2>2. ~User /\ ~BackupJob /\ ~UNCHANGED vars
    BY <2>1 DEF User, WriteData, ChangeInventory, BackupJob, StartBackup, CollectPart,
       MatchExpected, PutLocal, PutS3, RemoveSFTP, RenameSFTP, Upload, ReconcileUploaded,
       BackupDone, BackupFails, restoreVars, vars
  <2>3. ActiveRestores # {}
    BY <2>1 DEF FirstUnderWay, ActiveRestores
  <2>4. ~API /\ ~BeginOwnRestore
    BY <2>1, <2>3 DEF API, CreateBackup, RestoreBackup, CreateRestoreWithJob, InsertRestore,
       BeginOwnRestore, restoreVars
  <2>5. ~EnterMaintenance
    <3>1. SUFFICES ASSUME EnterMaintenance, RowState("maintenance") PROVE FALSE
      BY <2>1 DEF EnterMaintenance
    <3>2. rest.pc \in OnRow
      BY <3>1 DEF EnterMaintenance, AtRest, OnRow
    <3>3. SameRows
      BY <3>1, <3>2, <1>1, AttemptFacts, RowStaysActive
    <3> QED
      BY <3>3, <1>1 DEF SameRows, Completes
  <2>6. ~FailComponent
    <3>1. SUFFICES ASSUME FailComponent PROVE FALSE
      OBVIOUS
    <3>2. rest.pc \in OnRow /\ RowState("manual_intervention")
      BY <3>1 DEF FailComponent, AtRest, OnRow, FailRestore
    <3>3. SameRows
      BY <3>2, <1>1, AttemptFacts, RowStaysActive
    <3> QED
      BY <3>3, <1>1 DEF SameRows, Completes
  <2>7. FinishRestore
    BY <2>1, <2>2, <2>4, <2>5, <2>6, <1>1 DEF Next, RestoreJob, OpenAny, BeginRestore,
       OpenJournal, Stage, SkipComponent, RestoreHomeTar, RestoreDatabaseDumps,
       RestoreMailboxTrees, Switched, CommitComponent, VerifyRestore, CompleteJournal,
       RestoreDone, RestoreStops
  <2>8. rest.pc \in Closing
    BY <2>7 DEF FinishRestore, AtRest, Closing
  <2> QED
    BY <2>1, <2>8, <1>1 DEF Inv, RestoreInv, FirstRestore, PutInPlace
<1>2. Inv /\ [Next]_vars =>
         [\A r \in {1} \cap DOMAIN restores : Completes(r) /\ ~hist.late => PutInPlace(r)]_vars
  BY <1>1
<1> QED
  BY <1>2, InvHolds, PTL DEF ResumedRestoreIsWhole, Spec
=============================================================================
