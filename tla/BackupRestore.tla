---------------------------- MODULE BackupRestore ----------------------------
(***************************************************************************)
(* Backups and restores of one account.  The API makes the rows and jobs   *)
(* (internal/httpserver/api.go, internal/store/postgres.go); the worker    *)
(* collects the components, seals them into an object and restores an      *)
(* object component by component, with a journal on disk to resume from    *)
(* (internal/job/worker.go, internal/backup); the agent packs and unpacks  *)
(* (agent/operations/archive.go, dump.go).                                 *)
(*                                                                         *)
(* The content of a component is a version; Mixed is a component that a    *)
(* failed restore left half written.  One attempt of a backup and one of a *)
(* restore may run side by side.  How often a failed job is retried is     *)
(* left open: a failed attempt waits again or gives up.  Encryption, the   *)
(* framing of an archive and its checksums are left out: an object is      *)
(* there whole or not at all, which is what the code's Verify establishes. *)
(***************************************************************************)
EXTENDS Integers, Sequences, FiniteSets

CONSTANTS Backups,      \* backup rows
          Legacy,       \* those of them that exist already, in format 1 or 2
          Requests,     \* restore requests, each made once
          MaxKeys,      \* bound: seconds that can name an object
          MaxWrites,    \* bound: changes of the account's data by its user
          MaxRestores,  \* bound: rows of restore_journals
          MaxFaults     \* bound: failed calls and crashes

ASSUME BackupAssumption ==
    /\ Legacy \subseteq Backups
    /\ MaxKeys \in Nat /\ MaxKeys >= 2 /\ MaxWrites \in Nat
    /\ MaxRestores \in Nat /\ MaxFaults \in Nat

VARIABLES live,      \* the components of the account on the host
          inv,       \* the components the rows of the panel list
          rows,      \* backup_runs
          objects,   \* the repositories, by object key
          bjobs,     \* the job of each backup
          back,      \* the running attempt of a backup
          restores,  \* restore_journals, in the order of their creation
          rjobs,     \* the request and the job of each restore
          rest,      \* the running attempt of a restore
          journal,   \* the account's restore.journal file
          count,     \* bounds: the clock, writes and faults so far
          hist       \* history: what each restore put in place; resumed too late;
                     \* the object keys that two backups were given

vars == <<live, inv, rows, objects, bjobs, back, restores, rjobs, rest,
          journal, count, hist>>
backupVars == <<rows, objects, bjobs, back>>
restoreVars == <<restores, rjobs, rest, journal, hist>>

Order == <<"home", "db", "mail">>
Components == {"home", "db", "mail"}
Mixed == -1
Keys == 0..MaxKeys        \* 0: no key
Destinations == {"local", "s3", "sftp"}

\* The components of an archive; Absent is one it does not have.
Absent == -2
Versions == Mixed..MaxWrites
Parts == [Components -> Versions \cup {Absent}]
NoParts == [c \in Components |-> Absent]
In(parts) == {c \in Components : parts[c] # Absent}

\* An object of a repository and the backup it was sealed for.
Object == [b : Backups \cup {"none"}, parts : Parts]
NoObject == [b |-> "none", parts |-> NoParts]
There(key) == objects[key] # NoObject

JobStates == {"none", "waiting", "running", "done"}
NoBack == [pc |-> "idle", b |-> "none", i |-> 1, expected |-> {}, got |-> NoParts]
NoRest == [pc |-> "idle", q |-> "none", b |-> "none", key |-> 0, row |-> 0,
           i |-> 1, parts |-> NoParts]

\* RestorePin: the API's row has no manifest hash, the worker's own has.
Pin == [b : Backups \cup {"none"}, key : Keys, hash : BOOLEAN]
Steps == {"maintenance", "staged", "restore_verifying", "complete",
          "manual_intervention"} \cup Components
NoJournal == [there |-> FALSE, pin |-> [b |-> "none", key |-> 0, hash |-> FALSE],
              steps |-> {}]

TypeOK ==
    /\ live \in [Components -> Versions]
    /\ inv \subseteq Components
    /\ rows \in [Backups -> [state : {"none", "queued", "uploading", "succeeded"},
                             key : Keys, destination : Destinations]]
    /\ objects \in [Keys -> Object]
    /\ bjobs \in [Backups -> JobStates]
    /\ back \in [pc : {"idle", "collect", "match", "put", "rename", "reconcile", "done"},
                 b : Backups \cup {"none"}, i : 1..Len(Order) + 1,
                 expected : SUBSET Components, got : Parts]
    /\ restores \in Seq([b : Backups, key : Keys, hash : BOOLEAN,
                         state : {"restore_requested", "maintenance",
                                  "manual_intervention", "complete"}])
    /\ rjobs \in [Requests -> [pc : JobStates \cup {"checked", "refused"},
                               b : Backups \cup {"none"}, key : Keys, row : Nat]]
    /\ rest \in [pc : {"idle", "lookup", "insert", "journal", "maintenance", "stage",
                       "each", "commit", "verify", "complete", "finish", "done"},
                 q : Requests \cup {"none"}, b : Backups \cup {"none"}, key : Keys,
                 row : Nat, i : 1..Len(Order) + 1, parts : Parts]
    /\ journal \in [there : BOOLEAN, pin : Pin, steps : SUBSET Steps]
    /\ count \in [clock : Keys, writes : 0..MaxWrites, faults : 0..MaxFaults]
    /\ hist \in [put : [1..MaxRestores -> SUBSET Components], late : BOOLEAN,
                 shared : SUBSET Keys]

\* An account with all its components, and the backups of earlier releases.
Init ==
    /\ live = [c \in Components |-> 0]
    /\ inv = Components
    /\ rows = [b \in Backups |-> 
                 [state |-> IF b \in Legacy THEN "succeeded" ELSE "none",
                  key |-> IF b \in Legacy THEN 1 ELSE 0, destination |-> "local"]]
    /\ objects = [k \in Keys |->
                    IF k = 1 /\ Legacy # {}
                    THEN [b |-> CHOOSE b \in Legacy : TRUE, parts |-> live] ELSE NoObject]
    /\ bjobs = [b \in Backups |-> IF b \in Legacy THEN "done" ELSE "none"]
    /\ back = NoBack
    /\ restores = <<>>
    /\ rjobs = [q \in Requests |-> [pc |-> "none", b |-> "none", key |-> 0, row |-> 0]]
    /\ rest = NoRest
    /\ journal = NoJournal
    /\ count = [clock |-> 2, writes |-> 0, faults |-> 0]
    /\ hist = [put |-> [r \in 1..MaxRestores |-> {}], late |-> FALSE, shared |-> {}]

-----------------------------------------------------------------------------
(* The user of the account: data changes, databases and mailboxes go and   *)
(* come.                                                                   *)

WriteData(c) ==
    /\ count.writes < MaxWrites
    /\ count' = [count EXCEPT !.writes = @ + 1]
    /\ live' = [live EXCEPT ![c] = count.writes + 1]
    /\ UNCHANGED <<inv, backupVars, restoreVars>>

ChangeInventory(c) ==
    /\ c # "home"
    /\ count.writes < MaxWrites
    /\ count' = [count EXCEPT !.writes = @ + 1]
    /\ inv' = IF c \in inv THEN inv \ {c} ELSE inv \cup {c}
    /\ UNCHANGED <<live, backupVars, restoreVars>>

-----------------------------------------------------------------------------
(* The API.                                                                *)

\* createBackup: the row and the job, in one transaction.
CreateBackup(b, destination) ==
    /\ rows[b].state = "none"
    /\ rows' = [rows EXCEPT ![b].state = "queued", ![b].destination = destination]
    /\ bjobs' = [bjobs EXCEPT ![b] = "waiting"]
    /\ UNCHANGED <<live, inv, objects, back, restoreVars, count>>

Active(r) == restores[r].state # "complete"
ActiveRestores == {r \in DOMAIN restores : Active(r)}

\* restoreBackup: any backup of the account will do, the key is the row's as it
\* is now.  CreateRestoreWithJob looks for an active restore first.
RestoreBackup(q, b) ==
    /\ rjobs[q].pc = "none"
    /\ rows[b].state # "none"
    /\ rjobs' = [rjobs EXCEPT ![q].pc = IF ActiveRestores = {} THEN "checked" ELSE "refused",
                              ![q].b = b, ![q].key = rows[b].key]
    /\ UNCHANGED <<live, inv, backupVars, restores, rest, journal, count, hist>>

\* Mutant: the table has no unique index.
InsertAnyRestore(row) == restores' = Append(restores, row)

\* insertRestore: the partial unique index admits one active row per account.
InsertRestore(row) ==
    /\ ActiveRestores = {}
    /\ restores' = Append(restores, row)

\* The rest of the transaction: the row, then the job.  A row the index refuses
\* fails the request.
CreateRestoreWithJob(q) ==
    /\ rjobs[q].pc = "checked"
    /\ Len(restores) < MaxRestores
    /\ \/ /\ InsertRestore([b |-> rjobs[q].b, key |-> rjobs[q].key, hash |-> FALSE,
                            state |-> "restore_requested"])
          /\ rjobs' = [rjobs EXCEPT ![q].pc = "waiting", ![q].row = Len(restores) + 1]
       \/ /\ ActiveRestores # {}
          /\ rjobs' = [rjobs EXCEPT ![q].pc = "refused"]
          /\ UNCHANGED restores
    /\ UNCHANGED <<live, inv, backupVars, rest, journal, count, hist>>

-----------------------------------------------------------------------------
(* The worker takes a backup.                                              *)

AtBack(pc) == back.pc = pc

\* The key, if another backup has it.
Shared(b, key) == {key} \cap {rows[o].key : o \in Backups \ {b}}

\* Mutant: a backup that runs again keeps the state it had.
StartKeepsState(b) ==
    /\ AtBack("idle")
    /\ bjobs[b] = "waiting"
    /\ \E second \in {count.clock, count.clock + 1} \cap Keys :
          /\ rows' = [rows EXCEPT ![b].key = second]
          /\ count' = [count EXCEPT !.clock = second]
          /\ hist' = [hist EXCEPT !.shared = @ \cup Shared(b, second)]
    /\ bjobs' = [bjobs EXCEPT ![b] = "running"]
    /\ back' = [NoBack EXCEPT !.pc = "collect", !.b = b, !.expected = inv]
    /\ UNCHANGED <<live, inv, objects, restores, rjobs, rest, journal>>

\* createBackup: the components to expect are listed, an object key is made of
\* the time in seconds and stored in the row with state "uploading".
StartBackup(b) ==
    /\ AtBack("idle")
    /\ bjobs[b] = "waiting"
    /\ \E second \in {count.clock, count.clock + 1} \cap Keys :
          /\ rows' = [rows EXCEPT ![b].state = "uploading", ![b].key = second]
          /\ count' = [count EXCEPT !.clock = second]
          /\ hist' = [hist EXCEPT !.shared = @ \cup Shared(b, second)]
    /\ bjobs' = [bjobs EXCEPT ![b] = "running"]
    /\ back' = [NoBack EXCEPT !.pc = "collect", !.b = b, !.expected = inv]
    /\ UNCHANGED <<live, inv, objects, restores, rjobs, rest, journal>>

\* The archive of a tree, and the dump of a database, as they are now; a dump
\* is one transaction, a tree is read file by file while it is in use.
PackDirectory(c) == [back.got EXCEPT ![c] = live[c]]
DumpHostedDatabase == [back.got EXCEPT !["db"] = live["db"]]
Collected(c) == IF c = "db" THEN DumpHostedDatabase ELSE PackDirectory(c)

\* collectBackupParts: the home, then the databases listed now, then the
\* mailboxes listed now.
CollectPart ==
    /\ AtBack("collect")
    /\ LET c == Order[back.i]
       IN  back' = [back EXCEPT !.got = IF c \in inv \cup {"home"} THEN Collected(c) ELSE @,
                                !.i = @ + 1,
                                !.pc = IF back.i = Len(Order) THEN "match" ELSE "collect"]
    /\ UNCHANGED <<live, inv, rows, objects, bjobs, restoreVars, count>>

\* A job that did not finish waits for another attempt, or has used them up.
Retried == {"waiting", "done"}

\* An attempt of a backup ends early, with an error of any call or with the
\* process; a crash leaves the job to be claimed again.
BackupFails ==
    /\ ~AtBack("idle")
    /\ count.faults < MaxFaults
    /\ count' = [count EXCEPT !.faults = @ + 1]
    /\ \E s \in Retried : bjobs' = [bjobs EXCEPT ![back.b] = s]
    /\ back' = NoBack
    /\ UNCHANGED <<live, inv, rows, objects, restoreVars>>

\* Mutant: what was collected is sealed whatever was expected.
MatchAnything ==
    /\ AtBack("match")
    /\ back' = [back EXCEPT !.pc = "put"]
    /\ UNCHANGED <<live, inv, rows, objects, bjobs, restoreVars, count>>

\* validateInventory: the same components, each once.
ValidInventory == In(back.got) = back.expected

\* MatchExpected, and again in the sealing: the collected components must be
\* the expected ones, or the attempt fails.
MatchExpected ==
    /\ AtBack("match")
    /\ \/ /\ ValidInventory
          /\ back' = [back EXCEPT !.pc = "put"]
          /\ UNCHANGED bjobs
       \/ /\ ~ValidInventory
          /\ back' = NoBack
          /\ \E s \in Retried : bjobs' = [bjobs EXCEPT ![back.b] = s]
    /\ UNCHANGED <<live, inv, rows, objects, restoreVars, count>>

\* SealHPM3WithRingToKey streams the manifest and the components into one
\* object and verifies it; how it gets there is the repository's.
Sealed == [b |-> back.b, parts |-> back.got]

Uploading(kind) == AtBack("put") /\ rows[back.b].destination = kind

Upload ==
    /\ objects' = [objects EXCEPT ![rows[back.b].key] = Sealed]
    /\ back' = [back EXCEPT !.pc = "reconcile"]
    /\ UNCHANGED <<live, inv, rows, bjobs, restoreVars, count>>

\* A staged file renamed into place,
PutLocal == Uploading("local") /\ Upload

\* one PUT of a spooled file,
PutS3 == Uploading("s3") /\ Upload

\* or a staged file renamed after the object of that name was removed.
RemoveSFTP ==
    /\ Uploading("sftp")
    /\ objects' = [objects EXCEPT ![rows[back.b].key] = NoObject]
    /\ back' = [back EXCEPT !.pc = "rename"]
    /\ UNCHANGED <<live, inv, rows, bjobs, restoreVars, count>>

RenameSFTP == AtBack("rename") /\ Upload

\* ReconcileUploaded verifies the object and the row is stored.
ReconcileUploaded ==
    /\ AtBack("reconcile")
    /\ rows' = [rows EXCEPT ![back.b].state = "succeeded"]
    /\ back' = [back EXCEPT !.pc = "done"]
    /\ UNCHANGED <<live, inv, objects, bjobs, restoreVars, count>>

BackupDone ==
    /\ AtBack("done")
    /\ bjobs' = [bjobs EXCEPT ![back.b] = "done"]
    /\ back' = NoBack
    /\ UNCHANGED <<live, inv, rows, objects, restoreVars, count>>

-----------------------------------------------------------------------------
(* The worker restores a backup.                                           *)

AtRest(pc) == rest.pc = pc
GotoRest(pc) == rest' = [rest EXCEPT !.pc = pc]
HPM3 == rest.b \notin Legacy
Content == rest.parts
Job(s) == rjobs' = [rjobs EXCEPT ![rest.q].pc = s]

\* The attempt ends with an error the retry may meet again.
Refuse ==
    /\ rest' = NoRest
    /\ \E s \in Retried : Job(s)

\* An HPM3 archive, and one of an earlier release: the components it holds.
OpenArchive(key) == objects[key].parts

\* restoreBackup reads the row, opens the object its key names now, and checks
\* the user name in its manifest.
OpenAny(q) ==
    /\ AtRest("idle")
    /\ rjobs[q].pc = "waiting"
    /\ LET key == rows[rjobs[q].b].key
       IN  IF There(key)
           THEN /\ rest' = [NoRest EXCEPT !.pc = "lookup", !.q = q, !.b = rjobs[q].b,
                                          !.key = key, !.parts = OpenArchive(key)]
                /\ rjobs' = [rjobs EXCEPT ![q].pc = "running"]
           ELSE /\ \E s \in Retried : rjobs' = [rjobs EXCEPT ![q].pc = s]
                /\ UNCHANGED rest
    /\ UNCHANGED <<live, inv, backupVars, restores, journal, count, hist>>

SameSource(r) == restores[r].b = rest.b /\ restores[r].key = rest.key

\* BeginRestore: the active restore, if it is of this backup and this object.
BeginRestore ==
    /\ AtRest("lookup")
    /\ \/ /\ ActiveRestores = {}
          /\ GotoRest("insert")
          /\ UNCHANGED rjobs
       \/ \E r \in ActiveRestores :
             IF SameSource(r)
             THEN /\ rest' = [rest EXCEPT !.pc = "journal", !.row = r]
                  /\ UNCHANGED rjobs
             ELSE Refuse
    /\ UNCHANGED <<live, inv, backupVars, restores, journal, count, hist>>

\* No restore is active: the worker makes a row of its own.
BeginOwnRestore ==
    /\ AtRest("insert")
    /\ Len(restores) < MaxRestores
    /\ \/ /\ InsertRestore([b |-> rest.b, key |-> rest.key, hash |-> TRUE,
                            state |-> "restore_requested"])
          /\ rest' = [rest EXCEPT !.pc = "journal", !.row = Len(restores) + 1]
          /\ UNCHANGED rjobs
       \/ /\ ActiveRestores # {}
          /\ Refuse
          /\ UNCHANGED restores
    /\ UNCHANGED <<live, inv, backupVars, journal, count, hist>>

RestorePin == [b |-> restores[rest.row].b, key |-> restores[rest.row].key,
               hash |-> restores[rest.row].hash]
HasCheckpoint(step) == step \in journal.steps
PinsMatch == journal.pin = RestorePin
CreateJournal == journal' = [there |-> TRUE, pin |-> RestorePin, steps |-> {}]
CheckpointStep(step) == journal' = [journal EXCEPT !.steps = @ \cup {step}]

\* OpenJournal, or CreateJournal where there is none.  Other pins are an error
\* only as long as nothing was staged.
OpenJournal ==
    /\ AtRest("journal")
    /\ \/ /\ ~journal.there
          /\ CreateJournal
          /\ GotoRest("maintenance") /\ UNCHANGED rjobs
       \/ /\ journal.there
          /\ PinsMatch \/ HasCheckpoint("staged")
          /\ GotoRest("maintenance") /\ UNCHANGED <<journal, rjobs>>
       \/ /\ journal.there
          /\ ~PinsMatch /\ ~HasCheckpoint("staged")
          /\ Refuse
          /\ UNCHANGED journal
    /\ UNCHANGED <<live, inv, backupVars, restores, count, hist>>

RowState(s) == restores' = [restores EXCEPT ![rest.row].state = s]

\* The checkpoint in the file and the state of the row.
EnterMaintenance ==
    /\ AtRest("maintenance")
    /\ IF HasCheckpoint("maintenance") THEN UNCHANGED <<journal, restores>>
       ELSE /\ CheckpointStep("maintenance")
            /\ RowState("maintenance")
    /\ GotoRest("stage")
    /\ UNCHANGED <<live, inv, backupVars, rjobs, count, hist>>

\* Mutant: a staged restore is taken for one that is done.
StageOnce ==
    /\ AtRest("stage")
    /\ IF HPM3 /\ HasCheckpoint("staged")
       THEN GotoRest("verify") /\ UNCHANGED journal
       ELSE /\ IF HPM3 THEN CheckpointStep("staged") ELSE UNCHANGED journal
            /\ GotoRest("each")
    /\ UNCHANGED <<live, inv, backupVars, restores, rjobs, count, hist>>

\* restoreHPM3: a journal with the home's checkpoint is taken for a restore
\* that is done.  The older formats have no staging.
Stage ==
    /\ AtRest("stage")
    /\ IF HPM3 /\ HasCheckpoint("staged") /\ HasCheckpoint("home")
       THEN GotoRest("verify") /\ UNCHANGED journal
       ELSE /\ IF HPM3 THEN CheckpointStep("staged") ELSE UNCHANGED journal
            /\ GotoRest("each")
    /\ UNCHANGED <<live, inv, backupVars, restores, rjobs, count, hist>>

\* Unpacking over a tree, and running a dump against a database, may stop half
\* way.
UnpackDirectory(c) == {live[c], Mixed}
RestoreHostedDatabase(c) == {live[c], Mixed}

\* nextFrame: the components come in the order of the manifest.
Component == Order[rest.i]
AfterComponent == rest' = [rest EXCEPT !.i = @ + 1,
                               !.pc = IF rest.i = Len(Order) THEN "verify" ELSE "each"]

\* Each goes through the archive; a component with a checkpoint is skipped.
\* Only the home has one in the older formats.
Pending(c) == c \in In(Content) /\ ~(HasCheckpoint(c) /\ (HPM3 \/ c = "home"))

SkipComponent ==
    /\ AtRest("each")
    /\ ~Pending(Component)
    /\ AfterComponent
    /\ UNCHANGED <<live, inv, backupVars, restores, rjobs, journal, count, hist>>

\* The component is in place.  A database gets its row if it has none.
Switched(c) ==
    /\ AtRest("each")
    /\ Component = c /\ Pending(c)
    /\ live' = [live EXCEPT ![c] = Content[c]]
    /\ hist' = [hist EXCEPT !.put[rest.row] = @ \cup {c}]
    /\ GotoRest("commit")
    /\ UNCHANGED <<backupVars, restores, rjobs, journal, count>>

RestoreHomeTar == Switched("home") /\ UNCHANGED inv
EnsureHostedDBOnHost == inv' = inv \cup {"db"}
RestoreDatabaseDumps == Switched("db") /\ EnsureHostedDBOnHost
RestoreMailboxTrees == Switched("mail") /\ UNCHANGED inv

CommitComponent ==
    /\ AtRest("commit")
    /\ IF HPM3 \/ Component = "home" THEN CheckpointStep(Component) ELSE UNCHANGED journal
    /\ AfterComponent
    /\ UNCHANGED <<live, inv, backupVars, restores, rjobs, count, hist>>

FailRollback == CheckpointStep("manual_intervention")
FailRestore == RowState("manual_intervention")

\* FailRollback and FailRestore: the component failed, half written or not, and
\* the file and the row ask for an operator.  The job is retried all the same.
FailComponent ==
    /\ AtRest("each")
    /\ Pending(Component)
    /\ count.faults < MaxFaults
    /\ count' = [count EXCEPT !.faults = @ + 1]
    /\ \E v \in IF Component = "db" THEN RestoreHostedDatabase(Component)
                ELSE UnpackDirectory(Component) :
          live' = [live EXCEPT ![Component] = v]
    /\ FailRollback
    /\ FailRestore
    /\ hist' = [hist EXCEPT !.late = @ \/ HasCheckpoint("home")]
    /\ Refuse
    /\ UNCHANGED <<inv, backupVars>>

\* The checkpoint restore_verifying; the mail maps and WordPress follow.
VerifyRestore ==
    /\ AtRest("verify")
    /\ CheckpointStep("restore_verifying")
    /\ GotoRest("complete")
    /\ UNCHANGED <<live, inv, backupVars, restores, rjobs, count, hist>>

\* Mutant: the journal is removed once it has served.
CompleteAndRemove ==
    /\ AtRest("complete")
    /\ journal' = NoJournal
    /\ GotoRest("finish")
    /\ UNCHANGED <<live, inv, backupVars, restores, rjobs, count, hist>>

CompleteJournal ==
    /\ AtRest("complete")
    /\ CheckpointStep("complete")
    /\ GotoRest("finish")
    /\ UNCHANGED <<live, inv, backupVars, restores, rjobs, count, hist>>

FinishRestore ==
    /\ AtRest("finish")
    /\ RowState("complete")
    /\ GotoRest("done")
    /\ UNCHANGED <<live, inv, backupVars, rjobs, journal, count, hist>>

RestoreDone ==
    /\ AtRest("done")
    /\ Job("done")
    /\ rest' = NoRest
    /\ UNCHANGED <<live, inv, backupVars, restores, journal, count, hist>>

\* The process dies in a restore, or a call fails between the components: the
\* journal and the rows stay as they are.
RestoreStops ==
    /\ ~AtRest("idle")
    /\ count.faults < MaxFaults
    /\ count' = [count EXCEPT !.faults = @ + 1]
    /\ \E s \in Retried : Job(s)
    /\ rest' = NoRest
    /\ hist' = [hist EXCEPT !.late = @ \/ HasCheckpoint("home")]
    /\ UNCHANGED <<live, inv, backupVars, restores, journal>>

-----------------------------------------------------------------------------
User == \E c \in Components : WriteData(c) \/ ChangeInventory(c)
API == \/ \E b \in Backups, d \in Destinations : CreateBackup(b, d)
       \/ \E b \in Backups, q \in Requests : RestoreBackup(q, b)
       \/ \E q \in Requests : CreateRestoreWithJob(q)
BackupJob == \/ \E b \in Backups : StartBackup(b)
             \/ CollectPart \/ MatchExpected \/ PutLocal \/ PutS3 \/ RemoveSFTP
             \/ RenameSFTP \/ ReconcileUploaded \/ BackupDone \/ BackupFails
RestoreJob == \/ \E q \in Requests : OpenAny(q)
              \/ BeginRestore \/ BeginOwnRestore \/ OpenJournal \/ EnterMaintenance
              \/ Stage \/ SkipComponent \/ RestoreHomeTar \/ RestoreDatabaseDumps
              \/ RestoreMailboxTrees \/ CommitComponent \/ FailComponent
              \/ VerifyRestore \/ CompleteJournal \/ FinishRestore \/ RestoreDone
              \/ RestoreStops

Next == User \/ API \/ BackupJob \/ RestoreJob

Spec == Init /\ [][Next]_vars

-----------------------------------------------------------------------------
(* Properties.                                                             *)

\* Two requests and a worker that makes a row of its own never leave an account
\* with two restores that are both under way, although each of them looks for
\* an active restore in a statement of its own.
OneActiveRestore == Cardinality(ActiveRestores) <= 1

\* A backup that is shown as succeeded has an object that was sealed for it,
\* whichever attempts were cut short before, and even when the job runs again
\* after it succeeded.  Two backups that ran in one second had one object key,
\* and the second wrote over the first: the key's backups are left aside, even
\* when the second has moved on to another key since.
SucceededIsWhole ==
    \A b \in Backups \ Legacy :
        rows[b].state = "succeeded" /\ rows[b].key \notin hist.shared
        => objects[rows[b].key].b = b /\ "home" \in In(objects[rows[b].key].parts)

\* A backup job only seals what the panel listed when the attempt began: a
\* database or a mailbox that came or went meanwhile fails the attempt.
SealsWhatWasListed ==
    [][\A k \in Keys : objects'[k] # objects[k] /\ objects'[k] # NoObject
                       => In(objects'[k].parts) = back.expected]_vars

\* Every backup the panel offers is whole: its object was sealed for it, with
\* the components that were listed when its attempt began (worker.go,
\* createBackup; internal/backup/reconcile.go).
BackupsAreWhole == []SucceededIsWhole /\ SealsWhatWasListed

\* A job that runs again after its restore was reported complete puts nothing
\* over the data the user has written since.  Archives of the older formats
\* have no checkpoints for databases and mailboxes and are left aside.
FinishedRestoreNotRepeated ==
    [][rest.q \in Requests /\ HPM3 /\ hist'.put # hist.put
       => restores[rjobs[rest.q].row].state # "complete"]_vars

Completes(r) == restores[r].state # "complete" /\ restores'[r].state = "complete"
PutInPlace(r) == In(Content) \subseteq hist.put[r]

\* The first restore of an account, once complete, has put every component of
\* its backup in place, however often it was resumed, if no attempt ended after
\* the home's checkpoint.
ResumedRestoreIsWhole ==
    [][\A r \in {1} \cap DOMAIN restores : Completes(r) /\ ~hist.late => PutInPlace(r)]_vars

\* The remediation plan: "Restore recovery survives restart at every journal
\* boundary without silently leaving mixed data."  A restore that is shown as
\* complete has put every component of its backup in place.
NoSilentlyMixedData == [][\A r \in DOMAIN restores : Completes(r) => PutInPlace(r)]_vars
=============================================================================
