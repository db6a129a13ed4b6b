--------------------------- MODULE DatabaseHosting ---------------------------
(***************************************************************************)
(* The databases of one account and its WordPress: the rows requests       *)
(* change, the worker's provisionDB, deleteDB, installWordPress and        *)
(* syncWordPressDatabase with the credentials they share                   *)
(* (internal/job/worker.go), and what the agent does to the database       *)
(* servers, one statement at a time, and to the files of WordPress         *)
(* (agent/operations/runtime.go, wordpress.go).                            *)
(*                                                                         *)
(* One worker process runs; requests commit between any two of its steps.  *)
(* An account has one user per engine, for all its databases.  Retiring an *)
(* account leaves its databases and users on the servers, so a new account *)
(* of the same name may find them: the model starts either way.            *)
(***************************************************************************)
EXTENDS Integers, Sequences

CONSTANTS MaxChanges,    \* bound: requests
          MaxAttempts,   \* max_attempts of a job (5 in the code)
          MaxFailures    \* bound: failed calls and crashes

VARIABLES rows,       \* the tables
          host,       \* the database servers and the account's files
          jobs,       \* jobs that wait, the one that runs left out
          worker,     \* where the attempt is
          changes,    \* bound: requests so far; numbers jobs and rows
          failures,   \* bound: failed calls and crashes so far
          stale,      \* history: engines where an attempt that had to reset
                      \* the password ended before it had
          lost        \* history: a job failed for good, or an error was
                      \* dropped

vars == <<rows, host, jobs, worker, changes, failures, stale, lost>>

Names == {"main", "wp", "pg"}
Engines == {"mariadb", "postgres"}
Engine(n) == IF n = "pg" THEN "postgres" ELSE "mariadb"
\* The users a server knows: of MariaDB one for each way to connect.
Users == {"localhost", "loopback", "role"}
UsersOf(e) == IF e = "postgres" THEN {"role"} ELSE {"localhost", "loopback"}
NoRow == [id |-> 0, status |-> "none"]
Statuses == {"none", "provisioning", "active", "terminating"}
Former == 1    \* the password of the former account's users

Types == {"database.provision", "database.delete", "wordpress.install"}
Steps == {"idle", "creds", "create", "put", "syncCreds", "syncCreate",
          "syncConfig", "count", "drop", "delRow", "archive", "unpack",
          "tables", "putApp"}

TypeOK ==
    /\ rows \in [db : [Names -> [id : Nat, status : Statuses]],
                 pw : [Engines -> Nat], app : {"none", "provisioning", "running"}]
    /\ host \in [db : SUBSET Names, user : [Users -> Nat], note : [Names -> Nat],
                 cache : {"none", "partial", "whole"},
                 files : {"none", "partial", "whole"}, config : Nat]
    /\ \A j \in jobs : j.type \in Types /\ j.attempts \in 0..MaxAttempts
    /\ worker.pc \in Steps
    /\ changes \in 0..MaxChanges /\ failures \in 0..MaxFailures
    /\ stale \subseteq Engines /\ lost \in BOOLEAN

Init ==
    /\ rows = [db |-> [n \in Names |-> NoRow], pw |-> [e \in Engines |-> 0],
               app |-> "none"]
    /\ \E former \in {0, Former} :
         host = [db |-> {}, user |-> [u \in Users |-> former],
                 note |-> [n \in Names |-> 0], cache |-> "none",
                 files |-> "none", config |-> 0]
    /\ jobs = {} /\ worker = [pc |-> "idle"]
    /\ changes = 0 /\ failures = 0 /\ stale = {} /\ lost = FALSE

-----------------------------------------------------------------------------
(* Requests: a row and its job in one transaction.                         *)

Enqueue(type, n, id) ==
    /\ changes < MaxChanges /\ changes' = changes + 1
    /\ jobs' = jobs \cup {[n |-> changes + 1, type |-> type, name |-> n,
                           id |-> id, attempts |-> 0]}
    /\ UNCHANGED <<host, worker, failures, stale, lost>>

\* A name is taken once.
CreateDB(n) ==
    /\ rows.db[n] = NoRow
    /\ rows' = [rows EXCEPT !.db[n] = [id |-> changes + 2,
                                       status |-> "provisioning"]]
    /\ Enqueue("database.provision", n, changes + 2)

RequestDelete(n) ==
    /\ rows.db[n] # NoRow
    /\ rows' = [rows EXCEPT !.db[n].status = "terminating"]
    /\ Enqueue("database.delete", n, rows.db[n].id)

QueueWordPress ==
    /\ rows.app = "none"
    /\ rows' = [rows EXCEPT !.app = "provisioning"]
    /\ Enqueue("wordpress.install", "wp", 0)

Request == \/ \E n \in Names : CreateDB(n) \/ RequestDelete(n)
           \/ QueueWordPress

-----------------------------------------------------------------------------
(* How an attempt goes on and ends.                                        *)

Goto(step) == /\ worker' = [worker EXCEPT !.pc = step]
              /\ UNCHANGED <<jobs, failures, lost>>
Done == worker' = [pc |-> "idle"] /\ UNCHANGED <<jobs, failures, lost>>
Fails == failures < MaxFailures /\ failures' = failures + 1
Ends == /\ worker' = [pc |-> "idle"]
        /\ IF worker.job.attempts >= MaxAttempts
           THEN lost' = TRUE /\ UNCHANGED jobs
           ELSE jobs' = jobs \cup {worker.job} /\ UNCHANGED lost
Retry == Fails /\ Ends
Dropped(step) == /\ Fails /\ lost' = TRUE /\ UNCHANGED jobs
                 /\ worker' = IF step = "idle" THEN [pc |-> "idle"]
                              ELSE [worker EXCEPT !.pc = step]

E == Engine(worker.job.name)

Claim ==
    /\ worker.pc = "idle"
    /\ \E j \in jobs :
        LET Start(step) ==
                /\ worker' = [pc |-> step, job |-> [j EXCEPT !.attempts = @ + 1],
                              pw |-> 0, reset |-> FALSE, dropUser |-> FALSE]
                /\ UNCHANGED lost
            found == rows.db[j.name].id = j.id
        IN /\ jobs' = jobs \ {j}
           /\ CASE j.type = "wordpress.install" -> Start("creds")
                [] j.type = "database.provision" /\ found -> Start("creds")
                [] j.type = "database.provision" /\ ~found ->
                       lost' = TRUE /\ UNCHANGED worker
                [] j.type = "database.delete" /\ found -> Start("count")
                [] j.type = "database.delete" /\ ~found ->
                       UNCHANGED <<worker, lost>>
    /\ UNCHANGED <<rows, host, changes, failures, stale>>

Resetting == worker.pc = "create" /\ worker.reset

Crash ==
    /\ worker.pc # "idle"
    /\ Retry
    /\ stale' = IF Resetting THEN stale \cup {E} ELSE stale
    /\ UNCHANGED <<rows, host, changes>>

-----------------------------------------------------------------------------
(* Credentials, and the databases.                                         *)

\* hostedDBCredentials: the stored password, or a new one, stored before the
\* server knows it, that the server's user is to be reset to.
Credentials(e, next) ==
    LET new == changes + 2 IN
    /\ worker' = [worker EXCEPT !.pc = next, !.reset = rows.pw[e] = 0,
                     !.pw = IF rows.pw[e] = 0 THEN new ELSE rows.pw[e]]
    /\ rows' = [rows EXCEPT !.pw[e] = IF @ = 0 THEN new ELSE @]
    /\ UNCHANGED <<host, jobs, changes, failures, stale, lost>>

HostedDBCredentials == worker.pc = "creds" /\ Credentials(E, "create")

\* The statements of createHostedDatabase, in their order.  A user that exists
\* keeps its password unless the statements alter it.
Statements(e, reset) ==
    CASE e = "postgres" /\ ~reset -> <<<<"user", "role">>, <<"db", "role">>>>
      [] e = "postgres" /\ reset ->
           <<<<"user", "role">>, <<"alter", "role">>, <<"db", "role">>>>
      [] e = "mariadb" /\ ~reset ->
           <<<<"db", "localhost">>, <<"user", "localhost">>, <<"user", "loopback">>>>
      [] e = "mariadb" /\ reset ->
           <<<<"db", "localhost">>, <<"user", "localhost">>, <<"alter", "localhost">>,
             <<"user", "loopback">>, <<"alter", "loopback">>>>

\* The server after the statements of a set.
Executed(name, pw, done) ==
    [host EXCEPT
        !.db = IF \E s \in done : s[1] = "db" THEN @ \cup {name} ELSE @,
        !.user = [u \in Users |->
                     IF <<"alter", u>> \in done \/ (<<"user", u>> \in done /\ @[u] = 0)
                     THEN pw ELSE @[u]]]

\* They run one after the other, up to the first that fails; PostgreSQL's
\* about its user may fail unnoticed.
CreateHostedDatabase(e, name, reset, next, fail) ==
    LET stmts == Statements(e, reset)
        After(n) == Executed(name, worker.pw, {stmts[i] : i \in 1..n})
    IN \/ /\ host' = After(Len(stmts)) /\ Goto(next)
          /\ stale' = IF reset THEN stale \ {e} ELSE stale
       \/ \E n \in 0..(Len(stmts) - 1) :
            /\ host' = After(n) /\ fail
            /\ stale' = IF Resetting THEN stale \cup {e} ELSE stale
       \/ /\ e = "postgres"
          /\ host' = [host EXCEPT !.db = @ \cup {name}] /\ Dropped(next)
          /\ UNCHANGED stale

Create ==
    /\ worker.pc = "create"
    /\ CreateHostedDatabase(E, worker.job.name, worker.reset, "put", Retry)
    /\ UNCHANGED <<rows, changes>>

\* The note for the owner, whose failure is dropped, and the row, active.
\* installWordPress adds a row when there is none and leaves one alone.
Put ==
    /\ worker.pc = "put"
    /\ LET n == worker.job.name
           wp == worker.job.type = "wordpress.install"
           next == IF wp THEN "archive" ELSE "syncCreds"
       IN /\ \/ host' = [host EXCEPT !.note[n] = worker.pw] /\ Goto(next)
             \/ UNCHANGED host /\ Dropped(next)
          /\ rows' = IF ~wp \/ rows.db[n] = NoRow
                     THEN [rows EXCEPT !.db[n].status = "active",
                                       !.db[n].id = IF wp THEN changes + 2
                                                    ELSE worker.job.id]
                     ELSE rows
    /\ UNCHANGED <<changes, stale>>

\* syncWordPressDatabase: MariaDB's user is made to have the stored password,
\* on some database of the account or its WordPress one, and the
\* configurations get it too; nothing that fails here is noticed.
SyncCredentials == worker.pc = "syncCreds" /\ Credentials("mariadb", "syncCreate")

SyncCreate ==
    /\ worker.pc = "syncCreate"
    /\ LET own == {n \in Names : rows.db[n] # NoRow /\ Engine(n) = "mariadb"} IN
       \E n \in (IF own = {} THEN {"wp"} ELSE own) :
           CreateHostedDatabase("mariadb", n, TRUE, "syncConfig",
                                Dropped("syncConfig"))
    /\ UNCHANGED <<rows, changes>>

SyncWordPressDatabase ==
    /\ worker.pc = "syncConfig"
    /\ \/ /\ host' = [host EXCEPT !.config = IF @ = 0 THEN 0 ELSE worker.pw]
          /\ Done
       \/ UNCHANGED host /\ Dropped("idle")
    /\ UNCHANGED <<rows, changes, stale>>

\* Mutant: the user goes with any database.
CountNone ==
    /\ worker.pc = "count"
    /\ worker' = [worker EXCEPT !.pc = "drop", !.dropUser = TRUE]
    /\ UNCHANGED <<rows, host, jobs, changes, failures, stale, lost>>

\* deleteDB: the user goes with the account's last database.
Count ==
    /\ worker.pc = "count"
    /\ worker' = [worker EXCEPT !.pc = "drop",
                     !.dropUser = \A n \in Names \ {worker.job.name} :
                                      rows.db[n] = NoRow]
    /\ UNCHANGED <<rows, host, jobs, changes, failures, stale, lost>>

\* Mutant: what the server answers is dropped.
DropUnchecked ==
    /\ worker.pc = "drop"
    /\ host' \in {host, [host EXCEPT !.db = @ \ {worker.job.name}]}
    /\ Goto("delRow")
    /\ UNCHANGED <<rows, changes, stale>>

\* MariaDB's user is dropped for one of the two ways to connect.
DropHostedDatabase ==
    /\ worker.pc = "drop"
    /\ LET dropped == [host EXCEPT !.db = @ \ {worker.job.name}]
           user == IF E = "postgres" THEN "role" ELSE "localhost"
       IN \/ /\ host' = IF worker.dropUser THEN [dropped EXCEPT !.user[user] = 0]
                        ELSE dropped
             /\ Goto("delRow")
          \/ host' \in {host, dropped} /\ Retry
    /\ UNCHANGED <<rows, changes, stale>>

\* The note is removed, best effort, and the row.
DeleteRow ==
    /\ worker.pc = "delRow"
    /\ host' = [host EXCEPT !.note[worker.job.name] = 0]
    /\ rows' = [rows EXCEPT !.db[worker.job.name] =
                    IF @.id = worker.job.id THEN NoRow ELSE @]
    /\ Done
    /\ UNCHANGED <<changes, stale>>

-----------------------------------------------------------------------------
(* WordPress.                                                              *)

\* wordpressArchive: whatever the cache has, or a download into the cache,
\* which leaves what it got when it fails.
WordpressArchive ==
    /\ worker.pc = "archive"
    /\ \/ host.cache # "none" /\ Goto("unpack") /\ UNCHANGED host
       \/ /\ host.cache = "none"
          /\ \/ host' = [host EXCEPT !.cache = "whole"] /\ Goto("unpack")
             \/ host' \in {host, [host EXCEPT !.cache = "partial"]} /\ Retry
    /\ UNCHANGED <<rows, changes, stale>>

\* Mutant: the end of a partial archive is taken for the end of the archive.
UnpackPartial ==
    /\ worker.pc = "unpack"
    /\ host' = [host EXCEPT !.files = host.cache, !.config = worker.pw]
    /\ Goto("tables")
    /\ UNCHANGED <<rows, changes, stale>>

\* The archive is unpacked beside the document root and copied over it, and
\* the configuration is written; a partial archive ends in an error.
Unpack ==
    /\ worker.pc = "unpack"
    /\ \/ /\ host.cache = "whole"
          /\ host' = [host EXCEPT !.files = "whole", !.config = worker.pw]
          /\ Goto("tables")
       \/ /\ host.cache = "whole"
          /\ host' \in {host, [host EXCEPT !.files = "partial"],
                        [host EXCEPT !.files = "whole"]}
          /\ Retry
       \/ /\ host.cache = "partial" /\ Ends /\ UNCHANGED <<host, failures>>
    /\ UNCHANGED <<rows, changes, stale>>

\* finishWordPressTables runs WordPress's own installer, which connects.
FinishWordPressTables ==
    /\ worker.pc = "tables"
    /\ \/ /\ host.user["loopback"] = host.config /\ "wp" \in host.db
          /\ Goto("putApp") \/ Retry
       \/ /\ host.user["loopback"] # host.config \/ "wp" \notin host.db
          /\ Ends /\ UNCHANGED failures
    /\ UNCHANGED <<rows, host, changes, stale>>

\* The site is applied again, best effort (module SiteHosting), and the
\* application's row is written.
PutApp ==
    /\ worker.pc = "putApp"
    /\ rows' = [rows EXCEPT !.app = "running"]
    /\ Done
    /\ UNCHANGED <<host, changes, stale>>

Work == \/ HostedDBCredentials \/ Create \/ Put \/ SyncCredentials \/ SyncCreate
        \/ SyncWordPressDatabase \/ Count \/ DropHostedDatabase \/ DeleteRow
        \/ WordpressArchive \/ Unpack \/ FinishWordPressTables \/ PutApp

Next == Request \/ Claim \/ Crash \/ Work

Spec == Init /\ [][Next]_vars

-----------------------------------------------------------------------------
Settled == worker.pc = "idle" /\ jobs = {} /\ ~lost

\* Once every job has succeeded, the stored password opens every active
\* database, in every way to connect, although attempts died between the
\* statements: the user never goes while a database needs it, and a user of a
\* former account is reset unless the attempt that was to reset it died.
PasswordOpensDatabases ==
    Settled => \A n \in Names :
        rows.db[n].status = "active" /\ Engine(n) \notin stale =>
            /\ n \in host.db
            /\ \A u \in UsersOf(Engine(n)) : host.user[u] = rows.pw[Engine(n)]

\* A deletion that succeeded took the database away, whatever order the jobs
\* ran in; only the one syncWordPressDatabase makes by itself has no row.
NoDatabaseBeyondRows ==
    Settled => \A n \in host.db : rows.db[n] # NoRow \/ n = "wp"

\* A WordPress the panel shows running was unpacked from a whole archive, and
\* its configuration has the password of the server, although the archive is
\* cached as it arrives and the user is shared with the other databases.
RunningWordPressIsWhole ==
    rows.app = "running" => /\ host.files = "whole"
                            /\ host.config = host.user["loopback"]
=============================================================================
