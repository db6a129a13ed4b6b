--------------------------- MODULE ResourceRequests ---------------------------
(***************************************************************************)
(* The requests that create, change and delete the resources of an account *)
(* (internal/httpserver/api.go, host_ops.go, account_files.go) on the two  *)
(* stores they run on (internal/store/async_atomic.go,                     *)
(* resource_atomic.go, postgres.go, memory.go).                            *)
(*                                                                         *)
(* A handler checks its request against the store (ownership, names,       *)
(* package limits) and then makes one transaction: the row, the job and    *)
(* the audit event, or the job an earlier request with the same            *)
(* Idempotency-Key left.  Other requests run between the two.  Three       *)
(* handlers have more steps: deleteApp writes the row and the job one      *)
(* after the other, the SSH handlers list the keys and write them to the   *)
(* host after the change, writeFile measures the disk before it writes.    *)
(*                                                                         *)
(* A refused request changes nothing and is no step.  Names stand for      *)
(* domain names, local parts, user names and SSH keys alike.  An account   *)
(* begins with one resource of each kind but databases, named after it,    *)
(* and a mailing list.  One has an addon domain with a site as well, id 0. *)
(***************************************************************************)
EXTENDS Integers, FiniteSets

CONSTANTS Clients,     \* concurrent requests, one of a client at a time
          Accounts,
          AddonOwner,  \* the account with an addon domain
          Access,      \* the accounts each client's user may act on
          Names,
          DomainTypes, \* the types createDomain is asked for
          Keys,        \* Idempotency-Keys
          NoKey,       \* no Idempotency-Key header
          Package,     \* the limit of each kind of resource; 0 is unlimited
          MaxRequests  \* bound: requests that pass their checks

\* What a package limits, and how much of it an account begins with at most.
Limited == {"domain", "subdomain", "alias_domain", "website", "app", "db", "dbuser",
            "mailbox", "cron", "ftp", "disk"}
InitiallyUsed(k) == IF k \in {"domain", "website"} THEN 2
                    ELSE IF k \in {"app", "mailbox", "cron", "ftp"} THEN 1 ELSE 0

\* The ids of resources are unique, and the accounts begin within their package.
ASSUME RequestsAssumption ==
    /\ IsFiniteSet(Clients) /\ Clients # {} /\ IsFiniteSet(Accounts)
    /\ NoKey \notin Keys /\ MaxRequests \in Nat
    /\ \A a \in Accounts : a \notin Nat /\ a # "staff" /\ a # "addon"
    /\ Access \in [Clients -> SUBSET Accounts] /\ AddonOwner \in Accounts
    /\ Package \in [Limited -> Nat]
    /\ \A k \in Limited : Package[k] # 0 => Package[k] >= InitiallyUsed(k)

VARIABLES backend,    \* the store of this server: "pg" or "memory"
          rows,       \* the table of each kind
          jobs,       \* the jobs inserted
          audits,     \* the jobs that have an audit event
          disk,       \* the space each account's home takes
          authorized, \* the authorized_keys file of each account
          req,        \* each client's request in progress
          served,     \* bound: requests so far, and the next new id
          raced,      \* history: a request changed what another had checked
          faulted     \* history: a crash, or a failed call of the agent

vars == <<backend, rows, jobs, audits, disk, authorized, req, served, raced, faulted>>

Tables == {"domain", "website", "app", "db", "dbuser", "maildomain",
           "mailbox", "alias", "cron", "ftp", "ssh"}
InitialIds == Accounts \cup {0}
Ids == InitialIds \cup (1 .. MaxRequests)
Idle == [step |-> "idle"]

Domain == [id : Ids, acc : Accounts, name : Names \cup Accounts \cup {"addon"},
           type : DomainTypes \cup {"primary", "addon"},
           status : {"provisioning", "active", "terminating"}, rev : Nat]
Website == [id : Ids, acc : Accounts, of : Ids, enabled : BOOLEAN, rev : Nat]
Application == [id : Ids, acc : Accounts, of : Ids,
                status : {"provisioning", "active", "retiring"}]
HostedDatabase == [id : Ids, acc : Accounts, name : Names,
                   status : {"provisioning", "active", "terminating"}]
MailDomain == [id : Ids, acc : Accounts, catchall : Names \cup {"reject"}]
Mailbox == [id : Ids, acc : Accounts, of : Ids, name : Names \cup Accounts]
MailAlias == [id : Ids, acc : Accounts, of : Ids, name : Names \cup {"staff"},
              dest : Names \cup Accounts, list : BOOLEAN]
CronJob == [id : Ids, acc : Accounts]
FTPAccount == [id : Ids, acc : Accounts, name : Names \cup Accounts]

Of(a, kind) == {x \in rows[kind] : x.acc = a}
ById(id, kind) == {x \in rows[kind] : x.id = id}
Put(kind, x) == [rows EXCEPT ![kind] = {y \in @ : y.id # x.id} \cup {x}]
Remove(kind, x) == [rows EXCEPT ![kind] = {y \in @ : y.id # x.id}]

-----------------------------------------------------------------------------
(* The checks of the handlers. *)

\* a limit of 0 is no limit
WithinLimit(used, kind) == Package[kind] = 0 \/ used < Package[kind]

DomainKind(type) == IF type = "subdomain" THEN "subdomain"
                    ELSE IF type = "alias" THEN "alias_domain" ELSE "domain"
CountDomains(a, kind) == Cardinality({d \in Of(a, "domain") : DomainKind(d.type) = kind})
EnforceDomainLimit(a, type) == WithinLimit(CountDomains(a, DomainKind(type)), DomainKind(type))
\* Mutant: the limit itself may be reached once more.
EnforceUpToLimit(a, kind) == Package[kind] = 0 \/ Cardinality(Of(a, kind)) <= Package[kind]
EnforceCountLimit(a, kind) == WithinLimit(Cardinality(Of(a, kind)), kind)
\* a home that cannot be measured counts as full
EnforceDiskQuota(a, size) == Package["disk"] = 0 \/ disk[a] + size <= Package["disk"]

\* Mutant: only aliases are looked at.
AliasFree(a, md, local) == \A l \in Of(a, "alias") : ~(l.of = md /\ l.name = local)
LocalPartFree(a, md, local) ==
    /\ \A b \in Of(a, "mailbox") : ~(b.of = md /\ b.name = local)
    /\ \A l \in Of(a, "alias") : ~(l.of = md /\ l.name = local)

\* the user of c may act on the account, and the request passed its checks
RequireAccount(c, a) == a \in Access[c]

Accept(c, a, kind, how, row, key) ==
    /\ req[c] = Idle /\ served < MaxRequests
    /\ RequireAccount(c, a)
    /\ req' = [req EXCEPT ![c] = [step |-> "commit", acc |-> a, kind |-> kind, how |-> how,
                                  row |-> row, key |-> key, stale |-> FALSE]]
    /\ served' = served + 1
    /\ UNCHANGED <<backend, rows, jobs, audits, disk, authorized, raced, faulted>>

New == served + 1

-----------------------------------------------------------------------------
(* The handlers up to their transaction. *)

CreateDomain(c) == \E a \in Accounts, n \in Names, t \in DomainTypes, k \in Keys \cup {NoKey} :
    /\ \A d \in rows["domain"] : d.name # n
    /\ EnforceDomainLimit(a, t)
    /\ Accept(c, a, "domain", "create",
              [id |-> New, acc |-> a, name |-> n, type |-> t, status |-> "provisioning", rev |-> 1], k)

\* Mutant: the account of the domain is not compared.
DeleteAnyDomain(c) == \E a \in Accounts, d \in rows["domain"], k \in Keys \cup {NoKey} :
    /\ d.type # "primary"
    /\ Accept(c, a, "domain", "update", [d EXCEPT !.status = "terminating", !.rev = @ + 1], k)

DeleteDomain(c) == \E a \in Accounts, d \in rows["domain"], k \in Keys \cup {NoKey} :
    /\ d.acc = a
    /\ d.type # "primary"
    /\ Accept(c, a, "domain", "update", [d EXCEPT !.status = "terminating", !.rev = @ + 1], k)

\* An existing site of the domain is changed; else a new one is counted.  The
\* owner of the domain is only asked for in the first case.
CreateWebsite(c) == \E a \in Accounts, d \in rows["domain"], k \in Keys \cup {NoKey} :
    LET existing == {w \in Of(a, "website") : w.of = d.id} IN
    \/ /\ d.acc = a
       /\ \E w \in existing : Accept(c, a, "website", "upsert", [w EXCEPT !.rev = @ + 1], k)
    \/ /\ d.acc # a \/ existing = {}
       /\ WithinLimit(Cardinality(Of(a, "website")), "website")
       /\ Accept(c, a, "website", "upsert",
                 [id |-> New, acc |-> a, of |-> d.id, enabled |-> TRUE, rev |-> 1], k)

DeleteWebsite(c) == \E a \in Accounts, w \in rows["website"], k \in Keys \cup {NoKey} :
    /\ w.acc = a
    /\ \A d \in ById(w.of, "domain") : d.type # "primary"
    /\ Accept(c, a, "website", "upsert", [w EXCEPT !.enabled = FALSE, !.rev = @ + 1], k)

CreateApp(c) == \E a \in Accounts, w \in rows["website"], k \in Keys \cup {NoKey} :
    /\ w.acc = a
    /\ EnforceCountLimit(a, "app")
    /\ Accept(c, a, "app", "upsert",
              [id |-> New, acc |-> a, of |-> w.id, status |-> "provisioning"], k)

\* queueWordPressInstall counts before it looks at the site
InstallWordPress(c) == \E a \in Accounts, k \in Keys \cup {NoKey} : \E w \in Of(a, "website") :
    /\ EnforceCountLimit(a, "app")
    /\ Accept(c, a, "app", "upsert",
              [id |-> New, acc |-> a, of |-> w.id, status |-> "provisioning"], k)

DeleteApp(c) == \E a \in Accounts, x \in rows["app"], k \in Keys \cup {NoKey} :
    /\ x.acc = a
    /\ Accept(c, a, "app", "retire", [x EXCEPT !.status = "retiring"], k)

\* createDB counts first, and adds the account's user when there is none
CreateDB(c) == \E a \in Accounts, n \in Names, k \in Keys \cup {NoKey} :
    /\ EnforceCountLimit(a, "db")
    /\ Of(a, "dbuser") = {} => EnforceCountLimit(a, "dbuser")
    /\ Accept(c, a, "db", IF Of(a, "dbuser") = {} THEN "createWithUser" ELSE "create",
              [id |-> New, acc |-> a, name |-> n, status |-> "provisioning"], k)

DeleteDB(c) == \E a \in Accounts, d \in rows["db"], k \in Keys \cup {NoKey} :
    /\ d.acc = a
    /\ Accept(c, a, "db", "terminate", d, k)

PatchMailDomain(c) == \E a \in Accounts, md \in rows["maildomain"], n \in Names, k \in Keys \cup {NoKey} :
    /\ md.acc = a
    /\ Accept(c, a, "maildomain", "upsert", [md EXCEPT !.catchall = n], k)

CreateMailbox(c) == \E a \in Accounts, n \in Names \cup Accounts, k \in Keys \cup {NoKey} : \E md \in Of(a, "maildomain") :
    LET existing == {b \in Of(a, "mailbox") : b.of = md.id /\ b.name = n} IN
    \/ \E b \in existing : Accept(c, a, "mailbox", "upsert", b, k)
    \/ /\ LocalPartFree(a, md.id, n)
       /\ EnforceCountLimit(a, "mailbox")
       /\ Accept(c, a, "mailbox", "upsert", [id |-> New, acc |-> a, of |-> md.id, name |-> n], k)

\* refused when a plain alias leads to the local part, of whatever domain
AliasDestination(a, local) == \E l \in Of(a, "alias") : ~l.list /\ l.dest = local
DeleteMailbox(c) == \E a \in Accounts, b \in rows["mailbox"], k \in Keys \cup {NoKey} :
    /\ b.acc = a
    /\ ~AliasDestination(a, b.name)
    /\ Accept(c, a, "mailbox", "delete", b, k)

CreateMailAlias(c) == \E a \in Accounts, n \in Names, to \in Names \cup Accounts, k \in Keys \cup {NoKey} : \E md \in Of(a, "maildomain") :
    /\ to # n
    /\ LocalPartFree(a, md.id, n)
    /\ Accept(c, a, "alias", "upsert",
              [id |-> New, acc |-> a, of |-> md.id, name |-> n, dest |-> to, list |-> FALSE], k)

DeleteMailAlias(c) == \E a \in Accounts, l \in rows["alias"], k \in Keys \cup {NoKey} :
    /\ l.acc = a
    /\ Accept(c, a, "alias", "delete", l, k)

CreateMailingList(c) == \E a \in Accounts, n, to \in Names, k \in Keys \cup {NoKey} : \E md \in Of(a, "maildomain") :
    /\ LocalPartFree(a, md.id, n)
    /\ Accept(c, a, "alias", "upsert",
              [id |-> New, acc |-> a, of |-> md.id, name |-> n, dest |-> to, list |-> TRUE], k)

UpdateMailingList(c) == \E a \in Accounts, l \in rows["alias"], to \in Names, k \in Keys \cup {NoKey} :
    /\ l.acc = a /\ l.list
    /\ Accept(c, a, "alias", "upsert", [l EXCEPT !.dest = to], k)

DeleteMailingList(c) == \E a \in Accounts, l \in rows["alias"], k \in Keys \cup {NoKey} :
    /\ l.acc = a /\ l.list
    /\ Accept(c, a, "alias", "delete", l, k)

CreateCron(c) == \E a \in Accounts, k \in Keys \cup {NoKey} :
    /\ EnforceCountLimit(a, "cron")
    /\ Accept(c, a, "cron", "upsert", [id |-> New, acc |-> a], k)

DeleteCron(c) == \E a \in Accounts, x \in rows["cron"], k \in Keys \cup {NoKey} :
    /\ x.acc = a
    /\ Accept(c, a, "cron", "delete", x, k)

CreateFTP(c) == \E a \in Accounts, n \in Names \cup Accounts, k \in Keys \cup {NoKey} :
    LET existing == {f \in Of(a, "ftp") : f.name = n} IN
    \/ \E f \in existing : Accept(c, a, "ftp", "upsert", f, k)
    \/ /\ \A f \in rows["ftp"] : f.name # n
       /\ EnforceCountLimit(a, "ftp")
       /\ Accept(c, a, "ftp", "upsert", [id |-> New, acc |-> a, name |-> n], k)

DeleteFTP(c) == \E a \in Accounts, k \in Keys \cup {NoKey} :
    \E f \in Of(a, "ftp") : Accept(c, a, "ftp", "delete", f, k)

CreateSSH(c) == \E a \in Accounts, n \in Names :
    Accept(c, a, "ssh", "put", [id |-> New, acc |-> a, name |-> n], NoKey)

DeleteSSH(c) == \E a \in Accounts, s \in rows["ssh"] :
    /\ s.acc = a
    /\ Accept(c, a, "ssh", "drop", s, NoKey)

WriteFile(c) == \E a \in Accounts :
    /\ EnforceDiskQuota(a, 1)
    /\ Accept(c, a, "disk", "write", [acc |-> a], NoKey)

DeleteFile(c) == \E a \in Accounts :
    /\ disk[a] > 0
    /\ Accept(c, a, "disk", "erase", [acc |-> a], NoKey)

\* asks for the settings capability of the server, not for an account
EnsurePHPRuntime(c) == \E a \in Accounts, k \in Keys \cup {NoKey} :
    /\ Access[c] = Accounts
    /\ Accept(c, a, "php", "enqueue", [id |-> New, acc |-> a], k)

-----------------------------------------------------------------------------
(* The transactions.  Each is accepted or refused by the constraints of the  *)
(* tables in PostgreSQL, and by what the function checks in memory.          *)

\* c's request moves on; the others in progress have checked an older store
Continue(c, next) ==
    /\ req' = [d \in Clients |-> IF d = c THEN next
                                 ELSE IF req[d] = Idle THEN Idle
                                 ELSE [req[d] EXCEPT !.stale = TRUE]]
    /\ raced' = (raced \/ req[c].stale)
Over(c) == Continue(c, Idle)

\* Mutant: no replay is found.
NoReplay(key) == FALSE
JobReplay(key) == key # NoKey /\ \E j \in jobs : j.key = key

NewJob(r) == [n |-> Cardinality(jobs) + 1, key |-> r.key, kind |-> r.kind, how |-> r.how,
              acc |-> r.acc, res |-> r.row.id,
              rev |-> IF r.kind \in {"domain", "website"} THEN r.row.rev ELSE 0]

\* Mutant: the row is written before the key is looked up.
CommitBeforeReplay(c, accepted, new) ==
    LET r == req[c]
        fresh == ~JobReplay(r.key) /\ accepted
    IN /\ rows' = IF accepted THEN new ELSE rows
       /\ jobs' = IF fresh THEN jobs \cup {NewJob(r)} ELSE jobs
       /\ audits' = IF fresh THEN audits \cup {NewJob(r).n} ELSE audits
       /\ Over(c)
       /\ UNCHANGED <<backend, disk, authorized, served, faulted>>

\* the earlier job of the key, or the row, the job and the audit event together
CommitResourceMutation(c, accepted, new) ==
    LET r == req[c]
        fresh == ~JobReplay(r.key) /\ accepted
    IN /\ rows' = IF fresh THEN new ELSE rows
       /\ jobs' = IF fresh THEN jobs \cup {NewJob(r)} ELSE jobs
       /\ audits' = IF fresh THEN audits \cup {NewJob(r).n} ELSE audits
       /\ Over(c)
       /\ UNCHANGED <<backend, disk, authorized, served, faulted>>

Commits(c, kind, hows) == req[c] # Idle /\ req[c].step = "commit" /\ req[c].kind = kind /\ req[c].how \in hows
PG == backend = "pg"

PgCreateDomain(x) == \A d \in rows["domain"] : d.name # x.name
MemCreateDomain(x) == \A d \in rows["domain"] : d.id # x.id /\ d.name # x.name
CreateDomainWithJob(c) ==
    /\ Commits(c, "domain", {"create"})
    /\ LET x == req[c].row IN
       CommitResourceMutation(c, IF PG THEN PgCreateDomain(x) ELSE MemCreateDomain(x), Put("domain", x))

PgUpdateDomain(x) == \E d \in rows["domain"] : d.id = x.id /\ d.acc = x.acc
MemUpdateDomain(x) == \E d \in ById(x.id, "domain") : d.acc = x.acc
UpdateDomainWithJob(c) ==
    /\ Commits(c, "domain", {"update"})
    /\ LET x == req[c].row IN
       CommitResourceMutation(c, IF PG THEN PgUpdateDomain(x) ELSE MemUpdateDomain(x), Put("domain", x))

\* Mutant: the reference is to any domain.
PgUpsertAnyWebsite(x) == ById(x.of, "domain") # {}
\* PostgreSQL refers account and domain of a site together to a domain
PgUpsertWebsite(x) == \E d \in rows["domain"] : d.id = x.of /\ d.acc = x.acc
MemUpsertWebsite(x) == \E d \in ById(x.of, "domain") : d.acc = x.acc
UpsertWebsiteWithJob(c) ==
    /\ Commits(c, "website", {"upsert"})
    /\ LET x == req[c].row IN
       CommitResourceMutation(c, IF PG THEN PgUpsertWebsite(x) ELSE MemUpsertWebsite(x), Put("website", x))

PgUpsertApplication(x) == ById(x.of, "website") # {}
MemUpsertApplication(x) == \E w \in ById(x.of, "website") : w.acc = x.acc
UpsertApplicationWithJob(c) ==
    /\ Commits(c, "app", {"upsert"})
    /\ LET x == req[c].row IN
       CommitResourceMutation(c, IF PG THEN PgUpsertApplication(x) ELSE MemUpsertApplication(x), Put("app", x))

\* a second user of the account is left out in PostgreSQL, added in memory
PgDatabaseUsers(x) == IF Of(x.acc, "dbuser") = {} THEN {[id |-> x.id, acc |-> x.acc]} ELSE {}
MemDatabaseUsers(x) == {[id |-> x.id, acc |-> x.acc]}
UpsertDatabaseWithJob(c) ==
    /\ Commits(c, "db", {"create", "createWithUser"})
    /\ LET x == req[c].row
           users == IF req[c].how = "create" THEN {}
                    ELSE IF PG THEN PgDatabaseUsers(x) ELSE MemDatabaseUsers(x)
       IN CommitResourceMutation(c, PG => \A d \in rows["db"] : d.name # x.name \/ d.acc # x.acc,
             [Put("db", x) EXCEPT !["dbuser"] = @ \cup users])

DatabaseFound(x) == \E d \in ById(x.id, "db") : d.acc = x.acc
DeleteDatabaseWithJob(c) ==
    /\ Commits(c, "db", {"terminate"})
    /\ LET x == req[c].row IN
       CommitResourceMutation(c, DatabaseFound(x), Put("db", [x EXCEPT !.status = "terminating"]))

UpsertMailDomainWithJob(c) ==
    /\ Commits(c, "maildomain", {"upsert"})
    /\ CommitResourceMutation(c, TRUE, Put("maildomain", req[c].row))

\* Mutant: no unique index on the address.
PgUpsertAnyMailbox(x) == TRUE
\* in memory two mailboxes may have one address
PgUpsertMailbox(x) == \A b \in rows["mailbox"] : b.of = x.of /\ b.name = x.name => b.id = x.id
MemUpsertMailbox(x) == \E md \in ById(x.of, "maildomain") : md.acc = x.acc
UpsertMailboxWithJob(c) ==
    /\ Commits(c, "mailbox", {"upsert"})
    /\ LET x == req[c].row IN
       CommitResourceMutation(c, IF PG THEN PgUpsertMailbox(x) ELSE MemUpsertMailbox(x), Put("mailbox", x))

MailboxFound(x) == \E b \in ById(x.id, "mailbox") : b.acc = x.acc
DeleteMailboxWithJob(c) ==
    /\ Commits(c, "mailbox", {"delete"})
    /\ LET x == req[c].row IN CommitResourceMutation(c, MailboxFound(x), Remove("mailbox", x))

MemUpsertMailAlias(x) == \E md \in ById(x.of, "maildomain") : md.acc = x.acc
UpsertMailAliasWithJob(c) ==
    /\ Commits(c, "alias", {"upsert"})
    /\ LET x == req[c].row IN
       CommitResourceMutation(c, ~PG => MemUpsertMailAlias(x), Put("alias", x))

AliasFound(x) == \E l \in ById(x.id, "alias") : l.acc = x.acc
DeleteMailAliasWithJob(c) ==
    /\ Commits(c, "alias", {"delete"})
    /\ LET x == req[c].row IN CommitResourceMutation(c, AliasFound(x), Remove("alias", x))

UpsertCronWithJob(c) ==
    /\ Commits(c, "cron", {"upsert"})
    /\ CommitResourceMutation(c, TRUE, Put("cron", req[c].row))

CronFound(x) == \E j \in ById(x.id, "cron") : j.acc = x.acc
DeleteCronWithJob(c) ==
    /\ Commits(c, "cron", {"delete"})
    /\ LET x == req[c].row IN CommitResourceMutation(c, CronFound(x), Remove("cron", x))

FTPNameFree(x) == \A f \in rows["ftp"] : f.name = x.name => f.id = x.id
UpsertFTPWithJob(c) ==
    /\ Commits(c, "ftp", {"upsert"})
    /\ LET x == req[c].row IN CommitResourceMutation(c, FTPNameFree(x), Put("ftp", x))

FTPFound(x) == \E f \in ById(x.id, "ftp") : f.acc = x.acc
DeleteFTPWithJob(c) ==
    /\ Commits(c, "ftp", {"delete"})
    /\ LET x == req[c].row IN CommitResourceMutation(c, FTPFound(x), Remove("ftp", x))

EnqueueJobWithAudit(c) ==
    /\ Commits(c, "php", {"enqueue"})
    /\ CommitResourceMutation(c, TRUE, rows)

-----------------------------------------------------------------------------
(* The handlers of several steps, and faults. *)

\* deleteApp marks the application, then enqueues the job
PutApp(c) ==
    /\ Commits(c, "app", {"retire"})
    /\ rows' = Put("app", req[c].row)
    /\ Continue(c, [req[c] EXCEPT !.step = "enqueue"])
    /\ UNCHANGED <<backend, jobs, audits, disk, authorized, served, faulted>>
EnqueueRetire(c) ==
    LET r == req[c]
        fresh == ~JobReplay(r.key)
    IN /\ r # Idle /\ r.step = "enqueue"
       /\ jobs' = IF fresh THEN jobs \cup {NewJob(r)} ELSE jobs
       /\ audits' = IF fresh THEN audits \cup {NewJob(r).n} ELSE audits
       /\ Over(c)
       /\ UNCHANGED <<backend, rows, disk, authorized, served, faulted>>

\* PutSSH drops the error when the key is known, of whatever account
PutSSH(c) ==
    /\ Commits(c, "ssh", {"put"})
    /\ rows' = IF PG /\ \E s \in rows["ssh"] : s.name = req[c].row.name
               THEN rows ELSE Put("ssh", req[c].row)
    /\ Continue(c, [req[c] EXCEPT !.step = "list"])
    /\ UNCHANGED <<backend, jobs, audits, disk, authorized, served, faulted>>
\* Mutant: the keys of the host are not written again.
DropSSHRow(c) ==
    /\ Commits(c, "ssh", {"drop"})
    /\ rows' = Remove("ssh", req[c].row)
    /\ Over(c)
    /\ UNCHANGED <<backend, jobs, audits, disk, authorized, served, faulted>>
DropSSH(c) ==
    /\ Commits(c, "ssh", {"drop"})
    /\ rows' = Remove("ssh", req[c].row)
    /\ Continue(c, [req[c] EXCEPT !.step = "list"])
    /\ UNCHANGED <<backend, jobs, audits, disk, authorized, served, faulted>>

\* applyAuthorizedKeys lists the keys, then hands the agent the whole file;
\* its error is dropped
ListSSH(c) ==
    /\ req[c] # Idle /\ req[c].step = "list"
    /\ Continue(c, [req[c] EXCEPT !.step = "apply",
                                  !.row = {s.name : s \in Of(req[c].acc, "ssh")}])
    /\ UNCHANGED <<backend, rows, jobs, audits, disk, authorized, served, faulted>>
ApplyAuthorizedKeys(c) ==
    /\ req[c] # Idle /\ req[c].step = "apply"
    /\ authorized' = [authorized EXCEPT ![req[c].acc] = req[c].row]
    /\ Over(c)
    /\ UNCHANGED <<backend, rows, jobs, audits, disk, served, faulted>>

StoreFile(c) ==
    /\ Commits(c, "disk", {"write", "erase"})
    /\ disk' = [disk EXCEPT ![req[c].acc] =
                   IF req[c].how = "write" THEN @ + 1 ELSE IF @ = 0 THEN 0 ELSE @ - 1]
    /\ Over(c)
    /\ UNCHANGED <<backend, rows, jobs, audits, authorized, served, faulted>>

\* the transaction or the call of the agent fails, or the process dies
Fail(c) ==
    /\ req[c] # Idle
    /\ req' = [req EXCEPT ![c] = Idle]
    /\ faulted' = TRUE
    /\ UNCHANGED <<backend, rows, jobs, audits, disk, authorized, served, raced>>

Init ==
    /\ backend \in {"pg", "memory"}
    /\ rows = [k \in Tables |->
         CASE k = "domain" -> {[id |-> a, acc |-> a, name |-> a, type |-> "primary",
                                status |-> "active", rev |-> 1] : a \in Accounts}
                             \cup {[id |-> 0, acc |-> AddonOwner, name |-> "addon", type |-> "addon",
                                    status |-> "active", rev |-> 1]}
           [] k = "website" -> {[id |-> a, acc |-> a, of |-> a, enabled |-> TRUE, rev |-> 1] : a \in Accounts}
                              \cup {[id |-> 0, acc |-> AddonOwner, of |-> 0, enabled |-> TRUE, rev |-> 1]}
           [] k = "maildomain" -> {[id |-> a, acc |-> a, catchall |-> "reject"] : a \in Accounts}
           [] k = "mailbox" -> {[id |-> a, acc |-> a, of |-> a, name |-> a] : a \in Accounts}
           [] k = "alias" -> {[id |-> a, acc |-> a, of |-> a, name |-> "staff", dest |-> a, list |-> TRUE] : a \in Accounts}
           [] k = "app" -> {[id |-> a, acc |-> a, of |-> a, status |-> "active"] : a \in Accounts}
           [] k = "cron" -> {[id |-> a, acc |-> a] : a \in Accounts}
           [] k \in {"ftp", "ssh"} -> {[id |-> a, acc |-> a, name |-> a] : a \in Accounts}
           [] k \in {"db", "dbuser"} -> {}]
    /\ jobs = {} /\ audits = {}
    /\ disk = [a \in Accounts |-> 0]
    /\ authorized = [a \in Accounts |-> {a}]
    /\ req = [c \in Clients |-> Idle]
    /\ served = 0 /\ raced = FALSE /\ faulted = FALSE

Domains(c) == CreateDomain(c) \/ DeleteDomain(c) \/ CreateDomainWithJob(c) \/ UpdateDomainWithJob(c)
Websites(c) == CreateWebsite(c) \/ DeleteWebsite(c) \/ UpsertWebsiteWithJob(c)
Apps(c) == \/ CreateApp(c) \/ InstallWordPress(c) \/ DeleteApp(c)
           \/ UpsertApplicationWithJob(c) \/ PutApp(c) \/ EnqueueRetire(c)
Databases(c) == CreateDB(c) \/ DeleteDB(c) \/ UpsertDatabaseWithJob(c) \/ DeleteDatabaseWithJob(c)
Mail(c) == \/ PatchMailDomain(c) \/ UpsertMailDomainWithJob(c)
           \/ CreateMailbox(c) \/ DeleteMailbox(c) \/ UpsertMailboxWithJob(c) \/ DeleteMailboxWithJob(c)
           \/ CreateMailAlias(c) \/ DeleteMailAlias(c)
           \/ CreateMailingList(c) \/ UpdateMailingList(c) \/ DeleteMailingList(c)
           \/ UpsertMailAliasWithJob(c) \/ DeleteMailAliasWithJob(c)
Crons(c) == CreateCron(c) \/ DeleteCron(c) \/ UpsertCronWithJob(c) \/ DeleteCronWithJob(c)
FTP(c) == CreateFTP(c) \/ DeleteFTP(c) \/ UpsertFTPWithJob(c) \/ DeleteFTPWithJob(c)
SSH(c) == \/ CreateSSH(c) \/ DeleteSSH(c) \/ PutSSH(c) \/ DropSSH(c)
          \/ ListSSH(c) \/ ApplyAuthorizedKeys(c)
Files(c) == WriteFile(c) \/ DeleteFile(c) \/ StoreFile(c)
Runtime(c) == EnsurePHPRuntime(c) \/ EnqueueJobWithAudit(c)

Next == \E c \in Clients :
    \/ Domains(c) \/ Websites(c) \/ Apps(c) \/ Databases(c) \/ Mail(c)
    \/ Crons(c) \/ FTP(c) \/ SSH(c) \/ Files(c) \/ Runtime(c) \/ Fail(c)

Spec == Init /\ [][Next]_vars

-----------------------------------------------------------------------------
(* Properties. *)

\* Every variable holds the records the code can store: rows with the statuses
\* and revisions the handlers write, of known accounts.
TypeOK ==
    /\ backend \in {"pg", "memory"}
    /\ rows["domain"] \subseteq Domain /\ rows["website"] \subseteq Website
    /\ rows["app"] \subseteq Application /\ rows["db"] \subseteq HostedDatabase
    /\ rows["maildomain"] \subseteq MailDomain /\ rows["mailbox"] \subseteq Mailbox
    /\ rows["alias"] \subseteq MailAlias /\ rows["ftp"] \subseteq FTPAccount
    /\ rows["cron"] \cup rows["dbuser"] \subseteq CronJob
    /\ audits \subseteq 1 .. Cardinality(jobs)
    /\ disk \in [Accounts -> Nat] /\ authorized \in [Accounts -> SUBSET (Names \cup Accounts)]
    /\ served \in 0 .. MaxRequests

\* commitResourceMutation, its form in memory and EnqueueJob look the key up
\* and insert in one step: requests with one key that race leave one job.
OneJobPerKey == \A i, j \in jobs : i.key = j.key /\ i.key # NoKey => i = j

\* What a request changed and the job that carries it to the host are committed
\* together, with an audit event: every new row has a job, a domain and a site
\* one for its very revision, a database being removed one that removes it.
\* (deleteApp is the exception: it enqueues after it has written.)
ChangeHasJob ==
    /\ \A k \in {"domain", "website"} : \A x \in rows[k] :
          x.id \notin InitialIds \/ x.rev > 1 => \E j \in jobs : j.kind = k /\ j.res = x.id /\ j.rev = x.rev
    /\ \A k \in {"app", "db", "mailbox", "alias", "cron", "ftp"} : \A x \in rows[k] :
          x.id \notin InitialIds => \E j \in jobs : j.kind = k /\ j.res = x.id /\ j.acc = x.acc
    /\ \A x \in rows["db"] : x.status = "terminating" =>
          \E j \in jobs : j.res = x.id /\ j.how = "terminate"
    /\ audits = {j.n : j \in jobs}

\* A request commits as a whole and once, whichever requests with the same key
\* race with it and wherever it fails: its rows, one job for them and the audit
\* event, or nothing (resource_atomic.go, commitResourceMutation).
RequestCommitsWhole == OneJobPerKey /\ ChangeHasJob

\* The handlers look for a name and insert later; the unique indexes of
\* PostgreSQL decide between two that found the same name free.
NamesUnique == backend = "pg" =>
    /\ \A k \in {"domain", "ftp", "ssh"} : \A x, y \in rows[k] : x.name = y.name => x = y
    /\ \A x, y \in rows["mailbox"] : x.of = y.of /\ x.name = y.name => x = y
    /\ \A x, y \in rows["db"] : x.acc = y.acc /\ x.name = y.name => x = y
    /\ \A x, y \in rows["dbuser"] : x.acc = y.acc => x = y

\* createWebsite takes the id of any domain: a site on the domain of another
\* account is refused by the store, whatever the handler let through.
SiteOnOwnDomain == \A w \in rows["website"] :
    \E d \in rows["domain"] : d.id = w.of /\ d.acc = w.acc

\* The limits are checked before the transaction.  They hold while no two
\* requests overlapped; when some did, they are exceeded by no more than the
\* requests beyond one that can overlap.
Used(a, k) == IF k = "disk" THEN disk[a]
              ELSE IF k \in {"domain", "subdomain", "alias_domain"} THEN CountDomains(a, k)
              ELSE Cardinality(Of(a, k))
OvershootOnlyByOverlap == \A a \in Accounts, k \in DOMAIN Package :
    Package[k] # 0 => Used(a, k) <= Package[k] + IF raced THEN Cardinality(Clients) - 1 ELSE 0

\* While no two requests overlapped, the rows that only the handlers keep apart
\* are apart: no local part is both a mailbox and an alias or two aliases, no
\* domain has two sites.
SerialRowsApart == ~raced =>
    /\ \A x, y \in rows["alias"] : x.of = y.of /\ x.name = y.name => x = y
    /\ \A x \in rows["alias"], b \in rows["mailbox"] : ~(x.of = b.of /\ x.name = b.name)
    /\ \A v, w \in rows["website"] : v.of = w.of => v = w

\* With no overlap and no fault the authorized_keys file has the keys of the
\* table when the requests are over.
KeysApplied == ~raced /\ ~faulted /\ (\A c \in Clients : req[c] = Idle) =>
    \A a \in Accounts : authorized[a] = {s.name : s \in Of(a, "ssh")}

\* What handlers check before they write holds of the rows in the end: names
\* and the owner of a site's domain by the store's own constraints, whatever
\* overlapped, the rest while requests did not overlap (api.go, postgres.go).
RowsAgree == NamesUnique /\ SiteOnOwnDomain /\ SerialRowsApart /\ KeysApplied

\* A step changes rows of one account only, and only for a request on that
\* account of a user who may act on it, whatever ids the request names.
OwnAccountOnly == [][\A k \in Tables :
    \A x \in (rows[k] \ rows'[k]) \cup (rows'[k] \ rows[k]) :
        \E c \in Clients : req[c] # Idle /\ req[c].acc = x.acc /\ x.acc \in Access[c]]_rows
=============================================================================
