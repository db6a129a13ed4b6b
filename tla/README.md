# Formal models of the Kelmor control plane

This directory holds TLA+ specifications of the parts of Kelmor in which order,
concurrency and failure decide whether the panel tells the truth about the
host: the durable job queue, the fencing of privileged calls, the requests of
the API, the jobs of accounts, certificates, zones, mail, sites, databases,
metering and lists, backup and restore, the installer and the switch to a new
release. TLC checks them on small instances; TLAPS proves the safety of the queue,
the agent's fencing, the requests, accounts, zones, certificates, backups and
restores, updates and the SMTP policy for every size.

Source paths below are relative to the root of the repository.

## 1. The system

    portals, CLI ──HTTP──> API ──one transaction──> PostgreSQL <── worker ──unix socket──> agent ──> host
                            (resource, job, audit)   jobs, fences   claims     fenced calls    (root)

The API (`internal/httpserver`) records what is wanted: a row of the resource,
a job and an audit entry, in one transaction. A worker (`internal/job`) claims
jobs one at a time and calls the agent (`agent/operations`), which runs as root
and changes the host. Nothing is rolled back when a job fails: jobs are retried
and write the whole state of their resource again. `panel-updater` and the
installer run beside this, with files and locks of their own.

### Inventory

| Part | State | Operations | What is hard |
|---|---|---|---|
| Job queue (`internal/store/postgres.go`, `fence.go`, `internal/job/worker.go`) | `jobs`, `resource_fences`; each worker's copy of the row | enqueue, claim, start, heartbeat, update, finish, expire, cancel, retry | a paused worker outlives its lease; whole rows are written back; a crash between any two statements |
| Agent fencing (`agent/operations/ops.go`, `fence.go`) | fences in memory, `fences.json`, calls being served | accept, run, remember, persist, restart | a goroutine per connection; check and store are apart; the file is rewritten in place |
| Account lifecycle (`api.go`, `worker.go`, `postgres.go`) | `accounts` row, the Linux user, jobs, idempotency keys | create, modify, suspend, unsuspend, terminate, remove, rotate password, reconcile, retire, purge, drift scan | the worker writes a copy as old as the attempt; the API commits in between |
| Certificates (`worker.go`, `internal/acme`) | `certificates` row, jobs by idempotency key | request, queue, scan, issue, fail | three sources of jobs, keys that are used once |
| DNS zones (`worker.go`, `internal/dns`, `async_atomic.go`) | `dns_zones`, `dns_records`, zone file, DNSSEC state | record change, DNSSEC request, publish, acknowledge | records change after they were listed; revisions move during the call |
| Release updates (`internal/update`, `cmd/panel-updater`) | installed files, `current-release`, `.update-transaction`, `rollback/`, running services | install, check, apply, rollback, recover | a crash between two renames, in a rollback or in the removal of the journal |
| Requests (`internal/httpserver/api.go`, `host_ops.go`, `internal/store/*_atomic*.go`) | rows of domains, sites, applications, databases, mailboxes, aliases, FTP, cron, SSH keys; jobs, audit, idempotency keys | check, commit, replay, write keys and files | handlers check before the transaction; two stores with different constraints; two requests with one key |
| Backup and restore (`internal/backup`, `worker.go`, `agent/operations/archive.go`, `dump.go`) | `backup_runs`, `restore_journals`, objects, `restore.journal`, components' data | create, collect, seal, upload, reconcile, stage, switch, roll back, complete | switch and checkpoint are apart; several components; the inventory moves |
| Installer (`installer/phases`, `cmd/panel-install`, `internal/credentials`) | `install-state.json`, secrets, what the phases make of the host | run, skip, check, apply, verify, set password | a phase half done; what was lost after it; dropped errors |
| Mail stack (`internal/mail`, `worker.go`, `agent/operations/stack.go`, `dkim.go`) | mail rows, maps of the whole host, DKIM keys | requests, apply maps, make homes, sign, delete a domain | snapshots of all accounts written under one account's fence |
| SMTP policy (`internal/mail/policy.go`) | a locked count per account and day | ask, count, decide | rewritten in place; midnight; every error lets mail through |
| Websites and applications (`worker.go`, `agent/operations/nginx.go`, `retire.go`) | rows, nginx files, units, a journal of retirement | create, provision, redeploy, retire, delete with the domain | deletions in several steps, stale rows |
| Databases and WordPress (`worker.go`, `agent/operations/runtime.go`, `wordpress.go`) | rows, databases, a shared user and its passwords, the cached archive | create, delete, install, sync | statements fail midway; the user is shared |
| Usage and limits (`worker.go`, `agent/operations/usage.go`, `bandwidth.go`, `quota.go`) | access log, checkpoint, month's total, usage row, marks of a full home | measure, store, hold, lock | checkpoint before total; two processes; months and logs turn |
| FTP and cron (`worker.go`, `agent/operations/ftp.go`, `stack.go`) | login list of the host, a file per login, two cron files | change, list, write | lists from rows read before; dropped errors |
| Account import (`internal/migration`) | import rows | inspect, import | formats |
| Filesystem access, object store, authentication, schema migrations | handles, objects, sessions, versions | open, put, log in, migrate | path rules, lockout |
| Portals and CLI | none that outlives a request | call the API | |
| Configuration, firewall, inventory, monitoring | none | formatting and reading | nothing that changes state |

`PROJECT.json` lists every part with its status, and under `hazards` the lines
at which these difficulties bite, with the properties that watch them.

### What makes each part correct

* Job queue: one outcome per attempt, recorded by the holder of the current
  fence; fences that are never shared; bounded retries; every job settles.
* Agent: the newest claim always gets through, older ones do not once it has.
* Account, zone: when the queue is empty, the host is as the panel shows it;
  the loops come to rest.
* Certificate: one order at a time from the background.
* Requests: a request commits whole and once; limits, names and owners hold as
  far as the store and the handlers keep them; no request touches another
  account.
* Backup and restore: what is offered as a backup is whole; one restore at a
  time; a resumed restore puts everything in place once.
* Mail, sites, lists: once the jobs have succeeded, the host has what the rows
  say; what overlap can lose is lost only by overlap; deletions leave nothing.
* Databases: the stored password opens them; WordPress runs from a whole archive.
* Metering: bytes are counted once, and what was counted is enforced.
* Installer: success means installed, and no state stops a later run.
* Updates: whatever was cut short, one release is installed and runs.

## 2. Modules

| Module | Models | Composes |
|---|---|---|
| `JobQueue` | the tables, the worker processes, expiry, cancel and retry | |
| `JobLifecycle` | what the queue promises: submit, grant, settle, revoke, cancel | implemented by `JobQueue` |
| `FencedEffects` | the agent and the calls workers send it | extends `JobQueue` |
| `AccountReconcile` | one account, its clients, its jobs and the worker | |
| `CertificateRenewal` | one certificate and the sources of its jobs | |
| `ZonePublish` | one zone, its records, its requests and the worker | |
| `UpdateApply` | the installed files and the commands of `panel-updater` | |
| `ResourceRequests` | the API's handlers for the resources of accounts, on both stores | |
| `BackupRestore` | backups and restores of one account | |
| `Installer` | the runs of `panel-install` | |
| `MailHosting`, `SmtpPolicy`, `SiteHosting`, `DatabaseHosting`, `UsageLimits`, `HostLists` | the hosted services | |
| `MCJobQueue`, `MCFencedEffects`, `MCAccountReconcile`, `MCResourceRequests` | functions and symmetry sets for TLC | |
| `MCDomainServices` | one instance of a zone and a certificate | extends `ZonePublish`, `CertificateRenewal` |
| `InstallUpdate` | the programs root starts, side by side | extends `Installer`, `UpdateApply` |
| `MCInstallUpdate` | one instance of them | extends `InstallUpdate` |
| `Hosting` | the hosted services side by side, and what they promise together | extends `SmtpPolicy`, instantiates the other five |
| `MCHosting` | one instance of them | extends `Hosting` |
| `JobQueueProofs` | the theorems about the queue, alone and with the agent | extends `FencedEffects` |
| `ResourceRequestsProofs`, `AccountReconcileProofs`, `BackupRestoreProofs` | the theorems about a module | extends it |
| `InstallUpdateProofs` | the theorems about the updater and the installer | extends `InstallUpdate` |
| `HostingSiteProofs` | the invariant of the sites | extends `Hosting` |
| `HostingProofs` | the invariants of the other hosted services, and the theorems | extends `HostingSiteProofs` |
| `DomainServicesProofs` | the theorems about zones and certificates | extends both modules |

`MCDomainServices`, `InstallUpdate` and `Hosting` put models side by side
that share no state: a behaviour is one of a single part, so the states add up
instead of multiplying. The properties are stated in the modules of the parts;
`InstallUpdate` and `Hosting` join those that say the same of several.

### How they correspond to the code

**JobQueue.** Every SQL statement is one action, and a process may be
overtaken between any two. `jobs` is the table, `resFence` the
`resource_fences` table, and `workers` what each process has: its step, the job,
and the columns of its copy that it writes back. `ClaimJob` takes the first due
row in the order of the query, under a new resource fence; an expiry raises the
row's fence, which takes it away from the process. `UpdateJob` writes the copy under
`acceptJobMutation`, with the copy's stale lease and cleared cancel request.
Instants are the time left until they pass. All processes of a host sign with
the same name, as `os.Hostname` gives it, so the fence alone tells them apart.

**FencedEffects.** A call is what one goroutine of the agent is doing. It is
sent under the fence of the claim, compared with the record (`AcceptFence`),
run, recorded (`RememberFence`) and written (`PersistFences`); other calls and
the queue take steps in between. A call outlives the worker that sent it. The
file write may fail, which the code ignores, and a restart may find it
truncated. What a method does on the host is success or failure.

**AccountReconcile.** The row is reduced to status and revisions, the host to
the Linux user: absent, open or locked. API requests read and then write, and
the write compares the revision. The worker's attempt is
`StartAttempt`, `CreateLinuxUser`, `EnsureStacks`, `ApplyStatus`, `Recheck`,
`AcknowledgeRevision`, `FinishProvision`, or the retirement and the purge; each
reads or writes the row where `provisionAccount` and `retireAccount` do. An
attempt may die (`Crash`) or lose its context (`StopAttempt`), in which case
calls fail and writes to the row go on. Fencing is left to `JobQueue`: one
worker process runs here, as deployed.

**CertificateRenewal.** Jobs are told apart by their idempotency key, because
a key decides whether one comes into being: `cert-provision:<id>` once,
`cert-renew:<id>:<day>` once per certificate, the API's once per request.
`EnsureCertificate` is the provisioning of a domain, `ScanCertRenewals` the
two scans, taken as one step because one goroutine runs them and the jobs. Time
is counted in periods, in each of which the worker scans.

**ZonePublish.** Records are a version number, the zone file a version and a
serial. A job refreshes its copy, lists the records, writes the file, marks the
zone published, writes the DNSSEC state and stores its copy, each a step of its
own. `OwnRecords` and `PutOwn` are the records that the worker adds (service
records, DKIM).

**UpdateApply.** A release is a number and a file's content the release it
came with. The journal is a set of entries (metadata, marker, copies), because
`removeTree` takes them away one by one and a crash in between leaves some.
Every step of a command may fail (`StepFails`, with what the caller does then)
or be cut off by `Crash`. Schema files are switched and never restored.

**ResourceRequests.** A handler is two steps: `Accept` with all its checks
(owner, names, limits), which fixes what the request is about, and the commit of
row, job and audit event, which runs the store's own constraints. Other requests
run in between. `backend` says which store serves: PostgreSQL with its unique
indexes, or the in-memory one without. `deleteApp` enqueues after it has
written; the SSH handlers list and then write `authorized_keys`; `writeFile`
measures before it writes. `Fail` ends a request before or after its commit.
`raced` remembers that a request changed what another had checked, which is
what the properties about handlers' checks leave out.

**BackupRestore.** The data of a component is a version. A backup lists the
inventory, collects part by part while the user goes on, compares what it has
with a second look at the rows, and uploads to one of the repositories, each with
its own steps. A restore opens the object, pins it in the journal, stages,
switches component by component with a checkpoint after each, verifies and
completes, in the file journal and the row; a failure in a component rolls that
component back or leaves it `Mixed` and asks for manual intervention. Archives of
the formats before HPM3 take the paths `restoreBackup` has for them. An object
key is made of the time in seconds, so that two backups that begin in one second
have one key and the second writes over the first; `hist.shared` remembers such
keys, and `BackupsAreWhole` leaves their backups aside.

**Installer.** A phase is the list of its effects, each of which establishes a
fact of the host for a configuration: a file, a user, a running service. `Apply`
takes the next effect of a phase (`run.at` is its place), `ApplyWithFault` lets it
fail or be the last before a crash, with errors dropped where the code drops
them, and after the last effect `Applied` goes on to the verification.
`Lose` takes a fact away between runs. A phase is skipped when the state file
says so and its verify function holds, which looks at some of its facts.

**MailHosting.** `ApplyMailStack` is the snapshot of all rows, the homes of the
job's own account, the DKIM keys and records, and then the maps one by one and
their compilation; requests commit in between. The deletion of a domain takes
files, rows and maps away in the order of `deleteDomain` and `DeleteDomain`.

**SmtpPolicy.** A handler looks the limit up, opens and locks the file of its
day, reads, truncates, writes and decides. It may die or fail anywhere, and the
day may change at any time.

**SiteHosting.** Requests read and commit apart; the worker's handlers are
taken apart where they read or write rows and at every call of the agent. A
retirement keeps its journal of steps. `DeleteDomain` is one step per statement,
errors of which are dropped.

**DatabaseHosting.** Every statement of the agent is a step, for each host part
of the shared user. The database server may know the user from a former account
of the same name. WordPress is downloaded into a cache, unpacked and configured.

**UsageLimits.** The worker and a writing process of the API measure at the
same time, each in the steps of `readBandwidthDelta` and its callers. The row,
the hold and the three marks of a full home are written one by one.

**HostLists.** The login list is that of the host and any account's job writes
it: the files of the logins, the passwords, the removal of old files. Cron has a
copy and the file cron reads. A reconcile drops their errors.

## 3. Runs

| Run | Checks | Result |
|---|---|---|
| `jobqueue_safety` | `TypeOK`, `HolderOwnsRow`, `FencesNotShared`, `AttemptsBounded`, `AttemptEndsOnce`, `ImplementsLifecycle` | hold |
| `jobqueue_liveness` | `EveryJobSettles` | holds |
| `fencedeffects_safety` | `LatestClaimNotRefused` | holds |
| `fencedeffects_begin` | `StaleCannotBegin` | violated |
| `account` | `TypeOK`, `HostAgreesWhenSettled`, `LoopQuiesces` | hold |
| `account_suspend` | `ReconcileKeepsSuspend` | violated |
| `domain_services` | `ServedAsShown`, `OneBackgroundOrder` | hold |
| `resource_requests` | `RequestCommitsWhole`, `OvershootOnlyByOverlap`, `RowsAgree`, `OwnAccountOnly` | hold |
| `backup_restore` | `OneActiveRestore`, `BackupsAreWhole`, `ResumedRestoreIsWhole`, `FinishedRestoreNotRepeated` | hold |
| `restore_mixed` | `NoSilentlyMixedData` | violated |
| `install_update` | `ProgramTypeOK`, `InstalledOnSuccess`, `SecretsAgree`, `RerunRecovers`, `NoMixedInstall`, `RollbackMaterialKept`, `ServicesRunInstalled` | hold |
| `hosting` | `HostingTypeOK`, `HostAgreesWithRows`, `PreparedBeforeServed`, `ChangeLostOnlyByOverlap`, `DeletionsAreWhole`, `MailZoneOutlivesMailboxes`, `MailSignedWithServedKey`, `DailyLimitKept`, `DatabasePasswordOpens`, `DatabaseWordPressIsWhole`, `UsageCountedOnce`, `UsageEnforced` | hold |

Run one with `tlc -config <cfg> <module>`; `PROJECT.json` names both.

### What the violated ones show

Each states a sentence of the documentation or of a test, and TLC shows a
behaviour of the code that does not follow it.

* `StaleCannotBegin`: the remediation plan wants stale workers unable to begin
  host mutations. The agent stores a fence after the method without comparing
  it, so a slow call of an old claim puts the old fence back.
* `ReconcileKeepsSuspend`: `TestReconcileKeepsLaterSuspend` wants a reconcile
  to keep a suspension. When `CreateLinuxUser` fails, the status becomes
  `failed`, and the retry turns that into `active`.
* `NoSilentlyMixedData`: the plan wants a restore to survive a restart at every
  boundary without silently mixed data. An attempt after one that failed behind
  the home's checkpoint skips the components that are left, and the restore is
  reported complete. `ResumedRestoreIsWhole` says what does hold: without such a
  late end, a first restore that is resumed is whole.

### Other things met while modelling

The models take these steps; no property claims the contrary.

* `docs/installation.md` says that failed issuances are retried on the drift
  scan. Their key `cert-provision:<id>` is used up by the first job, so the scan
  enqueues nothing for a certificate that failed for good.
* The plan says a job never acknowledges a newer revision. `markZonePublished`
  stores the row's revision of that moment as observed, also when it came in
  after the zone file was rendered.
* `docs/upgrade.md` says a rollback restores `current-release`. Without a
  journal it writes `rolled-back`, which no later install can parse; `legacy`
  marks such installs.
* A request, once acknowledged, may be undone by an attempt it overlapped:
  `provisionMailbox`, `provisionWebsite` and `syncDNS` write back rows they read.
  Limits may be exceeded by overlap.
* Errors that are dropped and repeated by nothing: the last mail maps of
  `deleteDomain`, the aliases of a site after an alias domain goes, the lists of
  a reconcile, the second load of the firewall by the installer. The properties
  name the history variable (`lost`, `dropped`, `gone`) that marks them.
* A new password of a database user is stored before the server has it; an
  attempt that dies in between is not made good for a user that already existed.
* The count of sent mail starts anew when a handler dies while it rewrites it.
* An offsite key without its public half, or a lost secret file, stops every
  later run of the installer.

### Bounds

* Queue: two processes and two jobs of one resource are the least with which
  a lease is lost, a second claim runs, and a fence of the resource was used by
  another job. `MaxFence` 5 leaves room for two lost leases; one fault covers a
  crash, a lost write or a cancel anywhere. For liveness one process runs, as
  deployed, with two faults, and `MaxFence` is out of reach.
* Agent: two processes, two jobs, three fences: a call of each of three claims,
  in any order, and a restart. Faults of the queue are off here, because a call
  already outlives its worker when the lease runs out.
* Account: two clients and two waiting jobs: a request before and one during an
  attempt. `HostAgreesWhenSettled` leaves out behaviours with failed calls, so
  a job has one attempt there; `account_suspend` gives it two, which its
  behaviour needs. One crash or cancel.
* Zone and certificate: two record changes, two DNSSEC requests and two jobs of
  the worker's own, each of which can race with a job of each kind; crashes are
  not bounded. Three issues are a first one and two renewals, and two requests;
  three periods of life with the last one in the window let the certificate be
  fresh, due and expired. The DNSSEC requests are symmetric.
* Requests: two clients, of whom one acts on both accounts, two requests, two
  names (symmetric), one key and none. Two that overlap are enough for every
  race of checks and commits. One account has an addon domain with a site; the
  package leaves it room for one more resource of each kind.
* Backup: a new backup and one of an earlier format, two restore requests, one
  change of data or inventory and one fault anywhere. With one new backup no key
  is shared; the theorems hold for any number of them.
* Installer: two configurations, no password, a given one and the refused one;
  three runs and one fault, so that a run can go wrong, be repeated and be
  repeated with something else. The configurations are symmetric. The theorems
  hold for any number of runs and faults.
* Update: two runtime files are the least that can be mixed, each of which
  release 1 may lack; a schema file; releases 1 and 2. Commands, failures and
  crashes are not bounded.
* Hosting: mail has two domains of two accounts, which are symmetric; sites a
  primary domain, an addon and an alias; three requests with one failure or
  crash, or two with two (`MaxEvents`), and two attempts per job, so that a job
  also fails for good. Policy: two connections, two days, limit 1, three messages.
  Metering: two months, two lines, one change and one failure. Lists: two logins
  of two accounts, three changes and two failures.

`CHECK_DEADLOCK FALSE` is set where requests are made once, so that a behaviour
ends when they are answered.

### Fairness

`JobQueue` and `AccountReconcile` have weak fairness on the steps of a worker
process, on the clock, and on the scans: `Run` loops on a ticker, `execute` and
the statements return, and systemd restarts a process that died. Requests,
crashes, cancels and lost writes have none. The other modules state
safety only: what they promise, they promise for when the jobs have ended, and
that jobs end is `EveryJobSettles`.

## 4. Proofs

Each theorem holds for all values of the constants that satisfy the assumption
of its module. The bounds that a run needs (requests, faults, restarts) are
constants too, so a theorem about every value of them is one without a bound.

| Module | Theorem | States |
|---|---|---|
| `JobQueueProofs` | `TypeCorrect` | `Spec => []TypeOK` |
| | `Ownership` | `Spec => []HolderOwnsRow` |
| | `FenceUniqueness` | `Spec => []FencesNotShared` |
| | `RetriesBounded` | `Spec => []AttemptsBounded` |
| | `AttemptsEndOnce` | `Spec => AttemptEndsOnce` |
| | `Refinement` | `Spec => ImplementsLifecycle` |
| | `AgentTypeCorrect` | `AgentSpec => []AgentTypeOK` |
| | `LatestClaimServed` | `AgentSpec => []LatestClaimNotRefused` |
| `ResourceRequestsProofs` | `RequestsTypeCorrect` | `Spec => []TypeOK` |
| | `RequestsWhole` | `Spec => []RequestCommitsWhole` |
| | `OwnAccount` | `Spec => OwnAccountOnly` |
| | `RowsAgreed` | `Spec => []RowsAgree` |
| | `Overshoot` | `Spec => []OvershootOnlyByOverlap` |
| `AccountReconcileProofs` | `AccountTypeCorrect` | `Spec => []TypeOK` |
| | `HostAgrees` | `Spec => []HostAgreesWhenSettled` |
| `DomainServicesProofs` | `ZoneTypeCorrect` | `Spec => []TypeOK` (of `ZonePublish`) |
| | `ZoneServedAsShown` | `Spec => []ServedAsShown` |
| | `CertTypeCorrect` | `CertSpec => []CertTypeOK` |
| | `BackgroundOrderUnique` | `CertSpec => []OneBackgroundOrder` |
| `BackupRestoreProofs` | `BackupTypeCorrect` | `Spec => []TypeOK` |
| | `RestoreUnique` | `Spec => []OneActiveRestore` |
| | `OfferedBackupsWhole` | `Spec => BackupsAreWhole` |
| | `NotRepeated` | `Spec => FinishedRestoreNotRepeated` |
| | `ResumedWhole` | `Spec => ResumedRestoreIsWhole` |
| `InstallUpdateProofs` | `UpdateTypeCorrect` | `UpdateSpec => []UpdateTypeOK` |
| | `InstallWhole` | `UpdateSpec => []NoMixedInstall` |
| | `MaterialForRollback` | `UpdateSpec => []RollbackMaterialKept` |
| | `ServicesCurrent` | `UpdateSpec => []ServicesRunInstalled` |
| | `ProgramTypeCorrect` | `ProgramSpec => []ProgramTypeOK` |
| | `InstalledIsWhole` | `ProgramSpec => []InstalledOnSuccess` |
| | `SecretsAreOne` | `ProgramSpec => []SecretsAgree` |
| | `RerunSucceeds` | `ProgramSpec => []RerunRecovers` |
| `HostingProofs` | `PolicyTypeCorrect` | `Spec => []TypeOK` (of `SmtpPolicy`) |
| | `DailyLimit` | `Spec => []DailyLimitKept` |
| | `DailyLimitComposed` | `HostingSpec => []DailyLimitKept` |
| | `HostingTypeCorrect` | `HostingSpec => []HostingTypeOK` |
| | `HostAgrees` | `HostingSpec => []HostAgreesWithRows` |
| | `LostOnlyByOverlap` | `HostingSpec => []ChangeLostOnlyByOverlap` |
| | `WholeDeletions` | `HostingSpec => []DeletionsAreWhole` |
| | `ServedOnlyPrepared` | `HostingSpec => []PreparedBeforeServed` |
| | `ZonesOutlive` | `HostingSpec => []MailZoneOutlivesMailboxes` |
| | `SignedWithServed` | `HostingSpec => []MailSignedWithServedKey` |
| | `PasswordOpens` | `HostingSpec => []DatabasePasswordOpens` |
| | `WordPressWhole` | `HostingSpec => []DatabaseWordPressIsWhole` |
| | `BytesCountedOnce` | `HostingSpec => []UsageCountedOnce` |
| | `LimitsEnforced` | `HostingSpec => []UsageEnforced` |

### The arguments

None of the properties is inductive by itself. What had to be added:

* **Queue** (`JobQueueAssumption`: finitely many jobs, positive limits). `IndInv`,
  at the end of `JobQueue`. That two processes have different fences needs
  `HoldersLinked`: a process holds a fence its resource has reached, so that the
  next fence of the resource is new. That attempts stay bounded needs
  `WaitingHasAttempt`: a row that can be claimed has an attempt left, counting
  leases it lost. `AbsentUnfenced` carries the first step of the refinement.
  The action property and the refinement are proved from it step by step, an
  expiry of several leases being one `Revoke` of the set of their jobs.
* **Agent** (`AgentAssumption` with the queue's). A call of the latest claim is
  refused only if the agent has a higher fence, or the same one of another job.
  `AgentInv` says there is an assignment of each fence of a resource to one job
  (`own`) that every record in memory, in the file and in a call agrees with
  (`Genuine`). A claim extends it at a fence nobody has, which is what `IndInv`
  of the queue gives.
* **Requests** (`RequestsAssumption`: finitely many clients and accounts, which
  begin within their package; an account's id is neither a number nor a name that
  an initial row has). The actions are first brought to a few forms (`Accepts`,
  `Stores`, `Drops`, `Ends`), and layers are proved for the forms. `IdsStand`: an id
  stands for one row of one account, in whichever versions the table and the
  requests have it; `OwnAccount` rests on that. `ChecksHold`: what a request
  has checked is true until another changes something and makes it stale.
  `RetiredHasJob` bridges the two steps of `deleteApp`. `MailOwned`: mailboxes
  are of a mail domain of their own account, which lets a check of one account's
  rows decide about all. `KeysOnTheirWay`: a change of keys that the host has
  not got is in the hands of a request. `WithinPackage` counts the ids of the rows
  together with those of requests that may still put one: a request that
  passes adds one to fewer ids of rows than the limit, and there are no more
  requests than clients; no other step adds an id.
* **Account** (`AccountAssumption`). `AccountInv`: between attempts the host
  agrees with the row or a job waits, and from the lock or the unlock on the host
  has the status that the attempt will write.
* **Zone** (`ZoneAssumption`: the worker has jobs of its own, `OwnJobs` > 0).
  `ZoneInv`: records and the DNSSEC flag that the host has not got are with a job
  that waits or runs; which step may still bring them depends on its kind.
* **Certificate** (`CertificateAssumption`). `CertInv`: a certificate that is due
  has no unsettled job (`DueUnserved`), so a scan never adds to one.
* **Backup and restore** (`BackupAssumption`). `Inv`: the row of a running
  backup is not shown as succeeded while its object may be replaced
  (`AttemptOfBackup`); keys that two rows have are known to be shared; an attempt
  works on an active row of its backup (`AttemptOfRestore`) and has left
  the checkpoints behind it (`CheckpointsLeft`, `FinishedLeavesCheckpoints`); while
  the first restore is under way, the journal knows of no component that was not
  put in place (`FirstRestore`).
* **Update** (`UpdateAssumption`). `UpdateInv`: the journal is about the install
  before the transaction and what it holds was copied from that (`JournalOfPrev`);
  what each step of a command finds (`BeforeSwitch`, `InSwitch`, `InRollback`);
  where no transaction is open the install is whole and the services run it.
* **Installer** (`InstallerAssumption`: there is a configuration, `None` is not one,
  passwords are numbers with 0, no password, among them, and the refused one is not 0). `InstallInv`: a
  completed phase still has what its effects made, but for what was lost
  (`PhasesKept`); the phases and the effects behind the runner have left theirs
  (`PhasesBehind`, `EffectsBehind`), so that success is the case of all phases
  being behind it; what is made together is there together, the offsite key with
  its public half and the quota image with its filesystem (`PairsInv`); the key
  PowerDNS has is the panel's unless a secret file was lost (`KeyInv`), and the
  stored password is Director's unless it was changed since (`PasswordInv`); and
  in a run without a failure every effect that was taken has established its
  fact (`SoundRun`), which is why its verification holds and the run succeeds. Each effect is brought to one form first (`EffectMoved`), and where
  an effect is placed in the phases, and which phase verifies its fact, are lemmas
  of their own (`EffectsPlaced`, `VerifiedFrom`).
* **SMTP policy** (`PolicyAssumption`). `PolicyInv`: the count, with the messages
  that are asked about and not in it yet, is at most the messages of the day
  (`CountAsked`), and those let through are at most those counted (`SentCounted`),
  under the lock of the day's file (`LockHeld`).
* **Hosted services** (`OwnersAssumption`: every domain and login has an account;
  `BoundsAssumption`: the bounds are numbers, a job has an attempt and there is a
  month). `HostingInv` is the invariant of the part the behaviour is about, with
  `PolicyInv`; a step of a part keeps its own and leaves the others alone.
  * `ListsInv`: what the rows say of logins and entries is in the files, or a job
    that waits or the attempt that runs will bring it (`FtpApplied`,
    `CronApplied`), and the file that confines a login is there before the list
    that has it (`ConfBeforePasswd`).
  * `MailInv`: the attempt's snapshot, maps and files are what the rows say unless
    a job waits that reads them again; a copy of a row that the attempt will write
    is the row itself unless a request overlapped it (`CopyOfRow`); the zone goes
    last (`ZoneLast`); a signing table has only keys whose record is served.
  * `DbInv`: a password is stored before the server gets it and the attempt has
    the stored one (`PasswordStored`); an engine's users have the stored password
    or are marked stale or will get it (`UsersAgree`); a database on the server has
    a row (`RowOfDatabase`); only the last of an engine drops the user
    (`LastDatabase`); WordPress runs with what its one installation left
    (`OneInstall`, `WordPressMade`).
  * `UsageInv`: for every month, the total, what each of the two measurements
    holds in its hand and what lies behind the checkpoint in the log add up to
    no more than was logged, and to all of it where nothing disturbed them; the
    hold is what the stored usage says unless the application of it was dropped.
  * `SiteInv` (in `HostingSiteProofs`):
    only a site of the rows has a file and a unit (`SiteRowsNested`),
    which needs what a deletion has retired before it drops rows (`SitesRetired`);
    a site's file is what its row says, or a job or the attempt will apply it, or
    the site goes (`FilesApplied`), so do all but one of two sites of a domain
    (`SitesCollapse`), and a reload comes (`FilesServed`); for a domain without an
    overlap nothing that waits or runs undoes the runtime asked for
    (`RuntimeKept`, `OneUntouched`); the steps of a retirement that the journal
    has are done (`JournalDone`).

Proving found a property that was wrong: a backup that succeeded was said to
have its own object, which two backups in one second refute. The property now
names the shared keys.

### Only model-checked

* Liveness (`EveryJobSettles`, `LoopQuiesces`), and that a step is possible at
  all: the prover has no rules for fairness and `ENABLED`.
* The violated properties are refuted by a behaviour; nothing is proved of them.

## 5. What is left out

* PostgreSQL is taken at its word: a statement is atomic, `FOR UPDATE SKIP LOCKED`
  gives a row to one claim. The in-memory store of the tests is modelled where
  requests commit, not as a queue.
* Columns, texts and configuration files that no property speaks of: nginx, PHP
  pools, zone files beyond the serial, firewall rules, monitoring.
* The ACME protocol, signatures, encryption, hashing, archive formats: library
  calls. Restores take an object as whole or absent, as `Verify` establishes.
* Mailing lists, webmail and filters; a domain has one mailbox, one alias and one
  catch-all address.
* The development and `--root` modes of the installer, scheduled backups and
  retention, downloads of the updater and the API requests that start it.
* Account import, filesystem containment, the object store, sessions, second
  factors and capabilities, schema migrations, portals and CLI: `PROJECT.json`
  says why for each.
* Several worker processes in the models of handlers: one is deployed. What a
  second one could do to the queue and the agent is in `JobQueue` and
  `FencedEffects`.

## 6. Plan

Modules: `Sessions` (lockout, second factor, expiry), `SchemaMigration`
(the lock and the ordered loop), `PathRules` (path and capability rules as
operators against reference definitions), and several mailboxes per domain in
`MailHosting` with mailing lists.
