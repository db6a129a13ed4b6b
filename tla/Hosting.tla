------------------------------- MODULE Hosting -------------------------------
(***************************************************************************)
(* The hosted services side by side: the mail, the sending limits, the     *)
(* sites, the databases, the metering and the lists of logins and cron     *)
(* entries.  They share no state, so a behaviour is one of a single part,  *)
(* chosen in Init: the states are the sum of the parts' and not their      *)
(* product.  The variables of the other parts stay "unused", or, for the   *)
(* sending limits, in their initial state.                                 *)
(***************************************************************************)
EXTENDS SmtpPolicy

CONSTANTS MailDomains,      \* mail domains
          DomainOwner,      \* the account of each
          Logins,           \* FTP logins
          LoginOwner,       \* the account of each
          Accounts,         \* accounts
          Months,           \* the last month that is metered
          MaxChanges,       \* bound: requests
          MaxAttempts,      \* max_attempts of a job (5 in the code)
          MaxFailures,      \* bound: failed calls and crashes
          MaxEvents,        \* bound: requests, failures and crashes together
          MaxLines,         \* bound: requests nginx logs
          MeterChanges,     \* bound: rotations, package changes, full homes
          MeterFailures     \* bound: failed calls and crashes of a measurement

ASSUME OwnersAssumption ==
    /\ DomainOwner \in [MailDomains -> Accounts]
    /\ LoginOwner \in [Logins -> Accounts]
ASSUME BoundsAssumption ==
    /\ {MaxChanges, MaxAttempts, MaxFailures, MaxEvents, MaxLines} \subseteq Nat
    /\ {MeterChanges, MeterFailures} \subseteq Nat
    /\ {Months, MaxAttempts} \subseteq Nat \ {0}

VARIABLES part,  \* the part this behaviour is about
          jobs, host, worker, rows, lost, changes, failures,
          acked, overlap, retired,
          req, redeployed,
          stale,
          month, log, cp, total, usage, limit, site, disk, meter, reconcile,
          logged, disturbed, recount, dropped

Mail == INSTANCE MailHosting WITH Domains <- MailDomains, Owner <- DomainOwner
Site == INSTANCE SiteHosting
Database == INSTANCE DatabaseHosting
Usage == INSTANCE UsageLimits WITH
             MaxChanges <- MeterChanges, MaxFailures <- MeterFailures
Lists == INSTANCE HostLists WITH Owner <- LoginOwner

Work == <<jobs, host, worker>>
Rows == <<rows, lost>>
Counters == <<changes, failures>>
History == <<acked, overlap, retired>>
Sites == <<req, redeployed>>
Databases == <<stale>>
Metering == <<month, log, cp, total, usage, limit, site, disk, meter,
              reconcile, logged, disturbed, recount, dropped>>

Unused(x) == x = "unused"
NoWork == Unused(jobs) /\ Unused(host) /\ Unused(worker)
NoRows == Unused(rows) /\ Unused(lost)
NoCounters == Unused(changes) /\ Unused(failures)
NoHistory == Unused(acked) /\ Unused(overlap) /\ Unused(retired)
NoSites == Unused(req) /\ Unused(redeployed)
NoDatabases == Unused(stale)
NoMetering == Unused(month) /\ Unused(log) /\ Unused(cp) /\ Unused(total) /\
    Unused(usage) /\ Unused(limit) /\ Unused(site) /\ Unused(disk) /\
    Unused(meter) /\ Unused(reconcile) /\ Unused(logged) /\
    Unused(disturbed) /\ Unused(recount) /\ Unused(dropped)

InitMail ==
    /\ part = "mail" /\ Mail!Init
    /\ NoSites /\ NoDatabases /\ Init /\ NoMetering
InitSmtp ==
    /\ part = "smtp" /\ Init
    /\ NoWork /\ NoRows /\ NoCounters /\ NoHistory /\ NoSites /\ NoDatabases
    /\ NoMetering
InitSite ==
    /\ part = "site" /\ Site!Init
    /\ NoDatabases /\ Init /\ NoMetering
InitDatabase ==
    /\ part = "database" /\ Database!Init
    /\ NoHistory /\ NoSites /\ Init /\ NoMetering
InitUsage ==
    /\ part = "usage" /\ Usage!Init
    /\ NoWork /\ NoRows /\ NoHistory /\ NoSites /\ NoDatabases /\ Init
InitLists ==
    /\ part = "lists" /\ Lists!Init
    /\ NoHistory /\ NoSites /\ NoDatabases /\ Init /\ NoMetering

HostingInit == \/ InitMail \/ InitSmtp \/ InitSite \/ InitDatabase \/ InitUsage
               \/ InitLists

Bounded == changes' + failures' <= MaxEvents

NextMail ==
    /\ part = "mail" /\ Mail!Next /\ Bounded
    /\ UNCHANGED <<part, Sites, Databases, vars, Metering>>
NextSmtp ==
    /\ part = "smtp" /\ Next
    /\ UNCHANGED <<part, Work, Rows, Counters, History, Sites, Databases, Metering>>
NextSite ==
    /\ part = "site" /\ Site!Next /\ Bounded
    /\ UNCHANGED <<part, Databases, vars, Metering>>
NextDatabase ==
    /\ part = "database" /\ Database!Next /\ Bounded
    /\ UNCHANGED <<part, History, Sites, vars, Metering>>
NextUsage ==
    /\ part = "usage" /\ Usage!Next
    /\ UNCHANGED <<part, Work, Rows, History, Sites, Databases, vars>>
NextLists ==
    /\ part = "lists" /\ Lists!Next
    /\ UNCHANGED <<part, History, Sites, Databases, vars, Metering>>

HostingNext == \/ NextMail \/ NextSmtp \/ NextSite \/ NextDatabase \/ NextUsage
               \/ NextLists

hostingVars == <<part, Work, Rows, Counters, History, Sites, Databases, vars, Metering>>

HostingSpec == HostingInit /\ [][HostingNext]_hostingVars

-----------------------------------------------------------------------------
\* Every part's state keeps the shape the code's types and statuses give it:
\* the rows, files, jobs and attempt of the modules it instantiates.
HostingTypeOK ==
    /\ part = "mail" => Mail!TypeOK
    /\ part = "smtp" => TypeOK
    /\ part = "site" => Site!TypeOK
    /\ part = "database" => Database!TypeOK
    /\ part = "usage" => Usage!TypeOK
    /\ part = "lists" => Lists!TypeOK

\* Once every job has succeeded, the host has what the rows say: Postfix and
\* Dovecot route by the mailboxes and aliases of all accounts, nginx serves the
\* sites, one for a domain, and vsftpd and cron the logins and entries of
\* accounts in service, although each job writes what it read earlier and jobs
\* died and failed in between (worker.go, applyMailStack, provisionWebsite,
\* syncFTPUsers, applyCron).
HostAgreesWithRows ==
    /\ part = "mail" => Mail!MapsAgreeWhenSettled
    /\ part = "site" => Site!SitesAgreeWhenSettled /\ Site!OneSitePerDomain
    /\ part = "lists" => Lists!ListsAgreeWhenSettled

\* What a service lets in was prepared before: a login of vsftpd is confined to
\* its account at every moment of a change of the list, and a mailbox Postfix
\* knows of has its home unless the job that makes it waits or runs (ftp.go,
\* applyFTPUsers; worker.go, applyMailStack).
PreparedBeforeServed ==
    /\ part = "lists" => Lists!LoginConfined
    /\ part = "mail" => Mail!HomeBeforeMap

\* A password, mailbox, deletion or runtime that was asked for and acknowledged
\* is undone only by an attempt it overlapped, which writes back the row it read
\* (worker.go, provisionMailbox, provisionWebsite).
ChangeLostOnlyByOverlap ==
    /\ part = "mail" => Mail!ChangeLostOnlyByOverlap
    /\ part = "site" => Site!RuntimeLostOnlyByOverlap

\* A deletion that succeeded left nothing that runs or can be entered: no unit
\* of a site that is gone, no unit, socket or file of a retired application, no
\* database, wherever attempts died (nginx.go, retire.go, runtime.go).
DeletionsAreWhole ==
    /\ part = "site" => Site!RetirementIsWhole /\ Site!NoOrphanUnits
    /\ part = "database" => Database!NoDatabaseBeyondRows

\* A deletion of a domain that stops anywhere leaves no mailbox without a zone,
\* for which publishDKIMTXT fails the mail jobs of every account for good.
MailZoneOutlivesMailboxes == part = "mail" => Mail!ZoneOutlivesMailboxes

\* Mail is signed only with a key whose public half the zone serves, although
\* the key, the record and the signing table are written in separate calls.
MailSignedWithServedKey == part = "mail" => Mail!SignedWithServedKey

\* Once every job has succeeded, the stored password opens every active
\* database in every way to connect, although statements failed midway and
\* the user is shared by databases that are deleted (worker.go, deleteDB).
DatabasePasswordOpens == part = "database" => Database!PasswordOpensDatabases

\* A WordPress the panel shows running came from a whole archive and has the
\* server's password, although the archive is cached as it arrives and the
\* user is shared with the other databases (wordpress.go, installWordPress).
DatabaseWordPressIsWhole ==
    part = "database" => Database!RunningWordPressIsWhole

\* A month's total never has a byte twice, although two processes measure at
\* once, die between checkpoint and total, and logs and months turn, unless a
\* checkpoint was not saved or measurements of two months crossed; and without
\* a crash, a failure or a rotation in between, what is not in the total is
\* still in the log, after the checkpoint (bandwidth.go, readBandwidthDelta).
UsageCountedOnce ==
    part = "usage" => Usage!NeverCountedTwice /\ Usage!NothingLeftOut

\* The sites are held exactly while the row says that the month's bytes are
\* used up, unless an application of the sites was dropped since, and a
\* collection that met no failure leaves the three marks of a full home
\* agreeing with each other (worker.go, recordUsage; quota.go,
\* enforceAccountDisk).
UsageEnforced ==
    part = "usage" => Usage!HoldFollowsUsage /\ Usage!MarksOfFullHomeAgree
=============================================================================
