------------------------------ MODULE HostLists ------------------------------
(***************************************************************************)
(* The FTP logins of the host and the crontabs of its accounts: the rows,  *)
(* the worker's syncFTPUsers and applyCron (internal/job/worker.go) and    *)
(* the agent's files (agent/operations/ftp.go, stack.go).                  *)
(*                                                                         *)
(* The FTP list is one for the host, written by jobs of every account; a   *)
(* crontab is its account's.  One worker runs, as deployed, and requests   *)
(* commit row and job together between any two of its steps.  vsftpd lets  *)
(* a login in by the passwd file, and confines it by the login's own file. *)
(***************************************************************************)
EXTENDS Integers, FiniteSets

CONSTANTS Logins,        \* FTP logins
          Accounts,      \* accounts
          Owner,         \* Owner[l]: the account of login l
          MaxChanges,    \* bound: requests
          MaxAttempts,   \* max_attempts of a job (5 in the code)
          MaxFailures    \* bound: failed calls and crashes

VARIABLES rows,      \* the tables
          host,      \* the files
          jobs,      \* jobs that wait
          worker,    \* where the attempt is
          changes,   \* bound: requests so far; numbers the passwords
          failures,  \* bound: failed calls and crashes so far
          lost       \* history: a list of the rows as they are was not written

vars == <<rows, host, jobs, worker, changes, failures, lost>>

Types == {"ftp.apply", "cron.apply", "account.reconcile"}
Job == [n : Nat, type : Types, acc : Accounts, attempts : Nat]
Steps == {"idle", "list", "conf", "passwd", "stale", "crons", "cron", "crond"}

TypeOK ==
    /\ rows \in [ftp : [Logins -> Nat], cron : SUBSET Accounts,
                 status : [Accounts -> {"active", "suspended"}]]
    /\ host \in [conf : SUBSET Logins, passwd : SUBSET (Logins \X Nat),
                 cron : SUBSET Accounts, crond : SUBSET Accounts]
    /\ jobs \subseteq Job /\ worker.pc \in Steps
    /\ worker.pc # "idle" => worker.job \in Job
    /\ changes \in 0..MaxChanges /\ failures \in 0..MaxFailures
    /\ lost \in BOOLEAN

Init ==
    /\ rows = [ftp |-> [l \in Logins |-> 0], cron |-> {},
               status |-> [a \in Accounts |-> "active"]]
    /\ host = [conf |-> {}, passwd |-> {}, cron |-> {}, crond |-> {}]
    /\ jobs = {} /\ worker = [pc |-> "idle"]
    /\ changes = 0 /\ failures = 0 /\ lost = FALSE

-----------------------------------------------------------------------------
(* Requests.                                                               *)

Enqueue(type, a) ==
    /\ changes < MaxChanges /\ changes' = changes + 1
    /\ jobs' = jobs \cup {[n |-> changes + 1, type |-> type, acc |-> a,
                           attempts |-> 0]}
    /\ UNCHANGED <<host, worker, failures, lost>>

\* A login is created, or gets another password.
PutFTP(l) ==
    /\ Enqueue("ftp.apply", Owner[l])
    /\ rows' = [rows EXCEPT !.ftp[l] = changes + 1]

DeleteFTP(l) ==
    /\ rows.ftp[l] # 0 /\ Enqueue("ftp.apply", Owner[l])
    /\ rows' = [rows EXCEPT !.ftp[l] = 0]

ChangeCron(a) ==
    /\ Enqueue("cron.apply", a)
    /\ rows' = [rows EXCEPT !.cron = IF a \in @ THEN @ \ {a} ELSE @ \cup {a}]

\* An account is suspended, or in service again.
ChangeStatus(a) ==
    /\ Enqueue("account.reconcile", a)
    /\ rows' = [rows EXCEPT !.status[a] = IF @ = "active" THEN "suspended"
                                                          ELSE "active"]

Request == \/ \E l \in Logins : PutFTP(l) \/ DeleteFTP(l)
           \/ \E a \in Accounts : ChangeCron(a) \/ ChangeStatus(a)

-----------------------------------------------------------------------------
(* The worker.                                                             *)

Fails == failures < MaxFailures /\ failures' = failures + 1
Goto(step) == worker' = [worker EXCEPT !.pc = step] /\ UNCHANGED <<jobs, failures, lost>>
Settle == worker' = [pc |-> "idle"] /\ UNCHANGED <<jobs, failures, lost>>

Retry ==
    /\ Fails /\ worker' = [pc |-> "idle"]
    /\ IF worker.job.attempts >= MaxAttempts
       THEN lost' = TRUE /\ UNCHANGED jobs
       ELSE jobs' = jobs \cup {worker.job} /\ UNCHANGED lost

\* A call fails: a job of its own is tried again, reconcileAccount drops the
\* error and goes on.
CallFails(next) ==
    IF worker.job.type # "account.reconcile" THEN Retry
    ELSE Fails /\ lost' = TRUE /\ worker' = [worker EXCEPT !.pc = next]
         /\ UNCHANGED jobs

Claim ==
    /\ worker.pc = "idle"
    /\ \E j \in jobs :
        /\ jobs' = jobs \ {j}
        /\ worker' = [pc |-> IF j.type = "cron.apply" THEN "crons" ELSE "list",
                      job |-> [j EXCEPT !.attempts = @ + 1], users |-> {},
                      body |-> FALSE]
    /\ UNCHANGED <<rows, host, changes, failures, lost>>

\* The worker or the agent stops; a passwd file it was writing is empty.
Crash ==
    /\ worker.pc # "idle" /\ Retry
    /\ host' \in {host} \cup (IF worker.pc = "passwd"
                              THEN {[host EXCEPT !.passwd = {}]} ELSE {})
    /\ UNCHANGED <<rows, changes>>

-----------------------------------------------------------------------------
(* syncFTPUsers and applyFTPUsers.                                         *)

\* The logins that are listed: with a password, of an account in service.
Listed == {<<l, rows.ftp[l]>> : l \in {x \in Logins :
              rows.ftp[x] # 0 /\ rows.status[Owner[x]] = "active"}}
Names(users) == {u[1] : u \in users}

SyncFTPUsers ==
    /\ worker.pc = "list"
    /\ worker' = [worker EXCEPT !.pc = "conf", !.users = Listed]
    /\ UNCHANGED <<rows, host, jobs, changes, failures, lost>>

\* After the FTP list, a reconcile applies the crontab.
AfterList == IF worker.job.type = "account.reconcile" THEN Goto("crons") ELSE Settle

\* Mutant: the files of the others go first.
ConfOfListedOnly ==
    /\ worker.pc = "conf"
    /\ host' = [host EXCEPT !.conf = Names(worker.users)]
    /\ Goto("passwd") /\ UNCHANGED <<rows, changes>>

\* The file of every login, up to the first that fails ...
WriteUserConf ==
    /\ worker.pc = "conf"
    /\ \E done \in SUBSET Names(worker.users) :
        /\ host' = [host EXCEPT !.conf = @ \cup done]
        /\ \/ done = Names(worker.users) /\ Goto("passwd")
           \/ done # Names(worker.users) /\ CallFails("crons")
    /\ UNCHANGED <<rows, changes>>

\* ... then the passwords ...
WritePasswd ==
    /\ worker.pc = "passwd"
    /\ \/ host' = [host EXCEPT !.passwd = worker.users] /\ Goto("stale")
       \/ UNCHANGED host /\ CallFails("crons")
    /\ UNCHANGED <<rows, changes>>

\* ... then the files of logins that are not listed go; a file that cannot be
\* removed stays.
RemoveStale ==
    /\ worker.pc = "stale"
    /\ host' = [host EXCEPT !.conf = @ \cap Names(worker.users)]
    /\ AfterList /\ UNCHANGED <<rows, changes>>

-----------------------------------------------------------------------------
(* applyCron and applyAccountCron.                                         *)

ListCrons ==
    /\ worker.pc = "crons"
    /\ worker' = [worker EXCEPT !.pc = "cron", !.body = worker.job.acc \in rows.cron]
    /\ UNCHANGED <<rows, host, jobs, changes, failures, lost>>

With(set) == IF worker.body THEN set \cup {worker.job.acc} ELSE set \ {worker.job.acc}

\* The agent keeps a copy, and then writes the file that cron reads.
WriteCronCopy ==
    /\ worker.pc = "cron"
    /\ \/ host' = [host EXCEPT !.cron = With(@)] /\ Goto("crond")
       \/ UNCHANGED host /\ CallFails("idle")
    /\ UNCHANGED <<rows, changes>>

\* Mutant: an entry that was disabled stays in the file that cron reads.
WriteCronOver ==
    /\ worker.pc = "crond"
    /\ host' = [host EXCEPT !.crond = @ \cup With({})]
    /\ Settle /\ UNCHANGED <<rows, changes>>

WriteCron ==
    /\ worker.pc = "crond"
    /\ \/ host' = [host EXCEPT !.crond = With(@)] /\ Settle
       \/ UNCHANGED host /\ CallFails("idle")
    /\ UNCHANGED <<rows, changes>>

Next == \/ Request \/ Claim \/ Crash \/ SyncFTPUsers \/ WriteUserConf
        \/ WritePasswd \/ RemoveStale \/ ListCrons \/ WriteCronCopy \/ WriteCron

Spec == Init /\ [][Next]_vars

-----------------------------------------------------------------------------
\* A login that vsftpd lets in is always confined to its account, also in the
\* middle of a change of the list, after a failure or a crash in it, and when
\* lists of two accounts' jobs follow each other (ftp.go, applyFTPUsers).
LoginConfined == Names(host.passwd) \subseteq host.conf

\* Once every job has succeeded, and no reconcile dropped an error, exactly
\* the logins of accounts in service get in, with the password last asked for,
\* and cron runs exactly the enabled entries.
ListsAgreeWhenSettled ==
    worker.pc = "idle" /\ jobs = {} /\ ~lost =>
        host.passwd = Listed /\ host.crond = rows.cron /\ host.cron = rows.cron
=============================================================================
