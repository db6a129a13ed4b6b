-------------------------- MODULE AccountReconcile --------------------------
(***************************************************************************)
(* One hosting account between the API, which changes its row and enqueues *)
(* a job in one transaction (internal/httpserver/api.go, updateAccountWith-*)
(* Job in internal/store/postgres.go), and the worker, which brings the    *)
(* host to that state and writes the row back (provisionAccount and        *)
(* retireAccount in internal/job/worker.go).                               *)
(*                                                                         *)
(* The API's writes compare desired_revision; the worker's PutAccount      *)
(* writes its whole copy and compares nothing.  The worker takes its copy  *)
(* when the attempt starts and later refreshes the status and the desired  *)
(* revision in it.  The other columns (domain, address, login, package,    *)
(* reseller) are left out: a modification is a new revision.  One worker   *)
(* process runs, as deployed, and it interleaves with the API's handlers   *)
(* between any two statements.                                             *)
(***************************************************************************)
EXTENDS Integers, FiniteSets

CONSTANTS Clients,        \* API requests, each made once
          Slots,          \* bound: jobs that are not settled
          MaxAttempts,    \* max_attempts of a job (5 in the code)
          MaxInterrupts   \* bound: attempts cut short by a crash or a cancel

ASSUME AccountAssumption ==
    /\ MaxAttempts \in Nat \ {0}
    /\ MaxInterrupts \in Nat
    /\ Slots \subseteq Nat /\ Slots # {}

VARIABLES row,      \* the accounts row
          host,     \* the Linux user: absent, open or locked
          jobs,     \* jobs that are not settled
          keys,     \* revisions whose reconcile:<account>:<revision> is taken
          worker,   \* where the attempt is, its job and its copy of the row
          clients,  \* each request: not made, between its read and its write,
                    \* or done
          failed,   \* history: a call of the agent failed
          interrupts    \* bound: how often so far

vars == <<row, host, jobs, keys, worker, clients, failed, interrupts>>

Statuses == {"provisioning", "active", "suspended", "failed",
             "terminating", "terminated"}
Row == [exists : BOOLEAN, status : Statuses, desired : Nat, observed : Nat]
Job == [target : Nat, attempts : Nat]
NoJob == [target |-> 0, attempts |-> 0]
NoRow == [exists |-> FALSE, status |-> "terminated", desired |-> 0,
          observed |-> 0]

Steps == {"idle", "create", "stack", "apply", "recheck", "ack", "put",
          "retire", "retireAck", "retirePut", "purge"}
Ops == {"suspended", "active", "terminating", "modify", "remove"}

TypeOK ==
    /\ row \in Row
    /\ host \in {"absent", "open", "locked"}
    /\ jobs \in [Slots -> Job]
    /\ keys \in SUBSET Nat
    /\ worker \in [pc : Steps, slot : Slots, acc : Row, stopped : BOOLEAN]
    /\ clients \in [Clients -> [op : Ops \cup {"none", "done"}, acc : Row]]
    /\ failed \in BOOLEAN
    /\ interrupts \in 0..MaxInterrupts

First(S) == CHOOSE s \in S : \A t \in S : s <= t
IdleWorker == [pc |-> "idle", slot |-> First(Slots), acc |-> NoRow,
               stopped |-> FALSE]
DoneClient == [op |-> "done", acc |-> NoRow]

\* createAccount committed: the row, and the first job with its revision.
Init ==
    /\ row = [exists |-> TRUE, status |-> "provisioning", desired |-> 1,
              observed |-> 0]
    /\ host = "absent"
    /\ jobs = [s \in Slots |-> IF s = First(Slots)
                               THEN [target |-> 1, attempts |-> 0] ELSE NoJob]
    /\ keys = {}
    /\ worker = IdleWorker
    /\ clients = [c \in Clients |-> [op |-> "none", acc |-> NoRow]]
    /\ failed = FALSE
    /\ interrupts = 0

\* insertJobTx; the queue is full in the model when no slot is free.
Enqueue(target) ==
    LET free == {s \in Slots : jobs[s] = NoJob}
    IN  /\ free # {}
        /\ jobs' = [jobs EXCEPT ![First(free)] = [target |-> target, attempts |-> 0]]

-----------------------------------------------------------------------------
(* The API.                                                                *)

\* GetAccount at the start of setAccountStatus, modifyAccount, removeAccount.
ReadAccount(c, op) ==
    /\ clients[c].op = "none"
    /\ row.exists
    /\ op = "remove" => row.status = "terminated"
    /\ clients' = [clients EXCEPT ![c] = [op |-> op, acc |-> row]]
    /\ UNCHANGED <<row, host, jobs, keys, worker, failed, interrupts>>

\* Mutant: a modification is taken for a status.
RequestedStatus(op, acc) == [acc EXCEPT !.desired = acc.desired + 1, !.status = op]

\* What the request makes of the row it read.
Requested(op, acc) ==
    [acc EXCEPT !.desired = acc.desired + 1,
                !.status = IF op = "modify" THEN acc.status ELSE op]

\* updateAccountWithJob: the update applies if desired_revision is still the
\* one that was read, and the job is inserted with it; else nothing happens.
\* The update writes every column, observed_revision and status included.
UpdateAccountWithJob(c) ==
    LET op == clients[c].op
        acc == clients[c].acc
    IN  /\ op \in Ops \ {"remove"}
        /\ \/ /\ row.exists /\ row.desired = acc.desired
              /\ row' = Requested(op, acc)
              /\ Enqueue(acc.desired + 1)
           \/ /\ ~(row.exists /\ row.desired = acc.desired)
              /\ UNCHANGED <<row, jobs>>
        /\ clients' = [clients EXCEPT ![c] = DoneClient]
        /\ UNCHANGED <<host, keys, worker, failed, interrupts>>

\* removeAccount: PurgeAccount compares nothing with what was read.
RemoveAccount(c) ==
    /\ clients[c].op = "remove"
    /\ row' = NoRow
    /\ clients' = [clients EXCEPT ![c] = DoneClient]
    /\ UNCHANGED <<host, jobs, keys, worker, failed, interrupts>>

\* rotateAccountPassword: the job has no target revision, and normalizeJob
\* makes that 1.
RotatePassword(c) ==
    /\ clients[c].op = "none"
    /\ row.exists
    /\ Enqueue(1)
    /\ clients' = [clients EXCEPT ![c] = DoneClient]
    /\ UNCHANGED <<row, host, keys, worker, failed, interrupts>>

-----------------------------------------------------------------------------
(* The worker.                                                             *)

At(pc) == worker.pc = pc
Goto(pc, acc) == worker' = [worker EXCEPT !.pc = pc, !.acc = acc]

\* PutAccount: every column from the copy.  Inserting a purged account again
\* fails, because its owner is gone.
PutAccount(acc) == row' = IF row.exists THEN acc ELSE row

\* execute's end: a success settles the job, an error leaves it waiting until
\* the attempts are used up or its text says that something is missing, and a
\* stopped attempt writes nothing: the lease runs out and the job waits again.
JobEnds(outcome) ==
    LET j == jobs[worker.slot]
    IN  /\ \E gone \in BOOLEAN :
              LET over == outcome = "ok" \/ j.attempts >= MaxAttempts \/ gone
              IN  jobs' = [jobs EXCEPT ![worker.slot] =
                             IF over /\ ~worker.stopped THEN NoJob ELSE j]
        /\ worker' = IdleWorker

\* A call of the agent fails, always so once the attempt's context is cancelled.
CallFails == failed' = (failed \/ ~worker.stopped)

\* ClaimJob, and jobAccount at the start of provisionAccount.  Backoff makes
\* any waiting job a candidate.
StartAttempt(s) ==
    /\ At("idle")
    /\ jobs[s] # NoJob
    /\ \/ /\ row.exists
          /\ jobs' = [jobs EXCEPT ![s].attempts = @ + 1]
          /\ worker' = [pc |-> IF row.status = "terminating" THEN "retire" ELSE "create",
                        slot |-> s, acc |-> row, stopped |-> FALSE]
       \/ /\ ~row.exists     \* "account missing": gone, not retried
          /\ jobs' = [jobs EXCEPT ![s] = NoJob]
          /\ UNCHANGED worker
    /\ UNCHANGED <<row, host, keys, clients, failed, interrupts>>

\* CreateLinuxUser; an error is written into the row as the status failed.
CreateLinuxUser ==
    /\ At("create")
    /\ \/ /\ ~worker.stopped
          /\ host' = IF host = "absent" THEN "open" ELSE host
          /\ Goto("stack", worker.acc)
          /\ UNCHANGED <<row, jobs, failed>>
       \/ /\ PutAccount([worker.acc EXCEPT !.status = "failed"])
          /\ JobEnds("error")
          /\ CallFails
          /\ UNCHANGED host
    /\ UNCHANGED <<keys, clients, interrupts>>

\* The domains, the mailbox, the database and the mail maps, then the first
\* second look at the row.
Latest(acc) ==
    IF row.exists THEN [acc EXCEPT !.status = row.status, !.desired = row.desired]
                  ELSE acc

EnsureStacks ==
    /\ At("stack")
    /\ \/ /\ ~worker.stopped
          /\ LET acc == Latest(worker.acc)
             IN  Goto(IF acc.status \in {"terminating", "terminated"}
                      THEN "retire" ELSE "apply", acc)
          /\ UNCHANGED <<jobs, failed>>
       \/ JobEnds("error") /\ CallFails
    /\ UNCHANGED <<row, host, keys, clients, interrupts>>

\* LockLinuxUser or UnlockLinuxUser; their errors are ignored.
BestEffort(state) ==
    \/ ~worker.stopped /\ host' = state /\ UNCHANGED failed
    \/ CallFails /\ UNCHANGED host

\* Mutant: only a suspension touches the host.
ApplyLockOnly ==
    LET acc == worker.acc
    IN  /\ At("apply")
        /\ BestEffort(IF acc.status = "suspended" THEN "locked" ELSE host)
        /\ Goto("recheck", IF acc.status \in {"provisioning", "failed"}
                           THEN [acc EXCEPT !.status = "active"] ELSE acc)
        /\ UNCHANGED <<row, jobs, keys, clients, interrupts>>

ApplyStatus ==
    LET acc == worker.acc
    IN  /\ At("apply")
        /\ BestEffort(IF acc.status = "suspended" THEN "locked" ELSE "open")
        /\ Goto("recheck", IF acc.status \in {"provisioning", "failed"}
                           THEN [acc EXCEPT !.status = "active"] ELSE acc)
        /\ UNCHANGED <<row, jobs, keys, clients, interrupts>>

\* The third look: a suspension or a termination that came meanwhile counts,
\* an unsuspension does not.
Recheck ==
    /\ At("recheck")
    /\ \/ /\ row.exists /\ row.status = "suspended"
          /\ BestEffort("locked")
          /\ Goto("ack", Latest(worker.acc))
       \/ /\ row.exists /\ row.status \in {"terminating", "terminated"}
          /\ Goto("retire", row)
          /\ UNCHANGED <<host, failed>>
       \/ /\ ~(row.exists /\ row.status \in {"suspended", "terminating", "terminated"})
          /\ Goto("ack", worker.acc)
          /\ UNCHANGED <<host, failed>>
    /\ UNCHANGED <<row, jobs, keys, clients, interrupts>>

\* acknowledgeAccountRevision: the desired revision is read again, the
\* observed one becomes the job's target, whatever it was.
Acknowledge(acc) ==
    [acc EXCEPT !.desired = IF row.exists THEN row.desired ELSE acc.desired,
                !.observed = jobs[worker.slot].target]

AcknowledgeRevision ==
    /\ \/ At("ack") /\ Goto("put", Acknowledge(worker.acc))
       \/ At("retireAck") /\ Goto("retirePut", Acknowledge(worker.acc))
    /\ UNCHANGED <<row, host, jobs, keys, clients, failed, interrupts>>

\* The end of provisionAccount: the row is written, then the migrated data,
\* whose error fails the attempt, and best-effort refreshes.
FinishProvision ==
    /\ At("put")
    /\ PutAccount(worker.acc)
    /\ \/ JobEnds("ok") /\ UNCHANGED failed
       \/ JobEnds("error") /\ CallFails
    /\ UNCHANGED <<host, keys, clients, interrupts>>

\* retireAccount: the databases and then the host's user go, or the attempt
\* fails.
RetireAccount ==
    /\ At("retire")
    /\ \/ /\ ~worker.stopped
          /\ host' = "absent"
          /\ Goto("retireAck", [worker.acc EXCEPT !.status = "terminated"])
          /\ UNCHANGED <<jobs, failed>>
       \/ /\ JobEnds("error")
          /\ CallFails
          /\ UNCHANGED host
    /\ UNCHANGED <<row, keys, clients, interrupts>>

PutTerminated ==
    /\ At("retirePut")
    /\ PutAccount(worker.acc)
    /\ Goto("purge", worker.acc)
    /\ UNCHANGED <<host, jobs, keys, clients, failed, interrupts>>

\* PurgeAccount, whatever the row says by now.
PurgeAccount ==
    /\ At("purge")
    /\ \/ row' = NoRow /\ JobEnds("ok") /\ UNCHANGED failed
       \/ JobEnds("error") /\ failed' = TRUE /\ UNCHANGED row
    /\ UNCHANGED <<host, keys, clients, interrupts>>

\* The process dies, and the job waits again when its lease has run out.
Crash ==
    /\ ~At("idle")
    /\ interrupts < MaxInterrupts
    /\ interrupts' = interrupts + 1
    /\ worker' = IdleWorker
    /\ UNCHANGED <<row, host, jobs, keys, clients, failed>>

\* A cancel, a shutdown or a lost lease cancels the attempt's context: calls of
\* the agent fail from now on, but the handler goes on, and so do its writes to
\* the row.
StopAttempt ==
    /\ ~At("idle") /\ ~worker.stopped
    /\ interrupts < MaxInterrupts
    /\ interrupts' = interrupts + 1
    /\ worker' = [worker EXCEPT !.stopped = TRUE]
    /\ UNCHANGED <<row, host, jobs, keys, clients, failed>>

\* Mutant: the drift scan enqueues without an idempotency key.
ScanDriftAlways ==
    /\ At("idle")
    /\ row.exists /\ row.desired > row.observed /\ row.status # "terminated"
    /\ Enqueue(row.desired)
    /\ UNCHANGED <<row, host, keys, worker, clients, failed, interrupts>>

\* scanDrift, when no job is due: one reconcile job for each revision, ever.
ScanDrift ==
    /\ At("idle")
    /\ row.exists /\ row.desired > row.observed /\ row.status # "terminated"
    /\ row.desired \notin keys
    /\ keys' = keys \cup {row.desired}
    /\ Enqueue(row.desired)
    /\ UNCHANGED <<row, host, worker, clients, failed, interrupts>>

-----------------------------------------------------------------------------
ApiStep ==
    \/ \E c \in Clients :
          \/ \E op \in Ops : ReadAccount(c, op)
          \/ UpdateAccountWithJob(c)
          \/ RemoveAccount(c)
          \/ RotatePassword(c)

WorkerStep ==
    \/ \E s \in Slots : StartAttempt(s)
    \/ CreateLinuxUser \/ EnsureStacks \/ ApplyStatus \/ Recheck
    \/ AcknowledgeRevision \/ FinishProvision
    \/ RetireAccount \/ PutTerminated \/ PurgeAccount

Next == ApiStep \/ WorkerStep \/ ScanDrift \/ Crash \/ StopAttempt

Spec == Init /\ [][Next]_vars

\* Run loops on a ticker and every call returns.  Clients owe nothing.
FairSpec == Spec /\ WF_vars(WorkerStep) /\ WF_vars(ScanDrift)

-----------------------------------------------------------------------------
(* Properties.                                                             *)

Settled == At("idle") /\ \A s \in Slots : jobs[s] = NoJob

\* The reconcile loop comes to rest: once the clients are done, the worker
\* runs out of jobs, although an account may drift for ever after a failed job
\* or a password rotation and scanDrift looks at it on every tick.
LoopQuiesces == <>[]Settled

\* When all jobs are done and no call of the agent ever failed, the host has
\* the status the panel shows, whichever updates raced with the attempts, were
\* rolled back by PutAccount or were cut short by a crash.
HostAgreesWhenSettled ==
    Settled /\ ~failed /\ row.exists =>
        /\ row.status = "suspended" <=> host = "locked"
        /\ row.status = "active" => host = "open"

\* TestReconcileKeepsLaterSuspend: a reconcile does not clear a suspension.
\* Only the API takes a row out of the status suspended.
ReconcileKeepsSuspend ==
    [][row.status = "suspended" /\ row'.exists /\ row'.status # "suspended"
       => \E c \in Clients : clients[c].op \in Ops /\ clients'[c].op = "done"]_vars

=============================================================================
