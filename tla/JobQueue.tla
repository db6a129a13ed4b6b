------------------------------ MODULE JobQueue ------------------------------
(***************************************************************************)
(* The durable job queue of the control plane: the jobs table, the         *)
(* resource_fences table and the worker processes that claim, heartbeat,   *)
(* execute and complete jobs (internal/store/postgres.go, fence.go and     *)
(* internal/job/worker.go).  Every SQL statement is one atomic step; what  *)
(* a worker process does between two statements interleaves with           *)
(* everything else.                                                        *)
(*                                                                         *)
(* Instants are kept as the time left until they pass, so that a lease, a  *)
(* heartbeat and a run_after count down to 0 and the state stays finite:   *)
(*   lease = 0   lease_expires <= now                                      *)
(*   hb    = 0   heartbeat_at  <= now - 2 minutes                          *)
(*   due   = 0   run_after     <= now                                      *)
(* and None stands for SQL NULL.                                           *)
(***************************************************************************)
EXTENDS Integers, FiniteSets

CONSTANTS Workers,      \* worker processes
          Names,        \* what they sign claims with: the host name
          NameOf,       \* the name of each worker; one host, one name
          Jobs,         \* job rows that may come into being
          Resources,    \* resource keys "type/id"
          ResourceOf,   \* the resource key of each job
          Priority,     \* its priority, lower first
          MaxAttempts,  \* max_attempts of every job (5 in the code)
          LeaseTTL,     \* JobLeaseTTL in clock ticks
          Backoff,      \* RetryDelay in clock ticks
          MaxFence,     \* bound: claims stop at this resource fence
          MaxFaults,    \* bound: crashes, shutdowns, lost writes, cancels
          NoJob, NoOwner

ASSUME JobQueueAssumption ==
    /\ IsFiniteSet(Jobs)
    /\ NameOf \in [Workers -> Names]
    /\ ResourceOf \in [Jobs -> Resources]
    /\ Priority \in [Jobs -> Nat]
    /\ MaxAttempts \in Nat \ {0}
    /\ LeaseTTL \in Nat \ {0}
    /\ Backoff \in Nat
    /\ MaxFence \in Nat
    /\ MaxFaults \in Nat
    /\ NoJob \notin Jobs
    /\ NoOwner \notin Names

VARIABLES jobs,       \* the jobs table
          resFence,   \* the resource_fences table
          workers,    \* each process: what it executes and its copy of the row
          lost,       \* history: leases of each job that expired
          faults      \* bound: faults so far

vars == <<jobs, resFence, workers, lost, faults>>

None == -1
Timer == Nat \cup {None}

Waiting  == {"queued", "retrying"}
Terminal == {"succeeded", "failed", "cancelled"}
States   == {"absent", "running"} \cup Waiting \cup Terminal

Row == [state : States, fence : Nat, owner : Names \cup {NoOwner},
        lease : Timer, hb : Timer, cancel : BOOLEAN,
        attempts : Nat, due : Nat, created : Nat]

\* A process between claims, after ClaimJob, and inside handle.  stopped is
\* ctx.Err() # nil; lease and hb are those of the process' copy of the row.
Process == [pc : {"idle", "claimed", "handling"}, job : Jobs \cup {NoJob},
            fence : Nat, attempts : Nat, lease : Timer, hb : Timer,
            stopped : BOOLEAN]

TypeOK ==
    /\ jobs \in [Jobs -> Row]
    /\ resFence \in [Resources -> Nat]
    /\ workers \in [Workers -> Process]
    /\ lost \in [Jobs -> Nat]
    /\ faults \in 0..MaxFaults

Absent == [state |-> "absent", fence |-> 0, owner |-> NoOwner,
           lease |-> None, hb |-> None, cancel |-> FALSE,
           attempts |-> 0, due |-> 0, created |-> 0]

Idle == [pc |-> "idle", job |-> NoJob, fence |-> 0, attempts |-> 0,
         lease |-> None, hb |-> None, stopped |-> FALSE]

Init ==
    /\ jobs = [j \in Jobs |-> Absent]
    /\ resFence = [r \in Resources |-> 0]
    /\ workers = [w \in Workers |-> Idle]
    /\ lost = [j \in Jobs |-> 0]
    /\ faults = 0

Greatest(a, b) == IF a > b THEN a ELSE b
Less(t) == IF t > 0 THEN t - 1 ELSE t
Busy(w) == workers[w].pc # "idle"
Present == {j \in Jobs : jobs[j].state # "absent"}

-----------------------------------------------------------------------------
(* The API: rows come into being and are cancelled.                        *)

\* EnqueueJob and insertJobTx after normalizeJob: a queued row with fence 0,
\* due at once.  created_at orders rows of one priority.
Queued == [Absent EXCEPT !.state = "queued", !.created = Cardinality(Present) + 1]

EnqueueJob(j) ==
    /\ jobs[j].state = "absent"
    /\ jobs' = [jobs EXCEPT ![j] = Queued]
    /\ UNCHANGED <<resFence, workers, lost, faults>>

\* retryJob: a failed job is never reopened, a copy of it is enqueued.
RetryJob(j, k) ==
    /\ jobs[j].state = "failed"
    /\ ResourceOf[k] = ResourceOf[j] /\ Priority[k] = Priority[j]
    /\ EnqueueJob(k)

\* CancelJob: only a queued or failed job; the fence stays.
CancelJob(j) ==
    /\ jobs[j].state \in {"queued", "failed"}
    /\ jobs' = [jobs EXCEPT ![j] = [@ EXCEPT !.state = "cancelled",
                    !.owner = NoOwner, !.lease = None, !.hb = None,
                    !.cancel = FALSE]]
    /\ UNCHANGED <<resFence, workers, lost, faults>>

\* RequestJobCancel: marks a running job for its worker's next heartbeat.
\* Every request costs an attempt, so they count against MaxFaults.
RequestJobCancel(j) ==
    /\ jobs[j].state = "running"
    /\ faults < MaxFaults
    /\ faults' = faults + 1
    /\ jobs' = [jobs EXCEPT ![j].cancel = TRUE]
    /\ UNCHANGED <<resFence, workers, lost>>

-----------------------------------------------------------------------------
(* A worker process.                                                       *)

\* Mutant: a retrying job is forgotten.
ClaimableOnce == {j \in Jobs : jobs[j].state = "queued" /\ jobs[j].due = 0}

Claimable == {j \in Jobs : jobs[j].state \in Waiting /\ jobs[j].due = 0}

Before(j, k) ==
    \/ Priority[j] < Priority[k]
    \/ Priority[j] = Priority[k] /\ jobs[j].created < jobs[k].created

\* FOR UPDATE SKIP LOCKED passes over the rows other claims have locked: at
\* most one for each other process that is not executing.
ClaimOrder(w, j) ==
    LET ahead == {k \in Claimable : Before(k, j)}
    IN  Cardinality(ahead) <= Cardinality({v \in Workers \ {w} : ~Busy(v)})

\* Mutant: the next fence comes from the row alone.
NextFenceOfRow(j) == jobs[j].fence + 1

\* nextResourceFenceTx.
NextFence(j) == Greatest(resFence[ResourceOf[j]], jobs[j].fence) + 1

\* ClaimJob: the row and the resource fence move in one transaction.  The
\* number of attempts is not compared with max_attempts here.
ClaimJob(w, j) ==
    /\ ~Busy(w)
    /\ j \in Claimable
    /\ ClaimOrder(w, j)
    /\ NextFence(j) <= MaxFence
    /\ resFence' = [resFence EXCEPT ![ResourceOf[j]] = NextFence(j)]
    /\ jobs' = [jobs EXCEPT ![j] = [@ EXCEPT !.state = "running",
                    !.owner = NameOf[w], !.lease = LeaseTTL, !.hb = LeaseTTL,
                    !.fence = NextFence(j), !.cancel = FALSE,
                    !.attempts = jobs[j].attempts + 1]]
    /\ workers' = [workers EXCEPT ![w] =
                    [pc |-> "claimed", job |-> j, fence |-> NextFence(j),
                     attempts |-> jobs[j].attempts + 1, lease |-> LeaseTTL,
                     hb |-> LeaseTTL, stopped |-> FALSE]]
    /\ UNCHANGED <<lost, faults>>

\* Mutants: the write is guarded by the state, or not at all.
AcceptRunning(w) == jobs[workers[w].job].state = "running"
AcceptAll(w) == TRUE

\* acceptJobMutation and the WHERE of UpdateJob.
AcceptJobMutation(w) ==
    LET row == jobs[workers[w].job]
    IN  row.fence = 0 \/ row.fence = workers[w].fence

\* UpdateJob writes the process' whole copy back: its owner, lease and
\* heartbeat as of the claim, cancel_requested = false, and the given state.
UpdateJob(w, state, hb, due) ==
    LET p == workers[w]
    IN  jobs' = [jobs EXCEPT ![p.job] = [@ EXCEPT !.state = state,
                    !.fence = p.fence, !.owner = NameOf[w],
                    !.lease = p.lease, !.hb = hb, !.cancel = FALSE,
                    !.attempts = p.attempts, !.due = due]]

\* execute up to handle: the heartbeat goroutine runs, progress 5 is stored;
\* an error ends the attempt.
StartExecution(w) ==
    /\ workers[w].pc = "claimed"
    /\ \/ /\ AcceptJobMutation(w)
          /\ UpdateJob(w, "running", workers[w].hb, 0)
          /\ workers' = [workers EXCEPT ![w].pc = "handling"]
       \/ /\ ~AcceptJobMutation(w)
          /\ workers' = [workers EXCEPT ![w] = Idle]
          /\ UNCHANGED jobs
    /\ UNCHANGED <<resFence, lost, faults>>

\* The progress a handler stores on its way: heartbeat_at is refreshed
\* (provisionAccount after each domain) or rewritten as the copy has it (its
\* end, retireAccount); lease_expires is always the one of the claim.
\* A stale fence makes the handler return; execute's last UpdateJob is then
\* refused as well.
ReportProgress(w) ==
    /\ workers[w].pc = "handling"
    /\ \/ /\ AcceptJobMutation(w)
          /\ \E hb \in {LeaseTTL, workers[w].hb} :
                /\ UpdateJob(w, "running", hb, 0)
                /\ workers' = [workers EXCEPT ![w].hb = hb]
       \/ /\ ~AcceptJobMutation(w)
          /\ workers' = [workers EXCEPT ![w] = Idle]
          /\ UNCHANGED jobs
    /\ UNCHANGED <<resFence, lost, faults>>

\* One tick of heartbeatUntil: a requested cancel stops the attempt without
\* extending the lease; else HeartbeatJob extends it, or stops the attempt
\* when the row is no longer this claim's.
HeartbeatJob(w) ==
    LET p == workers[w]
        row == jobs[p.job]
    IN  /\ Busy(w) /\ ~p.stopped
        /\ \/ /\ ~row.cancel
              /\ row.state = "running" /\ row.owner = NameOf[w]
              /\ row.fence = p.fence
              /\ jobs' = [jobs EXCEPT ![p.job] = [@ EXCEPT
                              !.lease = LeaseTTL, !.hb = LeaseTTL]]
              /\ UNCHANGED workers
           \/ /\ row.cancel \/ row.state # "running"
                 \/ row.owner # NameOf[w] \/ row.fence # p.fence
              /\ workers' = [workers EXCEPT ![w].stopped = TRUE]
              /\ UNCHANGED jobs
        /\ UNCHANGED <<resFence, lost, faults>>

\* The outcome execute records: handle succeeded, failed with a retryable
\* error, or failed because the resource is gone (the error says missing).
Outcomes == {"ok", "error", "gone"}

\* Mutants: one attempt too many; a state the schema does not know.
FinalStateOneMore(outcome, attempts) ==
    CASE outcome = "ok" -> "succeeded"
      [] outcome = "gone" \/ attempts > MaxAttempts -> "failed"
      [] OTHER -> "retrying"
FinalStateUnknown(outcome, attempts) ==
    IF outcome = "ok" THEN "success" ELSE "failed"

FinalState(outcome, attempts) ==
    CASE outcome = "ok" -> "succeeded"
      [] outcome = "gone" \/ attempts >= MaxAttempts -> "failed"
      [] OTHER -> "retrying"

\* execute after handle returned with the context alive.  The error of the
\* last UpdateJob is ignored, so a stale process just goes idle.
FinishExecution(w, outcome) ==
    LET final == FinalState(outcome, workers[w].attempts)
    IN  /\ workers[w].pc = "handling" /\ ~workers[w].stopped
        /\ \/ /\ AcceptJobMutation(w)
              /\ UpdateJob(w, final, workers[w].hb,
                           IF final = "retrying" THEN Backoff ELSE 0)
           \/ /\ ~AcceptJobMutation(w)
              /\ UNCHANGED jobs
        /\ workers' = [workers EXCEPT ![w] = Idle]
        /\ UNCHANGED <<resFence, lost, faults>>

\* execute after handle returned with the context cancelled: nothing is
\* written and the row stays running until its lease expires.
AbandonExecution(w) ==
    /\ workers[w].pc = "handling" /\ workers[w].stopped
    /\ workers' = [workers EXCEPT ![w] = Idle]
    /\ UNCHANGED <<jobs, resFence, lost, faults>>

\* reap, run by a process that is not executing: one UPDATE over all running
\* rows whose lease or heartbeat is too old.  Only the row's fence moves, not
\* the resource's.
Stale(j) ==
    /\ jobs[j].state = "running"
    /\ jobs[j].lease = 0 \/ jobs[j].hb = 0

\* Mutant: expiry leaves the fence with the process that lost the lease.
ExpiredSameFence(row) ==
    [row EXCEPT !.state = "retrying", !.owner = NoOwner, !.lease = None,
                !.hb = None, !.cancel = FALSE, !.due = 0]

Expired(row) ==
    [row EXCEPT !.state = "retrying", !.owner = NoOwner, !.lease = None,
                !.hb = None, !.cancel = FALSE, !.fence = row.fence + 1,
                !.due = 0]

ExpireStaleLeases(w) ==
    /\ ~Busy(w)
    /\ \E j \in Jobs : Stale(j)
    /\ jobs' = [j \in Jobs |-> IF Stale(j) THEN Expired(jobs[j]) ELSE jobs[j]]
    /\ lost' = [j \in Jobs |-> IF Stale(j) THEN lost[j] + 1 ELSE lost[j]]
    /\ UNCHANGED <<resFence, workers, faults>>

-----------------------------------------------------------------------------
(* The environment.                                                        *)

\* A worker process dies, or an UpdateJob of execute fails in the database:
\* either way the attempt ends and the row is left as it was.
LoseExecution(w) ==
    /\ Busy(w)
    /\ faults < MaxFaults
    /\ faults' = faults + 1
    /\ workers' = [workers EXCEPT ![w] = Idle]
    /\ UNCHANGED <<jobs, resFence, lost>>

\* A graceful shutdown cancels the context execute was given.
Shutdown(w) ==
    /\ Busy(w) /\ ~workers[w].stopped
    /\ faults < MaxFaults
    /\ faults' = faults + 1
    /\ workers' = [workers EXCEPT ![w].stopped = TRUE]
    /\ UNCHANGED <<jobs, resFence, lost>>

\* Time passes for every lease, heartbeat and run_after.
Tick ==
    /\ jobs' = [j \in Jobs |-> [jobs[j] EXCEPT !.lease = Less(@),
                                    !.hb = Less(@), !.due = Less(@)]]
    /\ workers' = [w \in Workers |-> [workers[w] EXCEPT !.lease = Less(@),
                                          !.hb = Less(@)]]
    /\ UNCHANGED <<resFence, lost, faults>>

-----------------------------------------------------------------------------
WorkerStep(w) ==
    \/ \E j \in Jobs : ClaimJob(w, j)
    \/ StartExecution(w)
    \/ ReportProgress(w)
    \/ HeartbeatJob(w)
    \/ \E outcome \in Outcomes : FinishExecution(w, outcome)
    \/ AbandonExecution(w)
    \/ ExpireStaleLeases(w)

ApiStep ==
    \/ \E j \in Jobs : EnqueueJob(j) \/ CancelJob(j) \/ RequestJobCancel(j)
    \/ \E j, k \in Jobs : RetryJob(j, k)

Next ==
    \/ \E w \in Workers : WorkerStep(w) \/ LoseExecution(w) \/ Shutdown(w)
    \/ ApiStep
    \/ Tick

Spec == Init /\ [][Next]_vars

\* What the processes do goes on by itself: Run loops on a ticker, and a
\* handler returns because every agent call it makes returns.  Nobody has to
\* cancel, retry or crash anything.
FairSpec ==
    /\ Spec
    /\ WF_vars(Tick)
    /\ \A w \in Workers :
          /\ WF_vars(\E j \in Jobs : ClaimJob(w, j))
          /\ WF_vars(StartExecution(w))
          /\ WF_vars(AbandonExecution(w)
                     \/ \E outcome \in Outcomes : FinishExecution(w, outcome))
          /\ WF_vars(ExpireStaleLeases(w))

-----------------------------------------------------------------------------
(* Properties.                                                             *)

\* A process that executes a job never runs ahead of the row's fence, and
\* while the fences agree the row still is the claim this process made: it is
\* running, signed by the process, with the attempt number the process has.
\* UpdateJob's single comparison of fences is sound only because of this.
HolderOwnsRow ==
    \A w \in Workers : Busy(w) =>
        LET row == jobs[workers[w].job]
        IN  /\ workers[w].fence <= row.fence
            /\ row.fence = workers[w].fence =>
                  /\ row.state = "running"
                  /\ row.owner = NameOf[w]
                  /\ row.attempts = workers[w].attempts

\* No two processes ever work on one resource with the same fence, also not
\* through two jobs, although expiry moves the fence of the row but not the
\* fence of the resource: the agent tells the two apart by fence alone.
FencesNotShared ==
    \A v, w \in Workers :
        /\ v # w /\ Busy(v) /\ Busy(w)
        /\ ResourceOf[workers[v].job] = ResourceOf[workers[w].job]
        => workers[v].fence # workers[w].fence

\* Errors use up attempts: a job is claimed at most max_attempts times plus
\* once for each lease it lost, however cancels, copies written back and
\* expiries interleave.
AttemptsBounded ==
    \A j \in Jobs : jobs[j].attempts <= MaxAttempts + lost[j]

\* A running attempt ends in the table in two ways only: its lease expires,
\* which takes the fence away from the process, or the process that holds the
\* current fence and was not told to stop records the outcome.
AttemptEndsOnce ==
    [][\A j \in Jobs :
          /\ jobs[j].state = "running" /\ jobs'[j].state # "running"
          => \/ /\ jobs'[j].state = "retrying"
                /\ jobs'[j].fence > jobs[j].fence
             \/ \E w \in Workers :
                   /\ workers[w].job = j /\ workers[w].fence = jobs[j].fence
                   /\ ~workers[w].stopped
                   /\ workers'[w].pc = "idle"]_vars

\* The queue implements its abstract lifecycle: the row's state and fence move
\* only by submission, grant under a fresh fence, settlement under the granted
\* fence, revocation, and cancellation of a queued or failed job.  So no late
\* process, reaper or operator reopens a finished job or reuses a fence.
Lifecycle == INSTANCE JobLifecycle
                WITH state <- [j \in Jobs |-> jobs[j].state],
                     fence <- [j \in Jobs |-> jobs[j].fence]

ImplementsLifecycle == Lifecycle!Spec

\* Every enqueued job is settled in the end: it succeeds, fails or is
\* cancelled, after any bounded number of crashes, lost writes and cancels.
EveryJobSettles ==
    \A j \in Jobs :
        jobs[j].state # "absent" ~> jobs[j].state \in Terminal

-----------------------------------------------------------------------------
(* The strengthening that makes the invariants inductive (JobQueueProofs). *)

\* A process executes a job of the table, under a fence the resource reached.
HoldersLinked ==
    \A w \in Workers : Busy(w) =>
        /\ workers[w].job \in Jobs
        /\ workers[w].fence <= resFence[ResourceOf[workers[w].job]]

\* A row that does not exist yet was never claimed.
AbsentUnfenced ==
    \A j \in Jobs : jobs[j].state = "absent" => jobs[j].fence = 0

\* A job that waits has an attempt left, counting the leases it lost.
WaitingHasAttempt ==
    \A j \in Jobs :
        jobs[j].state \in Waiting => jobs[j].attempts < MaxAttempts + lost[j]

IndInv ==
    /\ TypeOK
    /\ HolderOwnsRow
    /\ FencesNotShared
    /\ HoldersLinked
    /\ AbsentUnfenced
    /\ AttemptsBounded
    /\ WaitingHasAttempt
=============================================================================
