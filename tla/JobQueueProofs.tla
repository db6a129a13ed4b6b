--------------------------- MODULE JobQueueProofs ---------------------------
(***************************************************************************)
(* Proofs about JobQueue, for any number of workers, jobs, resources and   *)
(* attempts and for any bounds, and then about FencedEffects: the queue    *)
(* with the agent, for any number of restarts of the agent.                *)
(***************************************************************************)
EXTENDS FencedEffects, FiniteSetTheorems, TLAPS

\* A count-down step keeps a timer a timer and a delay a delay.
LEMMA LessType ==
    /\ \A t \in Timer : Less(t) \in Timer
    /\ \A t \in Nat : Less(t) \in Nat
  BY DEF Less, Timer, None

\* The fence of the next claim is a number above both fences it is made from.
LEMMA NextFenceType ==
    ASSUME TypeOK, NEW j \in Jobs
    PROVE  /\ NextFence(j) \in Nat
           /\ NextFence(j) > resFence[ResourceOf[j]]
           /\ NextFence(j) > jobs[j].fence
  BY JobQueueAssumption DEF NextFence, Greatest, TypeOK, Row

\* execute settles an attempt in a state of the table.
LEMMA FinalStateType ==
    ASSUME NEW outcome \in Outcomes, NEW attempts \in Nat
    PROVE  FinalState(outcome, attempts) \in {"succeeded", "failed", "retrying"}
  BY DEF FinalState, Outcomes

\* The idle process and the absent row are well typed.
LEMMA IdleType == Idle \in Process /\ Absent \in Row
  BY DEF Idle, Process, Absent, Row, Timer, None, States, Waiting, Terminal

\* What UpdateJob writes is a row.
LEMMA UpdateJobType ==
    ASSUME TypeOK, NEW w \in Workers, workers[w].job \in Jobs,
           NEW state \in States, NEW hb \in Timer, NEW due \in Nat,
           UpdateJob(w, state, hb, due)
    PROVE  jobs' \in [Jobs -> Row]
<1> DEFINE p == workers[w]
           row == [jobs[p.job] EXCEPT !.state = state, !.fence = p.fence,
                      !.owner = NameOf[w], !.lease = p.lease, !.hb = hb,
                      !.cancel = FALSE, !.attempts = p.attempts, !.due = due]
<1>1. p \in Process /\ jobs[p.job] \in Row /\ NameOf[w] \in Names
  BY JobQueueAssumption DEF TypeOK
<1>2. row \in Row
  BY <1>1 DEF Row, Process
<1>3. jobs' = [jobs EXCEPT ![p.job] = row]
  BY DEF UpdateJob
<1> QED
  BY <1>2, <1>3 DEF TypeOK

-----------------------------------------------------------------------------
(* Type correctness.  It needs one fact beside the types: a process that   *)
(* executes something executes a job of the table.                         *)

HoldersKnown == \A w \in Workers : Busy(w) => workers[w].job \in Jobs

TypeInv == TypeOK /\ HoldersKnown

\* The API's steps keep the table well typed and touch no process.
LEMMA ApiTyped == TypeOK /\ ApiStep => TypeOK' /\ UNCHANGED workers
<1> SUFFICES ASSUME TypeOK, ApiStep PROVE TypeOK' /\ UNCHANGED workers
  OBVIOUS
<1>1. ASSUME NEW j \in Jobs, EnqueueJob(j) PROVE TypeOK' /\ UNCHANGED workers
  <2>1. Cardinality(Present) \in Nat
    BY JobQueueAssumption, FS_Subset, FS_CardinalityType DEF Present
  <2>2. Queued \in Row
    <3>1. /\ Absent \in Row /\ "queued" \in States
          /\ Cardinality(Present) + 1 \in Nat
      BY <2>1, IdleType DEF States, Waiting
    <3> QED
      BY <3>1 DEF Queued, Row
  <2> QED
    BY <1>1, <2>2 DEF EnqueueJob, TypeOK
<1>2. ASSUME NEW j \in Jobs, CancelJob(j) PROVE TypeOK' /\ UNCHANGED workers
  <2> DEFINE row == [jobs[j] EXCEPT !.state = "cancelled", !.owner = NoOwner,
                        !.lease = None, !.hb = None, !.cancel = FALSE]
  <2>1. row \in Row
    BY DEF TypeOK, Row, States, Terminal, Timer
  <2> QED
    BY <1>2, <2>1 DEF CancelJob, TypeOK
<1>3. ASSUME NEW j \in Jobs, RequestJobCancel(j)
      PROVE  TypeOK' /\ UNCHANGED workers
  <2>1. [jobs[j] EXCEPT !.cancel = TRUE] \in Row
    BY DEF TypeOK, Row
  <2> QED
    BY <1>3, <2>1, JobQueueAssumption DEF RequestJobCancel, TypeOK
<1>4. ASSUME NEW j \in Jobs, NEW k \in Jobs, RetryJob(j, k)
      PROVE  TypeOK' /\ UNCHANGED workers
  BY <1>1, <1>4 DEF RetryJob
<1> QED
  BY <1>1, <1>2, <1>3, <1>4 DEF ApiStep

\* A process that leaves, or changes only its timers and its program counter,
\* leaves the processes well typed and still on jobs of the table.
LEMMA ProcessTyped ==
    ASSUME TypeInv, NEW w \in Workers, NEW p \in Process,
           p.pc # "idle" => p.job \in Jobs,
           workers' = [workers EXCEPT ![w] = p]
    PROVE  workers' \in [Workers -> Process] /\ HoldersKnown'
  BY DEF TypeInv, TypeOK, HoldersKnown, Busy

\* Every step of a process keeps the types.
LEMMA WorkerTyped ==
    ASSUME TypeInv, NEW w \in Workers, WorkerStep(w)
    PROVE  TypeInv'
<1> USE DEF TypeInv
<1>p. workers[w] \in Process /\ (Busy(w) => workers[w].job \in Jobs)
  BY DEF TypeOK, HoldersKnown
<1>i. Idle \in Process /\ Idle.pc = "idle"
  BY IdleType DEF Idle
<1>1. ASSUME NEW j \in Jobs, ClaimJob(w, j) PROVE TypeInv'
  <2> DEFINE row == [jobs[j] EXCEPT !.state = "running", !.owner = NameOf[w],
                        !.lease = LeaseTTL, !.hb = LeaseTTL,
                        !.fence = NextFence(j), !.cancel = FALSE,
                        !.attempts = jobs[j].attempts + 1]
             p == [pc |-> "claimed", job |-> j, fence |-> NextFence(j),
                   attempts |-> jobs[j].attempts + 1, lease |-> LeaseTTL,
                   hb |-> LeaseTTL, stopped |-> FALSE]
  <2>1. NextFence(j) \in Nat
    BY NextFenceType
  <2>2. row \in Row
    <3>1. /\ jobs[j] \in Row /\ NameOf[w] \in Names
          /\ LeaseTTL \in Timer /\ "running" \in States
      BY JobQueueAssumption DEF TypeOK, Timer, States
    <3>2. jobs[j].attempts + 1 \in Nat
      BY <3>1 DEF Row
    <3> QED
      BY <2>1, <3>1, <3>2 DEF Row
  <2>3. p \in Process
    BY <2>1, JobQueueAssumption DEF TypeOK, Row, Process, Timer
  <2>4. workers' \in [Workers -> Process] /\ HoldersKnown'
    BY <1>1, <2>3, ProcessTyped DEF ClaimJob
  <2>5. jobs' \in [Jobs -> Row]
    <3>1. jobs' = [jobs EXCEPT ![j] = row]
      BY <1>1 DEF ClaimJob
    <3> HIDE DEF row
    <3> QED
      BY <2>2, <3>1 DEF TypeOK
  <2>6. resFence' \in [Resources -> Nat] /\ UNCHANGED <<lost, faults>>
    BY <1>1, <2>1 DEF ClaimJob, TypeOK
  <2> QED
    BY <2>4, <2>5, <2>6 DEF TypeOK
<1>2. CASE StartExecution(w)
  <2>1. Busy(w)
    BY <1>2 DEF StartExecution, Busy
  <2>2. CASE AcceptJobMutation(w) /\ UpdateJob(w, "running", workers[w].hb, 0)
             /\ workers' = [workers EXCEPT ![w].pc = "handling"]
    <3> DEFINE p == [workers[w] EXCEPT !.pc = "handling"]
    <3>1. p \in Process /\ (p.pc # "idle" => p.job \in Jobs)
      BY <1>p, <2>1 DEF Process
    <3>2. workers' = [workers EXCEPT ![w] = p]
      BY <2>2
    <3>3. workers' \in [Workers -> Process] /\ HoldersKnown'
      BY <3>1, <3>2, ProcessTyped
    <3>4. "running" \in States /\ workers[w].hb \in Timer
      BY <1>p DEF States, Process
    <3>5. jobs' \in [Jobs -> Row]
      BY <1>p, <2>1, <2>2, <3>4, UpdateJobType
    <3> QED
      BY <1>2, <3>3, <3>5 DEF StartExecution, TypeOK
  <2>3. CASE workers' = [workers EXCEPT ![w] = Idle] /\ UNCHANGED jobs
    <3>1. workers' \in [Workers -> Process] /\ HoldersKnown'
      BY <1>i, <2>3, ProcessTyped
    <3> QED
      BY <1>2, <2>3, <3>1 DEF StartExecution, TypeOK
  <2> QED
    BY <1>2, <2>2, <2>3 DEF StartExecution
<1>3. CASE ReportProgress(w)
  <2>1. Busy(w)
    BY <1>3 DEF ReportProgress, Busy
  <2>2. ASSUME NEW hb \in {LeaseTTL, workers[w].hb},
               UpdateJob(w, "running", hb, 0),
               workers' = [workers EXCEPT ![w].hb = hb]
        PROVE  TypeInv'
    <3> DEFINE p == [workers[w] EXCEPT !.hb = hb]
    <3>1. hb \in Timer /\ "running" \in States
      BY <1>p, JobQueueAssumption DEF Process, Timer, States
    <3>2. p \in Process /\ (p.pc # "idle" => p.job \in Jobs)
      BY <1>p, <2>1, <3>1 DEF Process
    <3>3. workers' = [workers EXCEPT ![w] = p]
      BY <2>2
    <3>4. workers' \in [Workers -> Process] /\ HoldersKnown'
      BY <3>2, <3>3, ProcessTyped
    <3>5. jobs' \in [Jobs -> Row]
      BY <1>p, <2>1, <2>2, <3>1, UpdateJobType
    <3> QED
      BY <1>3, <3>4, <3>5 DEF ReportProgress, TypeOK
  <2>3. CASE workers' = [workers EXCEPT ![w] = Idle] /\ UNCHANGED jobs
    <3>1. workers' \in [Workers -> Process] /\ HoldersKnown'
      BY <1>i, <2>3, ProcessTyped
    <3> QED
      BY <1>3, <2>3, <3>1 DEF ReportProgress, TypeOK
  <2> QED
    BY <1>3, <2>2, <2>3 DEF ReportProgress
<1>4. CASE HeartbeatJob(w)
  <2>1. Busy(w)
    BY <1>4 DEF HeartbeatJob
  <2>2. CASE UNCHANGED workers /\ jobs' = [jobs EXCEPT ![workers[w].job] =
                [@ EXCEPT !.lease = LeaseTTL, !.hb = LeaseTTL]]
    <3> DEFINE row == [jobs[workers[w].job] EXCEPT !.lease = LeaseTTL,
                          !.hb = LeaseTTL]
    <3>1. row \in Row
      <4>1. jobs[workers[w].job] \in Row /\ LeaseTTL \in Timer
        BY <1>p, <2>1, JobQueueAssumption DEF TypeOK, Timer
      <4> QED
        BY <4>1 DEF Row
    <3>2. jobs' \in [Jobs -> Row]
      BY <2>2, <3>1 DEF TypeOK
    <3> QED
      BY <1>4, <2>2, <3>2 DEF HeartbeatJob, TypeOK, HoldersKnown, Busy
  <2>3. CASE workers' = [workers EXCEPT ![w].stopped = TRUE] /\ UNCHANGED jobs
    <3> DEFINE p == [workers[w] EXCEPT !.stopped = TRUE]
    <3>1. p \in Process /\ (p.pc # "idle" => p.job \in Jobs)
      BY <1>p, <2>1 DEF Process
    <3>2. workers' = [workers EXCEPT ![w] = p]
      BY <2>3
    <3>3. workers' \in [Workers -> Process] /\ HoldersKnown'
      BY <3>1, <3>2, ProcessTyped
    <3> QED
      BY <1>4, <2>3, <3>3 DEF HeartbeatJob, TypeOK
  <2> QED
    BY <1>4, <2>2, <2>3 DEF HeartbeatJob
<1>5. ASSUME NEW outcome \in Outcomes, FinishExecution(w, outcome)
      PROVE  TypeInv'
  <2> DEFINE final == FinalState(outcome, workers[w].attempts)
             due == IF final = "retrying" THEN Backoff ELSE 0
  <2>1. Busy(w)
    BY <1>5 DEF FinishExecution, Busy
  <2>2. workers' \in [Workers -> Process] /\ HoldersKnown'
    BY <1>5, <1>i, ProcessTyped DEF FinishExecution
  <2>3. workers[w].attempts \in Nat /\ workers[w].hb \in Timer
    BY <1>p DEF Process
  <2>4. final \in States /\ due \in Nat
    BY <2>3, FinalStateType, JobQueueAssumption DEF States, Waiting, Terminal
  <2>5. jobs' \in [Jobs -> Row]
    <3>1. CASE UNCHANGED jobs
      BY <3>1 DEF TypeOK
    <3>2. CASE UpdateJob(w, final, workers[w].hb, due)
      <4> HIDE DEF final, due
      <4> QED
        BY <1>p, <2>1, <2>3, <2>4, <3>2, UpdateJobType
    <3> QED
      BY <1>5, <3>1, <3>2 DEF FinishExecution
  <2> QED
    BY <1>5, <2>2, <2>5 DEF FinishExecution, TypeOK
<1>6. CASE AbandonExecution(w)
  <2>1. workers' \in [Workers -> Process] /\ HoldersKnown'
    BY <1>6, <1>i, ProcessTyped DEF AbandonExecution
  <2> QED
    BY <1>6, <2>1 DEF AbandonExecution, TypeOK
<1>7. CASE ExpireStaleLeases(w)
  <2>1. ASSUME NEW j \in Jobs PROVE jobs'[j] \in Row
    <3>1. jobs[j] \in Row /\ None \in Timer /\ "retrying" \in States
      BY DEF TypeOK, Timer, States, Waiting
    <3>2. Expired(jobs[j]) \in Row
      <4>1. jobs[j].fence + 1 \in Nat
        BY <3>1 DEF Row
      <4> QED
        BY <3>1, <4>1 DEF Row, Expired
    <3> QED
      BY <1>7, <3>1, <3>2 DEF ExpireStaleLeases
  <2>2. jobs' \in [Jobs -> Row]
    <3>1. jobs' = [j \in Jobs |-> jobs'[j]]
      BY <1>7 DEF ExpireStaleLeases
    <3> QED
      BY <2>1, <3>1
  <2>3. lost' \in [Jobs -> Nat]
    <3>1. ASSUME NEW j \in Jobs PROVE lost'[j] \in Nat
      <4>1. lost[j] \in Nat
        BY DEF TypeOK
      <4>2. lost'[j] = lost[j] + 1 \/ lost'[j] = lost[j]
        BY <1>7 DEF ExpireStaleLeases
      <4> QED
        BY <4>1, <4>2
    <3>2. lost' = [j \in Jobs |-> lost'[j]]
      BY <1>7 DEF ExpireStaleLeases
    <3> QED
      BY <3>1, <3>2
  <2> QED
    BY <1>7, <2>2, <2>3 DEF ExpireStaleLeases, TypeOK, HoldersKnown, Busy
<1> QED
  BY <1>1, <1>2, <1>3, <1>4, <1>5, <1>6, <1>7 DEF WorkerStep

\* So do crashes, shutdowns and the clock.
LEMMA EnvironmentTyped ==
    ASSUME TypeInv,
           \/ \E w \in Workers : LoseExecution(w) \/ Shutdown(w)
           \/ Tick
    PROVE  TypeInv'
<1> USE DEF TypeInv
<1>1. ASSUME NEW w \in Workers, LoseExecution(w) PROVE TypeInv'
  <2>1. Idle \in Process /\ Idle.pc = "idle"
    BY IdleType DEF Idle
  <2>2. workers' \in [Workers -> Process] /\ HoldersKnown'
    BY <1>1, <2>1, ProcessTyped DEF LoseExecution
  <2> QED
    BY <1>1, <2>2, JobQueueAssumption DEF LoseExecution, TypeOK
<1>2. ASSUME NEW w \in Workers, Shutdown(w) PROVE TypeInv'
  <2> DEFINE p == [workers[w] EXCEPT !.stopped = TRUE]
  <2>1. p \in Process /\ (p.pc # "idle" => p.job \in Jobs)
    BY <1>2 DEF Shutdown, TypeOK, Process, HoldersKnown, Busy
  <2>2. workers' = [workers EXCEPT ![w] = p]
    BY <1>2 DEF Shutdown
  <2>3. workers' \in [Workers -> Process] /\ HoldersKnown'
    BY <2>1, <2>2, ProcessTyped
  <2> QED
    BY <1>2, <2>3, JobQueueAssumption DEF Shutdown, TypeOK
<1>3. CASE Tick
  <2>1. ASSUME NEW j \in Jobs PROVE jobs'[j] \in Row
    <3>1. jobs[j] \in Row
      BY DEF TypeOK
    <3>2. /\ Less(jobs[j].lease) \in Timer /\ Less(jobs[j].hb) \in Timer
          /\ Less(jobs[j].due) \in Nat
      BY <3>1, LessType DEF Row
    <3>3. jobs'[j] = [jobs[j] EXCEPT !.lease = Less(jobs[j].lease),
                         !.hb = Less(jobs[j].hb), !.due = Less(jobs[j].due)]
      BY <1>3 DEF Tick
    <3> QED
      BY <3>1, <3>2, <3>3 DEF Row
  <2>2. ASSUME NEW w \in Workers
        PROVE  /\ workers'[w] \in Process
               /\ workers'[w].pc = workers[w].pc
               /\ workers'[w].job = workers[w].job
    <3>1. workers[w] \in Process
      BY DEF TypeOK
    <3>2. Less(workers[w].lease) \in Timer /\ Less(workers[w].hb) \in Timer
      BY <3>1, LessType DEF Process
    <3>3. workers'[w] = [workers[w] EXCEPT !.lease = Less(workers[w].lease),
                            !.hb = Less(workers[w].hb)]
      BY <1>3 DEF Tick
    <3> QED
      BY <3>1, <3>2, <3>3 DEF Process
  <2>3. /\ jobs' = [j \in Jobs |-> jobs'[j]]
        /\ workers' = [w \in Workers |-> workers'[w]]
    BY <1>3 DEF Tick
  <2>4. jobs' \in [Jobs -> Row] /\ workers' \in [Workers -> Process]
    BY <2>1, <2>2, <2>3
  <2> QED
    BY <1>3, <2>2, <2>4 DEF Tick, TypeOK, HoldersKnown, Busy
<1> QED
  BY <1>1, <1>2, <1>3

\* The initial state is well typed and nobody executes anything.
LEMMA InitTyped == Init => TypeInv
  BY IdleType, JobQueueAssumption
     DEF Init, TypeInv, TypeOK, HoldersKnown, Busy, Idle

\* Every step keeps the types.
LEMMA StepTyped == TypeInv /\ [Next]_vars => TypeInv'
<1>1. TypeInv /\ ApiStep => TypeInv'
  BY ApiTyped DEF TypeInv, HoldersKnown, Busy
<1>2. TypeInv /\ UNCHANGED vars => TypeInv'
  BY DEF vars, TypeInv, TypeOK, HoldersKnown, Busy
<1> QED
  BY <1>1, <1>2, WorkerTyped, EnvironmentTyped DEF Next

\* Every state of the queue is well typed: the jobs table, the resource fences
\* and the processes' copies of the rows hold what the schema says.
THEOREM TypeCorrect == Spec => []TypeOK
<1>1. TypeInv => TypeOK
  BY DEF TypeInv
<1> QED
  BY <1>1, InitTyped, StepTyped, PTL DEF Spec

-----------------------------------------------------------------------------
(* The safety invariants.  Most steps are quiet: they change timers,       *)
(* program counters and cancel flags, or make a process leave.  Only five  *)
(* steps matter: enqueue, cancel, claim, settle and expire.                *)

SameHolders ==
    \A w \in Workers : Busy(w)' =>
        /\ Busy(w)
        /\ workers'[w].job = workers[w].job
        /\ workers'[w].fence = workers[w].fence
        /\ workers'[w].attempts = workers[w].attempts

SameRows ==
    \A j \in Jobs :
        /\ jobs'[j].state = jobs[j].state
        /\ jobs'[j].fence = jobs[j].fence
        /\ jobs'[j].owner = jobs[j].owner
        /\ jobs'[j].attempts = jobs[j].attempts

\* When no process takes a job, no fence is shared and no link breaks.
LEMMA HoldersKept ==
    ASSUME IndInv, SameHolders, UNCHANGED resFence
    PROVE  FencesNotShared' /\ HoldersLinked'
<1>1. FencesNotShared'
  BY DEF IndInv, SameHolders, FencesNotShared
<1>2. HoldersLinked'
  BY DEF IndInv, SameHolders, HoldersLinked
<1> QED
  BY <1>1, <1>2

\* A step that changes no state, fence, owner or attempt count is harmless.
LEMMA QuietStep ==
    ASSUME IndInv, TypeOK', SameHolders, SameRows, UNCHANGED <<resFence, lost>>
    PROVE  IndInv'
<1>1. FencesNotShared' /\ HoldersLinked'
  BY HoldersKept
<1>2. HolderOwnsRow'
  <2> SUFFICES ASSUME NEW w \in Workers, Busy(w)'
               PROVE  LET row == jobs'[workers'[w].job]
                      IN  /\ workers'[w].fence <= row.fence
                          /\ row.fence = workers'[w].fence =>
                                /\ row.state = "running"
                                /\ row.owner = NameOf[w]
                                /\ row.attempts = workers'[w].attempts
    BY DEF HolderOwnsRow
  <2>1. Busy(w) /\ workers[w].job \in Jobs /\ workers'[w].job = workers[w].job
    BY DEF SameHolders, IndInv, HoldersLinked
  <2> QED
    BY <2>1 DEF SameHolders, SameRows, IndInv, HolderOwnsRow
<1>3. AbsentUnfenced' /\ AttemptsBounded' /\ WaitingHasAttempt'
  BY DEF IndInv, SameRows, AbsentUnfenced, AttemptsBounded, WaitingHasAttempt
<1> QED
  BY <1>1, <1>2, <1>3 DEF IndInv

\* A process whose write is accepted holds the row: the comparison of fences
\* in UpdateJob tells the holder from every other process.
LEMMA AcceptedHolds ==
    ASSUME IndInv, NEW w \in Workers, Busy(w), AcceptJobMutation(w)
    PROVE  LET row == jobs[workers[w].job]
           IN  /\ row.fence = workers[w].fence
               /\ row.state = "running"
               /\ row.owner = NameOf[w]
               /\ row.attempts = workers[w].attempts
<1>1. workers[w].fence \in Nat /\ workers[w].job \in Jobs
  BY DEF IndInv, TypeOK, Process, HoldersLinked
<1>2. jobs[workers[w].job].fence \in Nat
  BY <1>1 DEF IndInv, TypeOK, Row
<1>3. jobs[workers[w].job].fence = workers[w].fence
  BY <1>1, <1>2 DEF IndInv, HolderOwnsRow, AcceptJobMutation
<1> QED
  BY <1>3 DEF IndInv, HolderOwnsRow

\* What an accepted write changes: nothing but the state, and only on the row
\* of the job the process executes.
LEMMA AcceptedWrite ==
    ASSUME IndInv, NEW w \in Workers, Busy(w), AcceptJobMutation(w),
           NEW state, NEW hb, NEW due, UpdateJob(w, state, hb, due)
    PROVE  \A j \in Jobs :
              /\ jobs'[j].fence = jobs[j].fence
              /\ jobs'[j].owner = jobs[j].owner
              /\ jobs'[j].attempts = jobs[j].attempts
              /\ j # workers[w].job => jobs'[j].state = jobs[j].state
              /\ j = workers[w].job => jobs'[j].state = state
<1>1. workers[w].job \in Jobs /\ jobs \in [Jobs -> Row]
  BY DEF IndInv, TypeOK, HoldersLinked
<1> SUFFICES ASSUME NEW j \in Jobs
             PROVE  /\ jobs'[j].fence = jobs[j].fence
                    /\ jobs'[j].owner = jobs[j].owner
                    /\ jobs'[j].attempts = jobs[j].attempts
                    /\ j # workers[w].job => jobs'[j].state = jobs[j].state
                    /\ j = workers[w].job => jobs'[j].state = state
  OBVIOUS
<1>2. CASE j # workers[w].job
  BY <1>1, <1>2 DEF UpdateJob
<1>3. CASE j = workers[w].job
  <2>1. jobs[j] \in Row
    BY <1>1
  <2>2. /\ jobs'[j].fence = workers[w].fence
        /\ jobs'[j].owner = NameOf[w]
        /\ jobs'[j].attempts = workers[w].attempts
        /\ jobs'[j].state = state
    BY <1>1, <1>3, <2>1 DEF UpdateJob, Row
  <2> QED
    BY <1>3, <2>2, AcceptedHolds
<1> QED
  BY <1>2, <1>3

\* The five steps that matter.
LEMMA EnqueueSafe ==
    ASSUME IndInv, TypeOK', NEW j \in Jobs, EnqueueJob(j)
    PROVE  IndInv'
<1> USE DEF IndInv
<1>1. SameHolders /\ UNCHANGED resFence
  BY DEF EnqueueJob, SameHolders, Busy
<1>2. FencesNotShared' /\ HoldersLinked'
  BY <1>1, HoldersKept
<1>3. ASSUME NEW k \in Jobs
      PROVE  /\ k # j => jobs'[k] = jobs[k]
             /\ k = j => /\ jobs'[k].state = "queued"
                         /\ jobs'[k].fence = 0 /\ jobs[k].fence = 0
                         /\ jobs'[k].attempts = 0
  BY DEF EnqueueJob, Queued, Absent, TypeOK, AbsentUnfenced
<1>4. HolderOwnsRow'
  <2>1. ASSUME NEW w \in Workers, Busy(w), workers[w].job = j PROVE FALSE
    BY <2>1 DEF EnqueueJob, HolderOwnsRow, AbsentUnfenced, TypeOK, Process
  <2> QED
    BY <1>3, <2>1 DEF EnqueueJob, HolderOwnsRow, HoldersLinked, Busy
<1>5. AbsentUnfenced'
  BY <1>3 DEF AbsentUnfenced
<1>6. AttemptsBounded' /\ WaitingHasAttempt'
  BY <1>3, JobQueueAssumption
     DEF EnqueueJob, AttemptsBounded, WaitingHasAttempt, TypeOK
<1> QED
  BY <1>2, <1>4, <1>5, <1>6
\* CancelJob finds no process on the row: whoever claimed it lost its fence.
LEMMA CancelSafe ==
    ASSUME IndInv, TypeOK', NEW j \in Jobs, CancelJob(j)
    PROVE  IndInv'
<1> USE DEF IndInv
<1>1. SameHolders /\ UNCHANGED resFence
  BY DEF CancelJob, SameHolders, Busy
<1>2. FencesNotShared' /\ HoldersLinked'
  BY <1>1, HoldersKept
<1>3. ASSUME NEW k \in Jobs
      PROVE  /\ k # j => jobs'[k] = jobs[k]
             /\ k = j => /\ jobs'[k].state = "cancelled"
                         /\ jobs'[k].fence = jobs[k].fence
                         /\ jobs'[k].attempts = jobs[k].attempts
  BY DEF CancelJob, TypeOK, Row
<1>4. HolderOwnsRow'
  <2>1. ASSUME NEW w \in Workers, Busy(w), workers[w].job = j
        PROVE  workers[w].fence < jobs[j].fence
    <3>1. jobs[j].state # "running"
      BY DEF CancelJob
    <3>2. workers[w].fence \in Nat /\ jobs[j].fence \in Nat
      BY DEF TypeOK, Process, Row
    <3> QED
      BY <2>1, <3>1, <3>2 DEF HolderOwnsRow
  <2>2. ASSUME NEW w \in Workers
        PROVE workers'[w] = workers[w] /\ workers[w].fence \in Nat
    BY DEF CancelJob, TypeOK, Process
  <2> QED
    BY <1>3, <2>1, <2>2 DEF HolderOwnsRow, HoldersLinked, Busy, TypeOK, Row
<1>5. AbsentUnfenced'
  BY <1>3 DEF AbsentUnfenced
<1>6. AttemptsBounded' /\ WaitingHasAttempt'
  BY <1>3 DEF CancelJob, AttemptsBounded, WaitingHasAttempt, Waiting
<1> QED
  BY <1>2, <1>4, <1>5, <1>6

\* A claim's fence is above every fence anybody holds on the resource.
LEMMA ClaimSafe ==
    ASSUME IndInv, TypeOK', NEW w \in Workers, NEW j \in Jobs, ClaimJob(w, j)
    PROVE  IndInv'
<1> USE DEF IndInv
<1> DEFINE r == ResourceOf[j]
           f == NextFence(j)
<1>1. f \in Nat /\ f > resFence[r] /\ f > jobs[j].fence /\ r \in Resources
  BY NextFenceType, JobQueueAssumption
<1> HIDE DEF f
<1>2. /\ resFence'[r] = f
      /\ \A q \in Resources : q # r => resFence'[q] = resFence[q]
  BY <1>1 DEF ClaimJob, f, TypeOK
<1>3. /\ workers'[w].job = j /\ workers'[w].fence = f
      /\ workers'[w].attempts = jobs[j].attempts + 1
      /\ \A v \in Workers : v # w => workers'[v] = workers[v]
  BY DEF ClaimJob, f, TypeOK
<1>4. /\ jobs'[j].state = "running" /\ jobs'[j].fence = f
      /\ jobs'[j].owner = NameOf[w]
      /\ jobs'[j].attempts = jobs[j].attempts + 1
      /\ \A k \in Jobs : k # j => jobs'[k] = jobs[k]
  BY DEF ClaimJob, f, TypeOK, Row
<1>5. \A v \in Workers : Busy(v) =>
         /\ workers[v].fence \in Nat /\ workers[v].job \in Jobs
         /\ ResourceOf[workers[v].job] \in Resources
         /\ workers[v].fence <= resFence[ResourceOf[workers[v].job]]
         /\ resFence[ResourceOf[workers[v].job]] \in Nat
         /\ jobs[workers[v].job].fence \in Nat
  BY JobQueueAssumption DEF HoldersLinked, TypeOK, Process, Row
<1>6. HoldersLinked'
  <2> SUFFICES ASSUME NEW v \in Workers, Busy(v)'
               PROVE  /\ workers'[v].job \in Jobs
                      /\ workers'[v].fence <= resFence'[ResourceOf[workers'[v].job]]
    BY DEF HoldersLinked
  <2>1. CASE v = w
    BY <1>1, <1>2, <1>3, <2>1
  <2>2. CASE v # w
    <3>1. workers'[v] = workers[v] /\ Busy(v)
      BY <1>3, <2>2 DEF Busy
    <3>2. resFence'[ResourceOf[workers[v].job]] >= resFence[ResourceOf[workers[v].job]]
      BY <1>1, <1>2, <1>5, <3>1
    <3>3. resFence'[ResourceOf[workers[v].job]] \in Nat
      BY <1>5, <3>1 DEF TypeOK
    <3> QED
      BY <1>5, <3>1, <3>2, <3>3
  <2> QED
    BY <2>1, <2>2
<1>7. FencesNotShared'
  <2>1. ASSUME NEW v \in Workers, v # w, Busy(v)',
               ResourceOf[workers'[v].job] = r
        PROVE  workers'[v].fence < f
    <3>1. workers'[v] = workers[v] /\ Busy(v)
      BY <1>3, <2>1 DEF Busy
    <3> QED
      BY <1>1, <1>5, <2>1, <3>1
  <2>2. ASSUME NEW u \in Workers, NEW v \in Workers, u # v, Busy(u)', Busy(v)',
               ResourceOf[workers'[u].job] = ResourceOf[workers'[v].job]
        PROVE  workers'[u].fence # workers'[v].fence
    <3>1. CASE u = w
      BY <1>1, <1>3, <2>1, <2>2, <3>1
    <3>2. CASE v = w
      BY <1>1, <1>3, <2>1, <2>2, <3>2
    <3>3. CASE u # w /\ v # w
      BY <1>3, <2>2, <3>3 DEF FencesNotShared, Busy
    <3> QED
      BY <3>1, <3>2, <3>3
  <2> QED
    BY <2>2 DEF FencesNotShared
<1>8. HolderOwnsRow'
  <2> SUFFICES ASSUME NEW v \in Workers, Busy(v)'
               PROVE  LET row == jobs'[workers'[v].job]
                      IN  /\ workers'[v].fence <= row.fence
                          /\ row.fence = workers'[v].fence =>
                                /\ row.state = "running"
                                /\ row.owner = NameOf[v]
                                /\ row.attempts = workers'[v].attempts
    BY DEF HolderOwnsRow
  <2>1. CASE v = w
    BY <1>1, <1>3, <1>4, <2>1
  <2>2. CASE v # w
    <3>1. workers'[v] = workers[v] /\ Busy(v)
      BY <1>3, <2>2 DEF Busy
    <3>2. CASE workers[v].job = j
      BY <1>1, <1>4, <1>5, <3>1, <3>2 DEF HolderOwnsRow
    <3>3. CASE workers[v].job # j
      BY <1>4, <1>5, <3>1, <3>3 DEF HolderOwnsRow
    <3> QED
      BY <3>2, <3>3
  <2> QED
    BY <2>1, <2>2
<1>9. AbsentUnfenced' /\ WaitingHasAttempt'
  BY <1>4 DEF ClaimJob, AbsentUnfenced, WaitingHasAttempt, Waiting
<1>10. AttemptsBounded'
  <2>1. jobs[j].attempts < MaxAttempts + lost[j] /\ jobs[j].attempts \in Nat
        /\ lost[j] \in Nat /\ UNCHANGED lost
    BY DEF ClaimJob, Claimable, WaitingHasAttempt, TypeOK, Row
  <2> QED
    BY <1>4, <2>1, JobQueueAssumption DEF AttemptsBounded
<1> QED
  BY <1>6, <1>7, <1>8, <1>9, <1>10

\* Settling a held row ends the only claim with the row's fence.
LEMMA SettleSafe ==
    ASSUME IndInv, TypeOK', NEW w \in Workers, NEW outcome \in Outcomes,
           FinishExecution(w, outcome)
    PROVE  IndInv'
<1> USE DEF IndInv
<1> DEFINE final == FinalState(outcome, workers[w].attempts)
           due == IF final = "retrying" THEN Backoff ELSE 0
<1>1. /\ Busy(w) /\ ~Busy(w)' /\ UNCHANGED <<resFence, lost>>
      /\ \A v \in Workers : v # w => workers'[v] = workers[v]
  BY DEF FinishExecution, Busy, Idle, TypeOK
<1>2. SameHolders
  BY <1>1 DEF SameHolders, Busy
<1>3. CASE UNCHANGED jobs
  <2>1. SameRows
    BY <1>3 DEF SameRows
  <2> QED
    BY <1>1, <1>2, <2>1, QuietStep
<1>4. CASE AcceptJobMutation(w) /\ UpdateJob(w, final, workers[w].hb, due)
  <2> DEFINE j == workers[w].job
  <2>1. \A k \in Jobs :
           /\ jobs'[k].fence = jobs[k].fence
           /\ jobs'[k].owner = jobs[k].owner
           /\ jobs'[k].attempts = jobs[k].attempts
           /\ k # j => jobs'[k].state = jobs[k].state
           /\ k = j => jobs'[k].state = final
    <3> HIDE DEF final, due
    <3> QED
      BY <1>1, <1>4, AcceptedWrite
  <2>2. /\ j \in Jobs
        /\ jobs[j].fence = workers[w].fence
        /\ jobs[j].attempts = workers[w].attempts
    BY <1>1, <1>4, AcceptedHolds DEF HoldersLinked
  <2>3. FencesNotShared' /\ HoldersLinked'
    BY <1>1, <1>2, HoldersKept
  <2>4. HolderOwnsRow'
    <3>1. ASSUME NEW v \in Workers, Busy(v)'
          PROVE  /\ v # w /\ Busy(v) /\ workers'[v] = workers[v]
                 /\ workers[v].job \in Jobs
                 /\ workers[v].job = j => workers[v].fence # jobs[j].fence
      <4>1. v # w /\ Busy(v) /\ workers'[v] = workers[v]
        BY <1>1, <3>1 DEF Busy
      <4>2. workers[v].job = j => workers[v].fence # workers[w].fence
        BY <1>1, <4>1 DEF FencesNotShared
      <4> QED
        BY <2>2, <4>1, <4>2 DEF HoldersLinked
    <3> HIDE DEF j, final
    <3> QED
      BY <2>1, <3>1 DEF HolderOwnsRow
  <2>5. final \in {"succeeded", "failed", "retrying"}
    BY <1>1, FinalStateType DEF TypeOK, Process
  <2>6. AbsentUnfenced' /\ AttemptsBounded'
    BY <1>1, <2>1, <2>5 DEF AbsentUnfenced, AttemptsBounded
  <2>7. WaitingHasAttempt'
    <3>1. final = "retrying" => workers[w].attempts < MaxAttempts
      BY JobQueueAssumption DEF FinalState, TypeOK, Process, Outcomes
    <3>2. lost[j] \in Nat /\ workers[w].attempts \in Nat
      BY <2>2 DEF TypeOK, Process
    <3>3. final = "retrying" => jobs'[j].attempts < MaxAttempts + lost'[j]
      BY <1>1, <2>1, <2>2, <3>1, <3>2, JobQueueAssumption
    <3> HIDE DEF final, j
    <3> QED
      BY <1>1, <2>1, <2>5, <3>3 DEF WaitingHasAttempt, Waiting
  <2> QED
    BY <2>3, <2>4, <2>6, <2>7
<1> QED
  BY <1>3, <1>4 DEF FinishExecution

\* Expiry takes the fence from whoever holds it and pays for the next attempt.
LEMMA ExpireSafe ==
    ASSUME IndInv, TypeOK', NEW w \in Workers, ExpireStaleLeases(w)
    PROVE  IndInv'
<1> USE DEF IndInv
<1>1. SameHolders /\ UNCHANGED resFence
  BY DEF ExpireStaleLeases, SameHolders, Busy
<1>2. FencesNotShared' /\ HoldersLinked'
  BY <1>1, HoldersKept
<1>3. ASSUME NEW j \in Jobs
      PROVE  \/ jobs'[j] = jobs[j] /\ lost'[j] = lost[j]
             \/ /\ jobs[j].state = "running" /\ jobs'[j].state = "retrying"
                /\ jobs'[j].fence = jobs[j].fence + 1
                /\ jobs'[j].attempts = jobs[j].attempts
                /\ lost'[j] = lost[j] + 1
  <2>1. jobs[j] \in Row
    BY DEF TypeOK
  <2>2. CASE Stale(j)
    BY <2>1, <2>2 DEF ExpireStaleLeases, Expired, Stale, Row
  <2>3. CASE ~Stale(j)
    BY <2>3 DEF ExpireStaleLeases
  <2> QED
    BY <2>2, <2>3
<1>4. HolderOwnsRow'
  <2> SUFFICES ASSUME NEW v \in Workers, Busy(v)'
               PROVE  LET row == jobs'[workers'[v].job]
                      IN  /\ workers'[v].fence <= row.fence
                          /\ row.fence = workers'[v].fence =>
                                /\ row.state = "running"
                                /\ row.owner = NameOf[v]
                                /\ row.attempts = workers'[v].attempts
    BY DEF HolderOwnsRow
  <2>1. workers'[v] = workers[v] /\ Busy(v)
    BY DEF ExpireStaleLeases, Busy
  <2>2. /\ workers[v].job \in Jobs /\ workers[v].fence \in Nat
        /\ jobs[workers[v].job].fence \in Nat
    BY <2>1 DEF HoldersLinked, TypeOK, Process, Row
  <2> QED
    BY <1>3, <2>1, <2>2 DEF HolderOwnsRow
<1>5. AbsentUnfenced'
  BY <1>3 DEF AbsentUnfenced
<1>6. AttemptsBounded' /\ WaitingHasAttempt'
  <2>1. \A j \in Jobs : jobs[j].attempts \in Nat /\ lost[j] \in Nat
    BY DEF TypeOK, Row
  <2> QED
    BY <1>3, <2>1, JobQueueAssumption
       DEF AttemptsBounded, WaitingHasAttempt, Waiting
<1> QED
  BY <1>2, <1>4, <1>5, <1>6

\* A process' own steps that change no row, or write its copy back while it
\* keeps executing, are quiet.
LEMMA WriteBackQuiet ==
    ASSUME IndInv, TypeOK', NEW w \in Workers,
           StartExecution(w) \/ ReportProgress(w)
    PROVE  IndInv'
<1> USE DEF IndInv
<1>1. Busy(w) /\ UNCHANGED <<resFence, lost>>
  BY DEF StartExecution, ReportProgress, Busy
<1>2. SameHolders
  BY DEF StartExecution, ReportProgress, SameHolders, Busy, Idle, TypeOK, Process
<1>3. SameRows
  <2>1. CASE UNCHANGED jobs
    BY <2>1 DEF SameRows
  <2>2. ASSUME NEW hb, AcceptJobMutation(w), UpdateJob(w, "running", hb, 0)
        PROVE  SameRows
    <3>1. \A j \in Jobs :
             /\ jobs'[j].fence = jobs[j].fence
             /\ jobs'[j].owner = jobs[j].owner
             /\ jobs'[j].attempts = jobs[j].attempts
             /\ j # workers[w].job => jobs'[j].state = jobs[j].state
             /\ j = workers[w].job => jobs'[j].state = "running"
      BY <1>1, <2>2, AcceptedWrite
    <3>2. jobs[workers[w].job].state = "running"
      BY <1>1, <2>2, AcceptedHolds
    <3> QED
      BY <3>1, <3>2 DEF SameRows
  <2> QED
    BY <2>1, <2>2 DEF StartExecution, ReportProgress
<1> QED
  BY <1>1, <1>2, <1>3, QuietStep

\* Heartbeats, cancel requests, faults and the clock are quiet.
LEMMA OtherQuiet ==
    ASSUME IndInv, TypeOK',
           \/ \E w \in Workers : \/ HeartbeatJob(w) \/ AbandonExecution(w)
                                 \/ LoseExecution(w) \/ Shutdown(w)
           \/ \E j \in Jobs : RequestJobCancel(j)
           \/ Tick
           \/ UNCHANGED vars
    PROVE  IndInv'
<1> USE DEF IndInv
<1>1. ASSUME NEW w \in Workers, HeartbeatJob(w) PROVE IndInv'
  <2>1. UNCHANGED <<resFence, lost>> /\ workers[w].job \in Jobs
    BY <1>1 DEF HeartbeatJob, HoldersLinked
  <2>2. CASE UNCHANGED workers /\ jobs' = [jobs EXCEPT ![workers[w].job] =
                [@ EXCEPT !.lease = LeaseTTL, !.hb = LeaseTTL]]
    <3>1. SameHolders
      BY <2>2 DEF SameHolders, Busy
    <3>2. SameRows
      BY <2>1, <2>2 DEF SameRows, TypeOK, Row
    <3> QED
      BY <2>1, <3>1, <3>2, QuietStep
  <2>3. CASE workers' = [workers EXCEPT ![w].stopped = TRUE] /\ UNCHANGED jobs
    <3>1. SameHolders
      BY <2>3 DEF SameHolders, Busy, TypeOK, Process
    <3>2. SameRows
      BY <2>3 DEF SameRows
    <3> QED
      BY <2>1, <3>1, <3>2, QuietStep
  <2> QED
    BY <1>1, <2>2, <2>3 DEF HeartbeatJob
<1>2. ASSUME NEW w \in Workers,
             AbandonExecution(w) \/ LoseExecution(w) \/ Shutdown(w)
      PROVE  IndInv'
  <2>1. SameHolders /\ UNCHANGED <<jobs, resFence, lost>>
    BY <1>2 DEF AbandonExecution, LoseExecution, Shutdown, SameHolders, Busy,
                Idle, TypeOK, Process
  <2>2. SameRows
    BY <2>1 DEF SameRows
  <2> QED
    BY <2>1, <2>2, QuietStep
<1>3. ASSUME NEW j \in Jobs, RequestJobCancel(j) PROVE IndInv'
  <2>1. SameHolders /\ SameRows /\ UNCHANGED <<resFence, lost>>
    BY <1>3 DEF RequestJobCancel, SameHolders, SameRows, Busy, TypeOK, Row
  <2> QED
    BY <2>1, QuietStep
<1>4. CASE Tick
  <2>1. ASSUME NEW w \in Workers
        PROVE  /\ workers'[w].pc = workers[w].pc
               /\ workers'[w].job = workers[w].job
               /\ workers'[w].fence = workers[w].fence
               /\ workers'[w].attempts = workers[w].attempts
    <3>1. workers[w] \in Process
      BY DEF TypeOK
    <3> QED
      BY <1>4, <3>1 DEF Tick, Process
  <2>2. SameHolders /\ UNCHANGED <<resFence, lost>>
    BY <1>4, <2>1 DEF Tick, SameHolders, Busy
  <2>3. ASSUME NEW j \in Jobs
        PROVE  /\ jobs'[j].state = jobs[j].state
               /\ jobs'[j].fence = jobs[j].fence
               /\ jobs'[j].owner = jobs[j].owner
               /\ jobs'[j].attempts = jobs[j].attempts
    <3>1. jobs[j] \in Row
      BY DEF TypeOK
    <3> QED
      BY <1>4, <3>1 DEF Tick, Row
  <2>4. SameRows
    BY <2>3 DEF SameRows
  <2> QED
    BY <2>2, <2>4, QuietStep
<1>5. CASE UNCHANGED vars
  <2>1. SameHolders /\ SameRows /\ UNCHANGED <<resFence, lost>>
    BY <1>5 DEF vars, SameHolders, SameRows, Busy
  <2> QED
    BY <2>1, QuietStep
<1> QED
  BY <1>1, <1>2, <1>3, <1>4, <1>5

\* Nobody executes anything in the initial state, so IndInv holds there.
LEMMA IndInit == Init => IndInv
<1> SUFFICES ASSUME Init PROVE IndInv
  OBVIOUS
<1>1. TypeOK
  BY InitTyped DEF TypeInv
<1>2. \A w \in Workers : ~Busy(w)
  BY DEF Init, Busy, Idle
<1>3. \A j \in Jobs : /\ jobs[j].state = "absent" /\ jobs[j].fence = 0
                      /\ jobs[j].attempts = 0 /\ lost[j] = 0
  BY DEF Init, Absent
<1>4. HolderOwnsRow /\ FencesNotShared /\ HoldersLinked
  BY <1>2 DEF HolderOwnsRow, FencesNotShared, HoldersLinked
<1>5. AbsentUnfenced /\ AttemptsBounded /\ WaitingHasAttempt
  BY <1>3, JobQueueAssumption
     DEF AbsentUnfenced, AttemptsBounded, WaitingHasAttempt, Waiting
<1> QED
  BY <1>1, <1>4, <1>5 DEF IndInv

\* No step of the queue breaks it.
LEMMA IndStep == IndInv /\ [Next]_vars => IndInv'
<1> SUFFICES ASSUME IndInv, [Next]_vars PROVE IndInv'
  OBVIOUS
<1>1. TypeInv
  BY DEF IndInv, TypeInv, HoldersKnown, HoldersLinked
<1>2. TypeOK'
  BY <1>1, StepTyped DEF TypeInv
<1>3. ASSUME NEW w \in Workers, WorkerStep(w) PROVE IndInv'
  BY <1>2, <1>3, ClaimSafe, WriteBackQuiet, OtherQuiet, SettleSafe, ExpireSafe
     DEF WorkerStep
<1>4. ASSUME ApiStep PROVE IndInv'
  <2>1. ASSUME NEW j \in Jobs, NEW k \in Jobs, RetryJob(j, k) PROVE EnqueueJob(k)
    BY <2>1 DEF RetryJob
  <2> QED
    BY <1>2, <1>4, <2>1, EnqueueSafe, CancelSafe, OtherQuiet DEF ApiStep
<1> QED
  BY <1>2, <1>3, <1>4, OtherQuiet DEF Next

\* Always: a process never runs ahead of its row, and while the fences agree
\* the row is the claim the process made.
THEOREM Ownership == Spec => []HolderOwnsRow
<1>1. IndInv => HolderOwnsRow
  BY DEF IndInv
<1> QED
  BY <1>1, IndInit, IndStep, PTL DEF Spec

\* Always: two processes on one resource hold different fences.
THEOREM FenceUniqueness == Spec => []FencesNotShared
<1>1. IndInv => FencesNotShared
  BY DEF IndInv
<1> QED
  BY <1>1, IndInit, IndStep, PTL DEF Spec

\* Always: a job is claimed at most max_attempts times plus once for each
\* lease it lost.
THEOREM RetriesBounded == Spec => []AttemptsBounded
<1>1. IndInv => AttemptsBounded
  BY DEF IndInv
<1> QED
  BY <1>1, IndInit, IndStep, PTL DEF Spec

-----------------------------------------------------------------------------
(* How a running attempt ends.                                             *)

EndedByHolder(j) ==
    \E w \in Workers :
        /\ workers[w].job = j /\ workers[w].fence = jobs[j].fence
        /\ ~workers[w].stopped
        /\ workers'[w].pc = "idle"

EndedByExpiry(j) ==
    jobs'[j].state = "retrying" /\ jobs'[j].fence > jobs[j].fence

\* Only an expiry, or the outcome its holder records, ends a running attempt.
LEMMA EndsOnceStep ==
    ASSUME IndInv, [Next]_vars, NEW j \in Jobs,
           jobs[j].state = "running", jobs'[j].state # "running"
    PROVE  EndedByExpiry(j) \/ EndedByHolder(j)
<1> USE DEF IndInv
<1>r. \A k \in Jobs : jobs[k] \in Row
  BY DEF TypeOK
<1>1. ASSUME NEW w \in Workers, NEW k \in Jobs, ClaimJob(w, k) PROVE FALSE
  BY <1>1, <1>r DEF ClaimJob, Row, TypeOK
<1>2. ASSUME NEW w \in Workers, StartExecution(w) \/ ReportProgress(w)
      PROVE  FALSE
  <2>1. Busy(w)
    BY <1>2 DEF StartExecution, ReportProgress, Busy
  <2>2. PICK hb : AcceptJobMutation(w) /\ UpdateJob(w, "running", hb, 0)
    BY <1>2 DEF StartExecution, ReportProgress
  <2> QED
    BY <2>1, <2>2, AcceptedWrite
<1>3. ASSUME NEW w \in Workers, HeartbeatJob(w) PROVE FALSE
  <2>1. workers[w].job \in Jobs
    BY <1>3 DEF HeartbeatJob, HoldersLinked
  <2>2. jobs' = [jobs EXCEPT ![workers[w].job] =
                    [@ EXCEPT !.lease = LeaseTTL, !.hb = LeaseTTL]]
    BY <1>3 DEF HeartbeatJob
  <2> QED
    BY <1>r, <2>1, <2>2 DEF TypeOK, Row
<1>4. ASSUME NEW w \in Workers, NEW outcome \in Outcomes,
             FinishExecution(w, outcome)
      PROVE  EndedByHolder(j)
  <2> DEFINE final == FinalState(outcome, workers[w].attempts)
             due == IF final = "retrying" THEN Backoff ELSE 0
  <2>1. Busy(w) /\ ~workers[w].stopped /\ workers'[w].pc = "idle"
    BY <1>4 DEF FinishExecution, Busy, Idle, TypeOK
  <2>2. AcceptJobMutation(w) /\ UpdateJob(w, final, workers[w].hb, due)
    BY <1>4 DEF FinishExecution
  <2> HIDE DEF final, due
  <2>3. workers[w].job = j
    BY <2>1, <2>2, AcceptedWrite
  <2>4. workers[w].fence = jobs[j].fence
    BY <2>1, <2>2, <2>3, AcceptedHolds
  <2> QED
    BY <2>1, <2>3, <2>4 DEF EndedByHolder
<1>5. ASSUME NEW w \in Workers, ExpireStaleLeases(w) PROVE EndedByExpiry(j)
  <2>1. CASE Stale(j)
    <3>1. jobs[j] \in Row /\ jobs[j].fence \in Nat
      BY <1>r DEF Row
    <3>2. jobs'[j].state = "retrying" /\ jobs'[j].fence = jobs[j].fence + 1
      BY <1>5, <2>1, <3>1 DEF ExpireStaleLeases, Expired, Row
    <3> QED
      BY <3>1, <3>2 DEF EndedByExpiry
  <2>2. CASE ~Stale(j)
    BY <1>5, <2>2 DEF ExpireStaleLeases
  <2> QED
    BY <2>1, <2>2
<1>6. ASSUME \/ \E w \in Workers : \/ AbandonExecution(w) \/ LoseExecution(w)
                                   \/ Shutdown(w)
             \/ UNCHANGED vars
      PROVE  FALSE
  BY <1>6 DEF AbandonExecution, LoseExecution, Shutdown, vars
<1>7. ASSUME NEW k \in Jobs,
             EnqueueJob(k) \/ CancelJob(k) \/ RequestJobCancel(k)
      PROVE  FALSE
  BY <1>7, <1>r DEF EnqueueJob, CancelJob, RequestJobCancel, Row, TypeOK
<1>8. ASSUME NEW i \in Jobs, NEW k \in Jobs, RetryJob(i, k) PROVE FALSE
  BY <1>7, <1>8 DEF RetryJob
<1>9. ASSUME Tick PROVE FALSE
  <2>1. jobs'[j].state = jobs[j].state
    BY <1>9, <1>r DEF Tick, Row
  <2> QED
    BY <2>1
<1> QED
  BY <1>1, <1>2, <1>3, <1>4, <1>5, <1>6, <1>7, <1>8, <1>9
     DEF Next, WorkerStep, ApiStep

\* Always: a running attempt ends by expiry, which takes the fence away, or by
\* the outcome that the holder of the current fence records.
THEOREM AttemptsEndOnce == Spec => AttemptEndsOnce
<1> DEFINE Ends == \A j \in Jobs :
              /\ jobs[j].state = "running" /\ jobs'[j].state # "running"
              => \/ /\ jobs'[j].state = "retrying"
                    /\ jobs'[j].fence > jobs[j].fence
                 \/ \E w \in Workers :
                       /\ workers[w].job = j /\ workers[w].fence = jobs[j].fence
                       /\ ~workers[w].stopped
                       /\ workers'[w].pc = "idle"
<1>1. IndInv /\ [Next]_vars => [Ends]_vars
  BY EndsOnceStep DEF EndedByExpiry, EndedByHolder
<1> QED
  BY <1>1, IndInit, IndStep, PTL DEF Spec, AttemptEndsOnce

-----------------------------------------------------------------------------
(* The queue implements its lifecycle.                                     *)

St == [j \in Jobs |-> jobs[j].state]
Fn == [j \in Jobs |-> jobs[j].fence]

\* A step that leaves every state and fence alone is a stutter of the lifecycle.
LEMMA LifecycleStutter ==
    ASSUME SameRows PROVE UNCHANGED <<St, Fn>>
  BY DEF SameRows, St, Fn

\* The initial tables map to the lifecycle's initial state.
LEMMA LifecycleInit == Init => Lifecycle!Init
  BY DEF Init, Lifecycle!Init, Absent

\* Every step maps to a step of the lifecycle or to a stutter.
LEMMA LifecycleStep ==
    ASSUME IndInv, [Next]_vars
    PROVE  [Lifecycle!Next]_(Lifecycle!lifecycleVars)
<1> USE DEF IndInv
<1> DEFINE Done == [Lifecycle!Next]_(Lifecycle!lifecycleVars)
<1>s. ASSUME SameRows PROVE Done
  BY <1>s, LifecycleStutter DEF St, Fn, Lifecycle!lifecycleVars
<1>1. ASSUME NEW j \in Jobs, EnqueueJob(j) PROVE Done
  <2>1. St' = [St EXCEPT ![j] = "queued"] /\ Fn' = Fn
    BY <1>1 DEF EnqueueJob, Queued, Absent, St, Fn, TypeOK, Row, AbsentUnfenced
  <2>2. Lifecycle!Submit(j)
    BY <1>1, <2>1 DEF EnqueueJob, Lifecycle!Submit, St, Fn
  <2> QED
    BY <2>2 DEF Lifecycle!Next
<1>2. ASSUME NEW j \in Jobs, CancelJob(j) PROVE Done
  <2>1. St' = [St EXCEPT ![j] = "cancelled"] /\ Fn' = Fn
    BY <1>2 DEF CancelJob, St, Fn, TypeOK, Row
  <2>2. Lifecycle!Cancel(j)
    BY <1>2, <2>1 DEF CancelJob, Lifecycle!Cancel, St, Fn
  <2> QED
    BY <2>2 DEF Lifecycle!Next
<1>3. ASSUME NEW w \in Workers, NEW j \in Jobs, ClaimJob(w, j) PROVE Done
  <2>1. NextFence(j) > jobs[j].fence
    BY NextFenceType
  <2>2. /\ St' = [St EXCEPT ![j] = "running"]
        /\ Fn' = [Fn EXCEPT ![j] = NextFence(j)]
    BY <1>3 DEF ClaimJob, St, Fn, TypeOK, Row
  <2>3. Lifecycle!Grant(j)
    BY <1>3, <2>1, <2>2 DEF ClaimJob, Claimable, Waiting, Lifecycle!Grant, St, Fn
  <2> QED
    BY <2>3 DEF Lifecycle!Next
<1>4. ASSUME NEW w \in Workers, StartExecution(w) \/ ReportProgress(w)
      PROVE  Done
  <2>1. Busy(w)
    BY <1>4 DEF StartExecution, ReportProgress, Busy
  <2>2. CASE UNCHANGED jobs
    BY <1>s, <2>2 DEF SameRows
  <2>3. ASSUME NEW hb, AcceptJobMutation(w), UpdateJob(w, "running", hb, 0)
        PROVE  Done
    <3>1. SameRows
      BY <2>1, <2>3, AcceptedWrite, AcceptedHolds DEF SameRows
    <3> QED
      BY <1>s, <3>1
  <2> QED
    BY <1>4, <2>2, <2>3 DEF StartExecution, ReportProgress
<1>5. ASSUME NEW w \in Workers, NEW outcome \in Outcomes,
             FinishExecution(w, outcome)
      PROVE  Done
  <2> DEFINE final == FinalState(outcome, workers[w].attempts)
             due == IF final = "retrying" THEN Backoff ELSE 0
  <2>1. Busy(w)
    BY <1>5 DEF FinishExecution, Busy
  <2>2. CASE UNCHANGED jobs
    BY <1>s, <2>2 DEF SameRows
  <2>3. CASE AcceptJobMutation(w) /\ UpdateJob(w, final, workers[w].hb, due)
    <3>1. PICK j \in Jobs : j = workers[w].job
      BY <2>1 DEF HoldersLinked
    <3>2. final \in {"succeeded", "failed", "retrying"}
      BY <2>1, FinalStateType DEF TypeOK, Process
    <3> HIDE DEF final, due
    <3>3. \A k \in Jobs :
             /\ jobs'[k].fence = jobs[k].fence
             /\ k # j => jobs'[k].state = jobs[k].state
             /\ k = j => jobs'[k].state = final
      BY <2>1, <2>3, <3>1, AcceptedWrite
    <3>4. jobs[j].state = "running"
      BY <2>1, <2>3, <3>1, AcceptedHolds
    <3>5. St' = [St EXCEPT ![j] = final] /\ Fn' = Fn
      BY <3>2, <3>3 DEF St, Fn
    <3>6. Lifecycle!Settle(j)
      BY <3>2, <3>4, <3>5 DEF Lifecycle!Settle, St, Fn
    <3> QED
      BY <3>6 DEF Lifecycle!Next
  <2> QED
    BY <1>5, <2>2, <2>3 DEF FinishExecution
<1>6. ASSUME NEW w \in Workers, ExpireStaleLeases(w) PROVE Done
  <2>1. PICK S \in SUBSET Jobs : S = {j \in Jobs : Stale(j)}
    OBVIOUS
  <2>2. \A j \in Jobs : jobs[j] \in Row
    BY DEF TypeOK
  <2>3. /\ St' = [j \in Jobs |-> IF j \in S THEN "retrying" ELSE St[j]]
        /\ Fn' = [j \in Jobs |-> IF j \in S THEN Fn[j] + 1 ELSE Fn[j]]
    BY <1>6, <2>1, <2>2 DEF ExpireStaleLeases, Expired, St, Fn, Row
  <2>4. \A j \in S : St[j] = "running"
    BY <2>1 DEF Stale, St
  <2>5. Lifecycle!Revoke(S)
    BY <2>3, <2>4 DEF Lifecycle!Revoke, St, Fn
  <2> QED
    BY <2>5 DEF Lifecycle!Next
<1>7. ASSUME NEW w \in Workers, HeartbeatJob(w) PROVE Done
  <2>1. workers[w].job \in Jobs
    BY <1>7 DEF HeartbeatJob, HoldersLinked
  <2>2. CASE jobs' = [jobs EXCEPT ![workers[w].job] =
                [@ EXCEPT !.lease = LeaseTTL, !.hb = LeaseTTL]]
    BY <1>s, <2>1, <2>2 DEF SameRows, TypeOK, Row
  <2>3. CASE UNCHANGED jobs
    BY <1>s, <2>3 DEF SameRows
  <2> QED
    BY <1>7, <2>2, <2>3 DEF HeartbeatJob
<1>8. ASSUME \/ \E w \in Workers : \/ AbandonExecution(w) \/ LoseExecution(w)
                                   \/ Shutdown(w)
             \/ UNCHANGED vars
      PROVE  Done
  <2>1. UNCHANGED jobs
    BY <1>8 DEF AbandonExecution, LoseExecution, Shutdown, vars
  <2> QED
    BY <1>s, <2>1 DEF SameRows
<1>9. ASSUME Tick \/ \E j \in Jobs : RequestJobCancel(j) PROVE Done
  <2>1. \A j \in Jobs : jobs[j] \in Row
    BY DEF TypeOK
  <2>2. CASE Tick
    <3>1. ASSUME NEW j \in Jobs
          PROVE  /\ jobs'[j].state = jobs[j].state
                 /\ jobs'[j].fence = jobs[j].fence
                 /\ jobs'[j].owner = jobs[j].owner
                 /\ jobs'[j].attempts = jobs[j].attempts
      <4>1. jobs[j] \in Row
        BY <2>1
      <4> QED
        BY <2>2, <4>1 DEF Tick, Row
    <3>2. SameRows
      BY <3>1 DEF SameRows
    <3> QED
      BY <1>s, <3>2
  <2>3. ASSUME NEW j \in Jobs, RequestJobCancel(j) PROVE Done
    BY <1>s, <2>1, <2>3 DEF RequestJobCancel, SameRows, TypeOK, Row
  <2> QED
    BY <1>9, <2>2, <2>3
<1>10. ASSUME NEW j \in Jobs, NEW k \in Jobs, RetryJob(j, k) PROVE EnqueueJob(k)
  BY <1>10 DEF RetryJob
<1> HIDE DEF Done
<1>11. Done
  BY <1>1, <1>2, <1>3, <1>4, <1>5, <1>6, <1>7, <1>8, <1>9, <1>10
     DEF Next, WorkerStep, ApiStep
<1> QED
  BY <1>11 DEF Done

\* The detailed queue implements the lifecycle it promises: fresh fences for
\* grants, settlement only under the granted fence, final outcomes.
THEOREM Refinement == Spec => ImplementsLifecycle
<1>1. IndInv /\ [Next]_vars => [Lifecycle!Next]_(Lifecycle!lifecycleVars)
  BY LifecycleStep
<1> QED
  BY <1>1, IndInit, IndStep, LifecycleInit, PTL
     DEF Spec, ImplementsLifecycle, Lifecycle!Spec

-----------------------------------------------------------------------------
(* The queue with the agent.                                               *)

\* Whose claim got which fence.  Fences are given out once per resource, so
\* everything that bears the same fence of a resource stems from one claim.
Owners == [Resources -> [Nat -> Jobs \cup {NoJob}]]

\* A record is of a claim that was made.
Genuine(own, r, rec) ==
    /\ rec.fence <= resFence[r]
    /\ rec.op # NoJob => own[r][rec.fence] = rec.op

ClaimOf(x) == [fence |-> x.fence, op |-> x.job]

AllGenuine(own) ==
    /\ \A r \in Resources : Genuine(own, r, fences[r]) /\ Genuine(own, r, file[r])
    /\ \A c \in calls : /\ Genuine(own, Res(c), ClaimOf(c))
                        /\ \A r \in Resources : Genuine(own, r, c.snap[r])
    /\ \A w \in Workers : Busy(w) =>
          Genuine(own, ResourceOf[workers[w].job], ClaimOf(workers[w]))

AgentInv == AgentTypeOK /\ IndInv /\ \E own \in Owners : AllGenuine(own)

-----------------------------------------------------------------------------
\* A step of the queue claims a job or leaves the fences of the resources alone,
\* and no process then has a claim it had not before.
LEMMA QueueMoves ==
    ASSUME TypeOK, [Next]_vars
    PROVE  \/ \E w \in Workers, j \in Jobs : ClaimJob(w, j)
           \/ /\ UNCHANGED resFence
              /\ \A w \in Workers : workers'[w].pc # "idle" =>
                    /\ Busy(w) /\ workers'[w].job = workers[w].job
                    /\ workers'[w].fence = workers[w].fence
<1> DEFINE Kept == /\ UNCHANGED resFence
                   /\ \A w \in Workers : workers'[w].pc # "idle" =>
                         /\ Busy(w) /\ workers'[w].job = workers[w].job
                         /\ workers'[w].fence = workers[w].fence
<1>1. ASSUME NEW w \in Workers,
             \/ StartExecution(w) \/ ReportProgress(w) \/ HeartbeatJob(w)
             \/ (\E outcome \in Outcomes : FinishExecution(w, outcome))
             \/ AbandonExecution(w) \/ ExpireStaleLeases(w)
             \/ LoseExecution(w) \/ Shutdown(w)
      PROVE  Kept
  <2>1. UNCHANGED resFence
    BY <1>1 DEF StartExecution, ReportProgress, HeartbeatJob, FinishExecution,
                AbandonExecution, ExpireStaleLeases, LoseExecution, Shutdown
  <2>2. \/ workers' = [workers EXCEPT ![w] = Idle]
        \/ workers' = [workers EXCEPT ![w].pc = "handling"] /\ Busy(w)
        \/ \E hb \in {LeaseTTL, workers[w].hb} : workers' = [workers EXCEPT ![w].hb = hb]
        \/ workers' = [workers EXCEPT ![w].stopped = TRUE]
        \/ UNCHANGED workers
    BY <1>1 DEF StartExecution, ReportProgress, HeartbeatJob, FinishExecution,
                AbandonExecution, ExpireStaleLeases, LoseExecution, Shutdown, Busy
  <2> QED
    BY <2>1, <2>2 DEF TypeOK, Process, Busy, Idle
<1>2. CASE Tick
  BY <1>2 DEF Tick, TypeOK, Process, Busy
<1>3. CASE ApiStep
  BY <1>3 DEF ApiStep, EnqueueJob, CancelJob, RequestJobCancel, RetryJob, Busy
<1>4. CASE UNCHANGED vars
  BY <1>4 DEF vars, Busy
<1> QED
  BY <1>1, <1>2, <1>3, <1>4 DEF Next, WorkerStep

\* A claim gets a fence that nothing bears yet: what was genuine stays so, and
\* the new claim is.
LEMMA ClaimGenuine ==
    ASSUME AgentInv, NEW w \in Workers, NEW j \in Jobs, ClaimJob(w, j),
           UNCHANGED agentVars
    PROVE  \E own \in Owners : AllGenuine(own)'
<1> DEFINE q == ResourceOf[j]
<1>1. PICK own \in Owners : AllGenuine(own)
  BY DEF AgentInv
<1>n. PICK n \in Nat : n = NextFence(j) /\ n > resFence[q]
  BY NextFenceType DEF AgentInv, IndInv
<1>2. /\ TypeOK /\ HoldersLinked /\ AgentTypeOK /\ q \in Resources
      /\ n \in Nat /\ n > resFence[q]
  BY <1>n, JobQueueAssumption DEF AgentInv, AgentTypeOK, IndInv
<1> DEFINE next == [own EXCEPT ![q] = [own[q] EXCEPT ![n] = j]]
<1>3. /\ resFence' = [resFence EXCEPT ![q] = n]
      /\ workers'[w].job = j /\ workers'[w].fence = n
      /\ \A v \in Workers \ {w} : workers'[v] = workers[v]
      /\ UNCHANGED <<fences, file, calls>>
  BY <1>n, <1>2 DEF ClaimJob, TypeOK, agentVars
<1>4. next \in Owners
  BY <1>2 DEF Owners
<1>5. /\ next[q][n] = j
      /\ \A r \in Resources, f \in Nat : ~(r = q /\ f = n) => next[r][f] = own[r][f]
  BY <1>2 DEF Owners
<1> HIDE DEF next, q
<1>6. \A r \in Resources, rec \in Record :
         Genuine(own, r, rec) => Genuine(next, r, rec)'
  BY <1>2, <1>3, <1>5 DEF Genuine, Record, TypeOK
<1>7. \A r \in Resources : Genuine(next, r, fences[r])' /\ Genuine(next, r, file[r])'
  BY <1>1, <1>2, <1>3, <1>6 DEF AllGenuine, AgentTypeOK
<1>8. \A c \in calls : /\ Genuine(next, Res(c), ClaimOf(c))'
                       /\ \A r \in Resources : Genuine(next, r, c.snap[r])'
  <2> SUFFICES ASSUME NEW c \in calls
               PROVE  /\ Genuine(next, Res(c), ClaimOf(c))'
                      /\ \A r \in Resources : Genuine(next, r, c.snap[r])'
    OBVIOUS
  <2>1. /\ Res(c) \in Resources /\ ClaimOf(c) \in Record
        /\ \A r \in Resources : c.snap[r] \in Record
    BY <1>2, JobQueueAssumption DEF AgentTypeOK, Call, Record, Res, ClaimOf
  <2> QED
    BY <1>1, <1>6, <2>1 DEF AllGenuine, Res, ClaimOf
<1>9. \A v \in Workers : workers'[v].pc # "idle" =>
         Genuine(next, ResourceOf[workers[v].job], ClaimOf(workers[v]))'
  <2> SUFFICES ASSUME NEW v \in Workers, workers'[v].pc # "idle"
               PROVE  Genuine(next, ResourceOf[workers[v].job], ClaimOf(workers[v]))'
    OBVIOUS
  <2>1. CASE v = w
    BY <1>2, <1>3, <1>5, <2>1 DEF Genuine, ClaimOf, TypeOK, q
  <2>2. CASE v # w
    <3>1. Busy(v) /\ workers'[v] = workers[v]
      BY <1>3, <2>2 DEF Busy
    <3>2. ResourceOf[workers[v].job] \in Resources /\ ClaimOf(workers[v]) \in Record
      BY <1>2, <3>1, JobQueueAssumption DEF HoldersLinked, TypeOK, Process, ClaimOf, Record
    <3> QED
      BY <1>1, <1>6, <3>1, <3>2 DEF AllGenuine, ClaimOf, Genuine
  <2> QED
    BY <2>1, <2>2
<1> QED
  BY <1>3, <1>4, <1>7, <1>8, <1>9 DEF AllGenuine, Busy

\* A step of the queue keeps the invariant.
LEMMA QueueStepKeeps == ASSUME AgentInv, QueueStep PROVE AgentInv'
<1>1. IndInv' /\ AgentTypeOK'
  BY IndStep DEF QueueStep, AgentInv, agentVars, AgentTypeOK, IndInv
<1>2. CASE \E w \in Workers, j \in Jobs : ClaimJob(w, j)
  BY <1>1, <1>2, ClaimGenuine DEF AgentInv, QueueStep
<1>3. CASE /\ UNCHANGED resFence
           /\ \A w \in Workers : workers'[w].pc # "idle" =>
                 /\ Busy(w) /\ workers'[w].job = workers[w].job
                 /\ workers'[w].fence = workers[w].fence
  <2>1. PICK own \in Owners : AllGenuine(own)
    BY DEF AgentInv
  <2>2. AllGenuine(own)'
    BY <1>3, <2>1 DEF AllGenuine, Genuine, ClaimOf, Res, Busy, QueueStep, agentVars
  <2> QED
    BY <1>1, <2>2 DEF AgentInv
<1> QED
  BY <1>2, <1>3, QueueMoves DEF QueueStep, AgentInv, AgentTypeOK

-----------------------------------------------------------------------------
\* A step of the agent keeps the invariant when the calls it leaves are calls it
\* found, or one more that is genuine, and its records come from records.
LEMMA AgentMoves ==
    ASSUME AgentInv, UNCHANGED vars,
           NEW own \in Owners, AllGenuine(own),
           calls' \in SUBSET Call, fences' \in [Resources -> Record],
           file' \in [Resources -> Record], acked' \in [Resources -> Nat],
           agentCrashes' \in 0 .. MaxAgentCrashes,
           \A r \in Resources : Genuine(own, r, fences'[r]) /\ Genuine(own, r, file'[r]),
           \A c \in calls' : /\ Genuine(own, Res(c), ClaimOf(c))
                             /\ \A r \in Resources : Genuine(own, r, c.snap[r])
    PROVE  AgentInv'
<1>1. IndInv'
  BY IndStep DEF AgentInv
<1>2. AgentTypeOK'
  BY <1>1 DEF AgentTypeOK, IndInv
<1>3. AllGenuine(own)'
  BY DEF AllGenuine, Genuine, vars, Res, ClaimOf, Busy
<1> QED
  BY <1>1, <1>2, <1>3 DEF AgentInv

LEMMA DispatchKeeps ==
    ASSUME AgentInv, NEW w \in Workers, Dispatch(w) PROVE AgentInv'
<1>1. PICK own \in Owners : AllGenuine(own)
  BY DEF AgentInv
<1> DEFINE c == [job |-> workers[w].job, fence |-> workers[w].fence,
                 phase |-> "sent", snap |-> NoRecords]
<1>2. /\ UNCHANGED <<vars, fences, file, acked, agentCrashes>>
      /\ calls' = calls \cup {c} /\ Busy(w)
  BY DEF Dispatch, Busy
<1>3. AgentTypeOK /\ HoldersLinked /\ TypeOK
  BY DEF AgentInv, IndInv, AgentTypeOK
<1>4. /\ NoRecords \in [Resources -> Record]
      /\ \A r \in Resources : NoRecords[r] = NoRecord /\ Genuine(own, r, NoRecords[r])
  BY <1>3 DEF NoRecords, NoRecord, Record, Genuine, TypeOK
<1>5. c \in Call /\ Genuine(own, Res(c), ClaimOf(c))
  <2>1. workers[w].job \in Jobs /\ workers[w].fence \in Nat
    BY <1>2, <1>3 DEF HoldersLinked, TypeOK, Process
  <2>2. c \in Call
    BY <1>4, <2>1 DEF Call
  <2>3. Genuine(own, ResourceOf[workers[w].job], ClaimOf(workers[w]))
    BY <1>1, <1>2 DEF AllGenuine
  <2> QED
    BY <2>2, <2>3 DEF Res, ClaimOf
<1>6. c.snap = NoRecords
  OBVIOUS
<1> HIDE DEF c
<1>7. \A d \in calls' : /\ Genuine(own, Res(d), ClaimOf(d))
                        /\ \A r \in Resources : Genuine(own, r, d.snap[r])
  BY <1>1, <1>2, <1>4, <1>5, <1>6 DEF AllGenuine
<1> QED
  BY <1>1, <1>2, <1>3, <1>5, <1>7, AgentMoves DEF AgentTypeOK, AllGenuine

\* AcceptFence, a failed method and the answer drop a call or change its phase.
LEMMA CallKeeps ==
    ASSUME AgentInv, NEW c \in calls,
           AcceptFence(c) \/ MethodFails(c) \/ PersistFences(c)
    PROVE  AgentInv'
<1>1. PICK own \in Owners : AllGenuine(own)
  BY DEF AgentInv
<1> DEFINE d == [c EXCEPT !.phase = "running"]
<1>2. AgentTypeOK /\ c \in Call
  BY DEF AgentInv, AgentTypeOK
<1>3. d \in Call /\ d.job = c.job /\ d.fence = c.fence /\ d.snap = c.snap
  BY <1>2 DEF Call
<1>4. /\ UNCHANGED <<vars, fences, agentCrashes>>
      /\ calls' \subseteq calls \cup {d}
  BY DEF AcceptFence, MethodFails, PersistFences
<1>5. /\ file' = file \/ file' = c.snap
      /\ \/ UNCHANGED acked
         \/ acked' = [acked EXCEPT ![Res(c)] = Greatest(@, c.fence)]
  BY DEF AcceptFence, MethodFails, PersistFences
<1>6. acked' \in [Resources -> Nat] /\ file' \in [Resources -> Record]
  <2>1. c.fence \in Nat /\ c.snap \in [Resources -> Record]
    BY <1>2 DEF Call
  <2>2. \A r \in Resources : Greatest(acked[r], c.fence) \in Nat
    BY <1>2, <2>1 DEF AgentTypeOK, Greatest
  <2> QED
    BY <1>2, <1>5, <2>1, <2>2 DEF AgentTypeOK
<1> HIDE DEF d
<1>7. \A e \in calls' : /\ Genuine(own, Res(e), ClaimOf(e))
                        /\ \A r \in Resources : Genuine(own, r, e.snap[r])
  BY <1>1, <1>3, <1>4 DEF AllGenuine, Res, ClaimOf
<1>8. \A r \in Resources : Genuine(own, r, fences'[r]) /\ Genuine(own, r, file'[r])
  BY <1>1, <1>4, <1>5 DEF AllGenuine
<1>9. calls' \in SUBSET Call
  BY <1>2, <1>3, <1>4 DEF AgentTypeOK
<1> QED
  BY <1>1, <1>2, <1>4, <1>6, <1>7, <1>8, <1>9, AgentMoves DEF AgentTypeOK

LEMMA RememberKeeps ==
    ASSUME AgentInv, NEW c \in calls, RememberFence(c) PROVE AgentInv'
<1>1. PICK own \in Owners : AllGenuine(own)
  BY DEF AgentInv
<1> DEFINE rec == [fence |-> c.fence, op |-> c.job]
           d == [c EXCEPT !.phase = "recorded", !.snap = fences']
<1>2. AgentTypeOK /\ c \in Call /\ Res(c) \in Resources /\ rec \in Record
  BY JobQueueAssumption DEF AgentInv, AgentTypeOK, Call, Res, Record
<1>3. /\ UNCHANGED <<vars, file, acked, agentCrashes>>
      /\ fences' = [fences EXCEPT ![Res(c)] = rec]
      /\ calls' = (calls \ {c}) \cup {d}
  BY DEF RememberFence
<1>4. Genuine(own, Res(c), rec)
  BY <1>1 DEF AllGenuine, ClaimOf
<1> HIDE DEF rec
<1>5. /\ fences' \in [Resources -> Record]
      /\ \A r \in Resources : Genuine(own, r, fences'[r])
  BY <1>1, <1>2, <1>3, <1>4 DEF AllGenuine, AgentTypeOK
<1>6. d \in Call /\ d.job = c.job /\ d.fence = c.fence /\ d.snap = fences'
  BY <1>2, <1>5 DEF Call
<1> HIDE DEF d
<1>7. \A e \in calls' : /\ Genuine(own, Res(e), ClaimOf(e))
                        /\ \A r \in Resources : Genuine(own, r, e.snap[r])
  BY <1>1, <1>3, <1>5, <1>6 DEF AllGenuine, Res, ClaimOf
<1>8. calls' \in SUBSET Call
  BY <1>2, <1>3, <1>6 DEF AgentTypeOK
<1>9. \A r \in Resources : Genuine(own, r, fences'[r]) /\ Genuine(own, r, file'[r])
  BY <1>1, <1>3, <1>5 DEF AllGenuine
<1> QED
  BY <1>1, <1>2, <1>3, <1>5, <1>7, <1>8, <1>9, AgentMoves DEF AgentTypeOK

LEMMA RestartKeeps == ASSUME AgentInv, AgentRestart PROVE AgentInv'
<1>1. PICK own \in Owners : AllGenuine(own)
  BY DEF AgentInv
<1>2. AgentTypeOK /\ TypeOK
  BY DEF AgentInv, AgentTypeOK
<1>3. /\ UNCHANGED <<vars, acked>> /\ calls' = {} /\ fences' = file'
      /\ file' = file \/ file' = NoRecords
      /\ agentCrashes < MaxAgentCrashes /\ agentCrashes' = agentCrashes + 1
  BY DEF AgentRestart
<1>4. /\ NoRecords \in [Resources -> Record]
      /\ \A r \in Resources : Genuine(own, r, NoRecords[r])
  BY <1>2 DEF NoRecords, NoRecord, Record, Genuine, TypeOK
<1>5. \A r \in Resources : Genuine(own, r, fences'[r]) /\ Genuine(own, r, file'[r])
  BY <1>1, <1>3, <1>4 DEF AllGenuine
<1>6. agentCrashes' \in 0 .. MaxAgentCrashes
  BY <1>2, <1>3, AgentAssumption DEF AgentTypeOK
<1> QED
  BY <1>1, <1>2, <1>3, <1>4, <1>5, <1>6, AgentMoves DEF AgentTypeOK

-----------------------------------------------------------------------------
LEMMA AgentInvInitial == AgentInit => AgentInv
<1> SUFFICES ASSUME AgentInit PROVE AgentInv
  OBVIOUS
<1>1. IndInv /\ TypeOK
  BY IndInit DEF AgentInit, IndInv
<1>2. NoRecords \in [Resources -> Record]
  BY DEF NoRecords, NoRecord, Record
<1>3. AgentTypeOK
  BY <1>1, <1>2, AgentAssumption DEF AgentInit, AgentTypeOK
<1> DEFINE own == [r \in Resources |-> [f \in Nat |-> NoJob]]
<1>4. own \in Owners
  BY DEF Owners
<1>5. AllGenuine(own)
  BY <1>1 DEF AllGenuine, AgentInit, Genuine, NoRecords, NoRecord, Init, Busy, Idle, TypeOK
<1> QED
  BY <1>1, <1>3, <1>4, <1>5 DEF AgentInv

LEMMA AgentInvInductive == AgentInv /\ [AgentNext]_<<vars, agentVars>> => AgentInv'
<1> SUFFICES ASSUME AgentInv, [AgentNext]_<<vars, agentVars>> PROVE AgentInv'
  OBVIOUS
<1>1. CASE UNCHANGED <<vars, agentVars>>
  <2>1. PICK own \in Owners : AllGenuine(own)
    BY DEF AgentInv
  <2> QED
    BY <1>1, <2>1, AgentMoves DEF AgentInv, AgentTypeOK, AllGenuine, agentVars
<1>2. CASE AgentStep
  BY <1>2, DispatchKeeps, CallKeeps, RememberKeeps, RestartKeeps DEF AgentStep
<1>3. CASE QueueStep
  BY <1>3, QueueStepKeeps
<1> QED
  BY <1>1, <1>2, <1>3 DEF AgentNext

\* The queue, the agent's records and the calls it serves keep their types.
THEOREM AgentTypeCorrect == AgentSpec => []AgentTypeOK
<1>1. AgentInv => AgentTypeOK
  BY DEF AgentInv
<1> QED
  BY <1>1, AgentInvInitial, AgentInvInductive, PTL DEF AgentSpec

\* The agent never refuses a call of the latest claim on a resource, whatever it
\* recorded late, lost or read back from a truncated file (ops.go, acceptFence,
\* storeFence; fence.go, ensureFences).
THEOREM LatestClaimServed == AgentSpec => []LatestClaimNotRefused
<1>1. AgentInv => LatestClaimNotRefused
  <2> SUFFICES ASSUME AgentInv, NEW c \in calls, c.fence = resFence[Res(c)]
               PROVE  ~Refuses(c)
    BY DEF LatestClaimNotRefused
  <2>1. PICK own \in Owners : AllGenuine(own)
    BY DEF AgentInv
  <2>2. /\ Res(c) \in Resources /\ c.job \in Jobs /\ c.fence \in Nat
        /\ fences[Res(c)] \in Record
    BY JobQueueAssumption DEF AgentInv, AgentTypeOK, Call, Res
  <2>3. Genuine(own, Res(c), fences[Res(c)]) /\ Genuine(own, Res(c), ClaimOf(c))
    BY <2>1, <2>2 DEF AllGenuine
  <2>4. own[Res(c)][c.fence] = c.job
    BY <2>2, <2>3, JobQueueAssumption DEF Genuine, ClaimOf
  <2> QED
    BY <2>2, <2>3, <2>4 DEF Refuses, Genuine, Record
<1> QED
  BY <1>1, AgentInvInitial, AgentInvInductive, PTL DEF AgentSpec
=============================================================================
