----------------------- MODULE AccountReconcileProofs -----------------------
(***************************************************************************)
(* Proofs about AccountReconcile, for any number of requests, jobs,        *)
(* attempts and interruptions.                                             *)
(***************************************************************************)
EXTENDS AccountReconcile, WellFoundedInduction, TLAPS

\* The host is in the state that the status asks for.
Agree(status, state) ==
    /\ status = "suspended" <=> state = "locked"
    /\ status = "active" => state = "open"

\* An attempt has a job, and copies of the row were taken while it existed.
CopiesOfRow ==
    /\ worker.pc # "idle" => jobs[worker.slot] # NoJob /\ worker.acc.exists
    /\ \A c \in Clients : clients[c].op \in Ops => clients[c].acc.exists

\* From the lock or the unlock on, the host has the status that the attempt will
\* write, unless the call failed or the attempt is stopped and its job stays.
StatusApplied ==
    worker.pc \in {"recheck", "ack", "put"} =>
        failed \/ worker.stopped \/ Agree(worker.acc.status, host)

\* Between attempts the host has the status of the row or a job waits.
AgreesOrWaits ==
    worker.pc = "idle" =>
        \/ failed \/ ~row.exists \/ Agree(row.status, host)
        \/ \E s \in Slots : jobs[s] # NoJob

AccountInv == TypeOK /\ CopiesOfRow /\ StatusApplied /\ AgreesOrWaits

-----------------------------------------------------------------------------
\* insertJobTx takes the first free slot, which is one of them.
LEMMA FirstIsIn == ASSUME NEW S, S \subseteq Nat, S # {} PROVE First(S) \in S
<1> DEFINE R == OpToRel(<, Nat)
<1>1. IsWellFoundedOn(R, Nat)
  BY NatLessThanWellFounded
<1>2. \A x, y \in Nat : <<y, x>> \in R <=> y < x
  BY DEF OpToRel
<1> HIDE DEF R
<1>3. PICK x \in S : \A y \in S : ~ (<<y, x>> \in R)
  BY <1>1, WFMin
<1>4. \A y \in S : x <= y
  <2> TAKE y \in S
  <2>1. x \in Nat /\ y \in Nat /\ ~(y < x)
    BY <1>2, <1>3
  <2> QED
    BY <2>1
<1> QED
  BY <1>4 DEF First

LEMMA AccountConstants ==
    /\ First(Slots) \in Slots
    /\ IdleWorker \in [pc : Steps, slot : Slots, acc : Row, stopped : BOOLEAN]
    /\ NoRow \in Row /\ ~NoRow.exists /\ IdleWorker.pc = "idle"
    /\ NoJob \in Job
<1>1. First(Slots) \in Slots
  BY AccountAssumption, FirstIsIn
<1>2. NoRow \in Row /\ ~NoRow.exists /\ NoJob \in Job
  BY DEF NoRow, Row, Statuses, NoJob, Job
<1> QED
  BY <1>1, <1>2 DEF IdleWorker, Steps

\* A job that is inserted has a target, takes a free slot and leaves the others.
LEMMA EnqueueEffect ==
    ASSUME TypeOK, NEW target \in Nat \ {0}, Enqueue(target)
    PROVE  \E s \in Slots :
              /\ jobs[s] = NoJob
              /\ jobs' = [jobs EXCEPT ![s] = [target |-> target, attempts |-> 0]]
              /\ jobs' \in [Slots -> Job] /\ jobs'[s] # NoJob
<1> DEFINE free == {s \in Slots : jobs[s] = NoJob}
<1>1. First(free) \in free
  BY AccountAssumption, FirstIsIn DEF Enqueue
<1> QED
  BY <1>1 DEF Enqueue, TypeOK, Job, NoJob

\* execute's end settles the job or leaves it as it was; a stopped attempt and a
\* crash leave it.
LEMMA JobEndsEffect ==
    ASSUME TypeOK, NEW outcome, JobEnds(outcome)
    PROVE  /\ worker' = IdleWorker
           /\ jobs' \in [Slots -> Job]
           /\ worker.stopped => jobs' = jobs
<1>1. PICK x \in {NoJob, jobs[worker.slot]} :
         /\ jobs' = [jobs EXCEPT ![worker.slot] = x]
         /\ worker.stopped => x = jobs[worker.slot]
  BY DEF JobEnds
<1> QED
  BY <1>1, AccountConstants DEF JobEnds, TypeOK

LEMMA AccountInitially == Init => AccountInv
<1> SUFFICES ASSUME Init PROVE AccountInv
  OBVIOUS
<1> USE AccountAssumption, AccountConstants
<1>1. row \in Row /\ jobs \in [Slots -> Job]
  BY DEF Init, Row, Statuses, Job, NoJob
<1>2. TypeOK
  <2>1. clients \in [Clients -> [op : Ops \cup {"none", "done"}, acc : Row]]
    BY DEF Init
  <2>2. worker \in [pc : Steps, slot : Slots, acc : Row, stopped : BOOLEAN]
    BY DEF Init
  <2>3. interrupts \in 0..MaxInterrupts /\ host \in {"absent", "open", "locked"}
    BY DEF Init
  <2> QED
    BY <1>1, <2>1, <2>2, <2>3 DEF Init, TypeOK
<1>3. jobs[First(Slots)] # NoJob
  BY DEF Init, NoJob
<1> QED
  BY <1>2, <1>3 DEF Init, AccountInv, CopiesOfRow, StatusApplied, AgreesOrWaits, Ops

LEMMA AccountStep == AccountInv /\ [Next]_vars => AccountInv'
<1> SUFFICES ASSUME AccountInv, [Next]_vars PROVE AccountInv'
  OBVIOUS
<1>t. TypeOK /\ CopiesOfRow /\ StatusApplied /\ AgreesOrWaits
  BY DEF AccountInv
<1> USE AccountAssumption, AccountConstants
<1> DEFINE CopiesIn(cs) == \A c \in Clients : cs[c].op \in Ops => cs[c].acc.exists
           ClientSet == [Clients -> [op : Ops \cup {"none", "done"}, acc : Row]]
\* The attempt ends: it wrote the row, it failed, or its job stays.
<1>e. ASSUME NEW outcome, JobEnds(outcome), worker.pc # "idle",
             row' \in Row, host' \in {"absent", "open", "locked"}, failed' \in BOOLEAN,
             UNCHANGED <<keys, clients, interrupts>>,
             worker.stopped \/ failed' \/ ~row'.exists \/ Agree(row'.status, host')
      PROVE  AccountInv'
  <2>1. /\ worker' = IdleWorker /\ jobs' \in [Slots -> Job]
        /\ worker.stopped => jobs' = jobs
    BY <1>t, <1>e, JobEndsEffect
  <2>2. worker'.pc = "idle"
    BY <2>1
  <2>3. TypeOK'
    BY <1>t, <1>e, <2>1 DEF TypeOK
  <2>4. CopiesOfRow' /\ StatusApplied'
    BY <1>t, <1>e, <2>2 DEF CopiesOfRow, StatusApplied
  <2>5. worker.stopped => \E s \in Slots : jobs'[s] # NoJob
    BY <1>t, <1>e, <2>1 DEF CopiesOfRow, TypeOK
  <2>6. AgreesOrWaits'
    BY <1>e, <2>5 DEF AgreesOrWaits
  <2> QED
    BY <2>3, <2>4, <2>6 DEF AccountInv
\* The attempt goes on with a copy of the row.
<1>g. ASSUME NEW pc \in Steps \ {"idle"}, NEW acc \in Row, acc.exists, Goto(pc, acc),
             worker.pc # "idle",
             row' \in Row, host' \in {"absent", "open", "locked"}, failed' \in BOOLEAN,
             UNCHANGED <<jobs, keys, clients, interrupts>>,
             pc \in {"recheck", "ack", "put"} =>
                failed' \/ worker.stopped \/ Agree(acc.status, host')
      PROVE  AccountInv'
  <2>1. /\ worker' \in [pc : Steps, slot : Slots, acc : Row, stopped : BOOLEAN]
        /\ worker'.pc = pc /\ worker'.acc = acc /\ worker'.slot = worker.slot
        /\ worker'.stopped = worker.stopped
    BY <1>t, <1>g DEF TypeOK, Goto
  <2>2. TypeOK'
    BY <1>t, <1>g, <2>1 DEF TypeOK
  <2>3. CopiesOfRow'
    BY <1>t, <1>g, <2>1 DEF CopiesOfRow
  <2>4. StatusApplied' /\ AgreesOrWaits'
    BY <1>g, <2>1 DEF StatusApplied, AgreesOrWaits
  <2> QED
    BY <2>2, <2>3, <2>4 DEF AccountInv
\* A job is inserted.
<1>q. ASSUME NEW target \in Nat \ {0}, Enqueue(target), row' \in Row, keys' \in SUBSET Nat,
             clients' \in ClientSet, CopiesIn(clients'),
             UNCHANGED <<host, worker, failed, interrupts>>
      PROVE  AccountInv'
  <2>1. PICK s \in Slots :
           /\ jobs[s] = NoJob
           /\ jobs' = [jobs EXCEPT ![s] = [target |-> target, attempts |-> 0]]
           /\ jobs' \in [Slots -> Job] /\ jobs'[s] # NoJob
    BY <1>t, <1>q, EnqueueEffect
  <2>2. TypeOK'
    BY <1>t, <1>q, <2>1 DEF TypeOK
  <2>3. CopiesOfRow'
    BY <1>t, <1>q, <2>1 DEF CopiesOfRow, TypeOK
  <2>4. StatusApplied' /\ AgreesOrWaits'
    BY <1>t, <1>q, <2>1 DEF StatusApplied, AgreesOrWaits
  <2> QED
    BY <2>2, <2>3, <2>4 DEF AccountInv
<1>w. worker \in [pc : Steps, slot : Slots, acc : Row, stopped : BOOLEAN]
      /\ (worker.pc # "idle" => worker.acc \in Row /\ worker.acc.exists)
      /\ worker.stopped \in BOOLEAN /\ failed \in BOOLEAN /\ row \in Row
      /\ host \in {"absent", "open", "locked"}
  BY <1>t DEF TypeOK, CopiesOfRow
<1>d. ASSUME NEW c \in Clients
      PROVE  LET cs == [clients EXCEPT ![c] = DoneClient]
             IN  cs \in ClientSet /\ CopiesIn(cs)
  BY <1>t, <1>d DEF DoneClient, Ops, TypeOK, CopiesOfRow
<1>1. ASSUME NEW c \in Clients, NEW op \in Ops, ReadAccount(c, op)
      PROVE  AccountInv'
  <2>1. clients' \in ClientSet /\ CopiesIn(clients')
    BY <1>t, <1>1 DEF ReadAccount, TypeOK, CopiesOfRow
  <2> QED
    BY <1>t, <1>1, <2>1 DEF ReadAccount, AccountInv, TypeOK, CopiesOfRow, StatusApplied,
       AgreesOrWaits
<1>2. ASSUME NEW c \in Clients, UpdateAccountWithJob(c)
      PROVE  AccountInv'
  <2>1. clients' \in ClientSet /\ CopiesIn(clients')
        /\ UNCHANGED <<host, keys, worker, failed, interrupts>>
    BY <1>2, <1>d DEF UpdateAccountWithJob
  <2>2. CASE UNCHANGED <<row, jobs>>
    BY <1>t, <2>1, <2>2 DEF AccountInv, TypeOK, CopiesOfRow, StatusApplied, AgreesOrWaits
  <2>3. CASE /\ clients[c].op \in Ops
             /\ row' = Requested(clients[c].op, clients[c].acc)
             /\ Enqueue(clients[c].acc.desired + 1)
    <3>1. clients[c].acc \in Row
      BY <1>t DEF TypeOK
    <3>2. PICK acc \in Row : acc = clients[c].acc
      BY <3>1
    <3>4. PICK status \in Statuses :
             row' = [acc EXCEPT !.desired = acc.desired + 1, !.status = status]
      <4>1. (IF clients[c].op = "modify" THEN acc.status ELSE clients[c].op) \in Statuses
        BY <1>2, <2>3, <3>2 DEF UpdateAccountWithJob, Ops, Statuses, Row
      <4> QED
        BY <2>3, <3>2, <4>1 DEF Requested
    <3>5. row' \in Row
      <4>1. PICK n \in Nat : n = acc.desired + 1
        BY DEF Row
      <4>2. row' = [acc EXCEPT !.desired = n, !.status = status]
        BY <3>4, <4>1
      <4> QED
        BY <4>2 DEF Row
    <3>3. clients[c].acc.desired + 1 \in Nat \ {0} /\ keys' \in SUBSET Nat
      <4>1. keys' \in SUBSET Nat
        BY <1>t, <2>1 DEF TypeOK
      <4>2. clients[c].acc.desired \in Nat
        BY <3>1 DEF Row
      <4> QED
        BY <4>1, <4>2
    <3> QED
      BY <2>1, <2>3, <3>5, <3>3, <1>q
  <2> QED
    BY <1>2, <2>2, <2>3 DEF UpdateAccountWithJob
<1>3. ASSUME NEW c \in Clients, RemoveAccount(c)
      PROVE  AccountInv'
  <2>1. clients' \in ClientSet /\ CopiesIn(clients') /\ row' = NoRow
        /\ UNCHANGED <<host, jobs, keys, worker, failed, interrupts>>
    BY <1>3, <1>d DEF RemoveAccount
  <2> QED
    BY <1>t, <2>1 DEF AccountInv, TypeOK, CopiesOfRow, StatusApplied, AgreesOrWaits
<1>4. ASSUME NEW c \in Clients, RotatePassword(c)
      PROVE  AccountInv'
  <2>1. clients' \in ClientSet /\ CopiesIn(clients') /\ Enqueue(1)
        /\ UNCHANGED <<row, host, keys, worker, failed, interrupts>>
    BY <1>4, <1>d DEF RotatePassword
  <2> QED
    BY <1>t, <2>1, <1>q DEF TypeOK
<1>5. ASSUME NEW s \in Slots, StartAttempt(s)
      PROVE  AccountInv'
  <2>1. jobs[s] \in Job /\ UNCHANGED <<row, host, keys, clients, failed, interrupts>>
    BY <1>t, <1>5 DEF StartAttempt, TypeOK
  <2>2. CASE ~row.exists
    <3>1. jobs' \in [Slots -> Job] /\ UNCHANGED worker /\ worker.pc = "idle"
      BY <1>t, <1>5, <2>2 DEF StartAttempt, TypeOK, At
    <3> QED
      BY <1>t, <2>1, <2>2, <3>1 DEF AccountInv, TypeOK, CopiesOfRow, StatusApplied,
         AgreesOrWaits
  <2>3. CASE row.exists
    <3>1. /\ worker'.slot = s /\ worker'.acc = row /\ worker'.stopped = FALSE
          /\ worker'.pc \in {"retire", "create"}
          /\ worker' = [pc |-> worker'.pc, slot |-> s, acc |-> row, stopped |-> FALSE]
      BY <1>5, <2>3 DEF StartAttempt
    <3>2. worker' \in [pc : Steps, slot : Slots, acc : Row, stopped : BOOLEAN]
      <4>1. PICK pc \in Steps :
               worker' = [pc |-> pc, slot |-> s, acc |-> row, stopped |-> FALSE]
        BY <3>1 DEF Steps
      <4> QED
        BY <1>w, <4>1
    <3>3. jobs' \in [Slots -> Job] /\ jobs'[s] # NoJob
      <4>1. jobs' = [jobs EXCEPT ![s].attempts = @ + 1]
        BY <1>5, <2>3 DEF StartAttempt
      <4>2. PICK j \in Job : j = jobs[s]
        BY <2>1
      <4>3. [j EXCEPT !.attempts = @ + 1] \in Job /\ [j EXCEPT !.attempts = @ + 1] # NoJob
        BY DEF Job, NoJob
      <4>4. jobs' = [jobs EXCEPT ![s] = [j EXCEPT !.attempts = @ + 1]]
        BY <4>1, <4>2
      <4> QED
        BY <1>t, <4>3, <4>4 DEF TypeOK
    <3> QED
      BY <1>t, <2>1, <2>3, <3>1, <3>2, <3>3 DEF AccountInv, TypeOK, CopiesOfRow,
         StatusApplied, AgreesOrWaits
  <2> QED
    BY <1>w, <2>2, <2>3 DEF Row
<1>6. CASE CreateLinuxUser
  <2>1. worker.pc = "create" /\ UNCHANGED <<keys, clients, interrupts>>
    BY <1>6 DEF CreateLinuxUser, At
  <2>2. CASE Goto("stack", worker.acc) /\ UNCHANGED <<row, jobs, failed>>
             /\ host' = IF host = "absent" THEN "open" ELSE host
    BY <1>w, <1>g, <2>1, <2>2 DEF Steps
  <2>3. CASE /\ PutAccount([worker.acc EXCEPT !.status = "failed"])
             /\ JobEnds("error") /\ CallFails /\ UNCHANGED host
    <3>1. row' \in Row
      BY <1>w, <2>1, <2>3 DEF PutAccount, Row, Statuses
    <3>2. failed' \in BOOLEAN /\ (worker.stopped \/ failed')
      BY <1>w, <2>3 DEF CallFails
    <3> QED
      BY <1>w, <1>e, <2>1, <2>3, <3>1, <3>2
  <2> QED
    BY <1>6, <2>2, <2>3 DEF CreateLinuxUser
<1>7. CASE EnsureStacks
  <2>1. worker.pc = "stack" /\ UNCHANGED <<row, host, keys, clients, interrupts>>
    BY <1>7 DEF EnsureStacks, At
  <2>2. CASE JobEnds("error") /\ CallFails
    BY <1>w, <1>e, <2>1, <2>2 DEF CallFails
  <2>3. CASE /\ \E pc \in {"retire", "apply"} : Goto(pc, Latest(worker.acc))
             /\ UNCHANGED <<jobs, failed>>
    <3>1. Latest(worker.acc) \in Row /\ Latest(worker.acc).exists
      BY <1>w, <2>1 DEF Latest, Row
    <3> QED
      BY <1>w, <1>g, <2>1, <2>3, <3>1 DEF Steps
  <2> QED
    BY <1>7, <2>2, <2>3 DEF EnsureStacks
<1>8. CASE ApplyStatus
  <2> DEFINE acc == IF worker.acc.status \in {"provisioning", "failed"}
                    THEN [worker.acc EXCEPT !.status = "active"] ELSE worker.acc
             state == IF worker.acc.status = "suspended" THEN "locked" ELSE "open"
  <2>1. /\ worker.pc = "apply" /\ UNCHANGED <<row, jobs, keys, clients, interrupts>>
        /\ Goto("recheck", acc) /\ BestEffort(state)
    BY <1>8 DEF ApplyStatus, At
  <2>2. acc \in Row /\ acc.exists /\ Agree(acc.status, state)
    BY <1>w, <2>1 DEF Row, Statuses, Agree
  <2>3. state \in {"open", "locked"}
    OBVIOUS
  <2> HIDE DEF acc, state
  <2>4. /\ host' \in {"absent", "open", "locked"} /\ failed' \in BOOLEAN
        /\ failed' \/ worker.stopped \/ host' = state
    BY <1>w, <2>1, <2>3 DEF BestEffort, CallFails
  <2> QED
    BY <1>w, <1>g, <2>1, <2>2, <2>4 DEF Steps
<1>9. CASE Recheck
  <2>1. worker.pc = "recheck" /\ UNCHANGED <<row, jobs, keys, clients, interrupts>>
    BY <1>9 DEF Recheck, At
  <2>2. CASE row.exists /\ row.status = "suspended" /\ BestEffort("locked")
             /\ Goto("ack", Latest(worker.acc))
    <3>1. /\ Latest(worker.acc) \in Row /\ Latest(worker.acc).exists
          /\ Agree(Latest(worker.acc).status, "locked")
      BY <1>w, <2>1, <2>2 DEF Latest, Row, Agree
    <3>2. /\ host' \in {"absent", "open", "locked"} /\ failed' \in BOOLEAN
          /\ failed' \/ worker.stopped \/ host' = "locked"
      BY <1>w, <2>2 DEF BestEffort, CallFails
    <3> QED
      BY <1>w, <1>g, <2>1, <2>2, <3>1, <3>2 DEF Steps
  <2>3. CASE row.exists /\ Goto("retire", row) /\ UNCHANGED <<host, failed>>
    BY <1>w, <1>g, <2>1, <2>3 DEF Steps
  <2>4. CASE Goto("ack", worker.acc) /\ UNCHANGED <<host, failed>>
    <3>1. failed' \/ worker.stopped \/ Agree(worker.acc.status, host')
      BY <1>t, <2>1, <2>4 DEF StatusApplied
    <3> QED
      BY <1>w, <1>g, <2>1, <2>4, <3>1 DEF Steps
  <2> QED
    BY <1>9, <2>2, <2>3, <2>4 DEF Recheck
<1>10. CASE AcknowledgeRevision
  <2>1. UNCHANGED <<row, host, jobs, keys, clients, failed, interrupts>>
        /\ worker.pc \in {"ack", "retireAck"}
    BY <1>10 DEF AcknowledgeRevision, At
  <2>2. /\ Acknowledge(worker.acc) \in Row /\ Acknowledge(worker.acc).exists
        /\ Acknowledge(worker.acc).status = worker.acc.status
    <3>1. jobs[worker.slot] \in Job
      BY <1>t DEF TypeOK
    <3> QED
      BY <1>w, <2>1, <3>1 DEF Acknowledge, Row, Job
  <2>3. CASE worker.pc = "ack" /\ Goto("put", Acknowledge(worker.acc))
    <3>1. failed' \/ worker.stopped \/ Agree(worker.acc.status, host')
      BY <1>t, <2>1, <2>3 DEF StatusApplied
    <3> QED
      BY <1>w, <1>g, <2>1, <2>2, <2>3, <3>1 DEF Steps
  <2>4. CASE Goto("retirePut", Acknowledge(worker.acc))
    BY <1>w, <1>g, <2>1, <2>2, <2>4 DEF Steps
  <2> QED
    BY <1>10, <2>3, <2>4 DEF AcknowledgeRevision, At
<1>11. CASE FinishProvision
  <2>1. worker.pc = "put" /\ UNCHANGED <<host, keys, clients, interrupts>>
        /\ PutAccount(worker.acc)
    BY <1>11 DEF FinishProvision, At
  <2>2. row' \in Row /\ (~row'.exists \/ row' = worker.acc)
    BY <1>w, <2>1 DEF PutAccount
  <2>3. CASE JobEnds("ok") /\ UNCHANGED failed
    BY <1>t, <1>w, <1>e, <2>1, <2>2, <2>3 DEF StatusApplied
  <2>4. CASE JobEnds("error") /\ CallFails
    BY <1>w, <1>e, <2>1, <2>2, <2>4 DEF CallFails
  <2> QED
    BY <1>11, <2>3, <2>4 DEF FinishProvision
<1>12. CASE RetireAccount
  <2>1. worker.pc = "retire" /\ UNCHANGED <<row, keys, clients, interrupts>>
    BY <1>12 DEF RetireAccount, At
  <2>2. CASE JobEnds("error") /\ CallFails /\ UNCHANGED host
    BY <1>w, <1>e, <2>1, <2>2 DEF CallFails
  <2>3. CASE /\ host' = "absent" /\ UNCHANGED <<jobs, failed>>
             /\ Goto("retireAck", [worker.acc EXCEPT !.status = "terminated"])
    <3>1. /\ [worker.acc EXCEPT !.status = "terminated"] \in Row
          /\ [worker.acc EXCEPT !.status = "terminated"].exists
      BY <1>w, <2>1 DEF Row, Statuses
    <3> QED
      BY <1>w, <1>g, <2>1, <2>3, <3>1 DEF Steps
  <2> QED
    BY <1>12, <2>2, <2>3 DEF RetireAccount
<1>13. CASE PutTerminated
  <2>1. /\ worker.pc = "retirePut" /\ UNCHANGED <<host, jobs, keys, clients, failed, interrupts>>
        /\ Goto("purge", worker.acc) /\ row' \in Row
    BY <1>w, <1>13 DEF PutTerminated, At, PutAccount
  <2> QED
    BY <1>w, <1>g, <2>1 DEF Steps
<1>14. CASE PurgeAccount
  <2>1. worker.pc = "purge" /\ UNCHANGED <<host, keys, clients, interrupts>>
    BY <1>14 DEF PurgeAccount, At
  <2>2. CASE row' = NoRow /\ JobEnds("ok") /\ UNCHANGED failed
    BY <1>w, <1>e, <2>1, <2>2
  <2>3. CASE JobEnds("error") /\ failed' = TRUE /\ UNCHANGED row
    BY <1>w, <1>e, <2>1, <2>3
  <2> QED
    BY <1>14, <2>2, <2>3 DEF PurgeAccount
<1>15. CASE Crash
  <2>1. /\ worker.pc # "idle" /\ worker' = IdleWorker /\ interrupts' \in 0..MaxInterrupts
        /\ UNCHANGED <<row, host, jobs, keys, clients, failed>>
    BY <1>t, <1>15 DEF Crash, At, TypeOK
  <2>2. TypeOK'
    BY <1>t, <2>1 DEF TypeOK
  <2>3. \E s \in Slots : jobs'[s] # NoJob
    BY <1>t, <2>1 DEF TypeOK, CopiesOfRow
  <2> QED
    BY <1>t, <2>1, <2>2, <2>3 DEF AccountInv, CopiesOfRow, StatusApplied, AgreesOrWaits
<1>16. CASE StopAttempt
  <2>1. /\ worker.pc # "idle" /\ worker' = [worker EXCEPT !.stopped = TRUE]
        /\ interrupts' \in 0..MaxInterrupts
        /\ UNCHANGED <<row, host, jobs, keys, clients, failed>>
    BY <1>t, <1>16 DEF StopAttempt, At, TypeOK
  <2>2. /\ worker' \in [pc : Steps, slot : Slots, acc : Row, stopped : BOOLEAN]
        /\ worker'.pc = worker.pc /\ worker'.acc = worker.acc /\ worker'.slot = worker.slot
        /\ worker'.stopped
    BY <1>w, <2>1
  <2>3. TypeOK'
    BY <1>t, <2>1, <2>2 DEF TypeOK
  <2> QED
    BY <1>t, <2>1, <2>2, <2>3 DEF AccountInv, CopiesOfRow, StatusApplied, AgreesOrWaits
<1>17. CASE ScanDrift
  <2>1. /\ Enqueue(row.desired) /\ UNCHANGED <<row, host, worker, clients, failed, interrupts>>
        /\ keys' \in SUBSET Nat /\ row.desired \in Nat \ {0}
    <3>1. row.desired \in Nat /\ row.observed \in Nat
      BY <1>w DEF Row
    <3>2. row.desired > row.observed /\ Enqueue(row.desired) /\ keys' = keys \cup {row.desired}
          /\ UNCHANGED <<row, host, worker, clients, failed, interrupts>>
      BY <1>17 DEF ScanDrift
    <3>3. row.desired \in Nat \ {0}
      BY <3>1, <3>2
    <3>4. keys' \in SUBSET Nat
      BY <1>t, <3>1, <3>2 DEF TypeOK
    <3> QED
      BY <3>2, <3>3, <3>4
  <2>2. clients' \in ClientSet /\ CopiesIn(clients')
    BY <1>t, <2>1 DEF TypeOK, CopiesOfRow
  <2> QED
    BY <1>w, <1>q, <2>1, <2>2
<1>18. CASE UNCHANGED vars
  BY <1>t, <1>18 DEF vars, AccountInv, TypeOK, CopiesOfRow, StatusApplied, AgreesOrWaits
<1> QED
  BY <1>1, <1>2, <1>3, <1>4, <1>5, <1>6, <1>7, <1>8, <1>9, <1>10, <1>11, <1>12, <1>13,
     <1>14, <1>15, <1>16, <1>17, <1>18 DEF Next, ApiStep, WorkerStep

\* The row, every copy of it and the jobs have their types, and an attempt is
\* interrupted no more often than the bound allows.
THEOREM AccountTypeCorrect == Spec => []TypeOK
<1>1. AccountInv => TypeOK
  BY DEF AccountInv
<1> QED
  BY <1>1, AccountInitially, AccountStep, PTL DEF Spec

\* When provisionAccount and retireAccount have nothing left to do and no call of
\* the agent failed, the host has the status the panel shows, for any number of
\* racing requests, attempts, crashes and cancellations.
THEOREM HostAgrees == Spec => []HostAgreesWhenSettled
<1>1. AccountInv => HostAgreesWhenSettled
  BY DEF AccountInv, AgreesOrWaits, HostAgreesWhenSettled, Settled, At, Agree
<1> QED
  BY <1>1, AccountInitially, AccountStep, PTL DEF Spec
=============================================================================
