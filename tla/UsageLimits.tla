----------------------------- MODULE UsageLimits -----------------------------
(***************************************************************************)
(* The usage of one account and what follows from it: the worker's         *)
(* recordUsage (internal/job/worker.go), the agent's count of the bytes    *)
(* nginx logged in the month (agent/operations/bandwidth.go, usage.go),    *)
(* the hold on the account's sites once they are too many, and the lock of *)
(* a home that is full (agent/operations/quota.go).                        *)
(*                                                                         *)
(* The count is the month's total in a file, plus what the access log has  *)
(* after the offset of a checkpoint; the checkpoint is saved while the log *)
(* is read, the total afterwards.  A write to a home measures the account  *)
(* too, in another process, when its usage is not known.  A line of the    *)
(* log stands for one unit of bytes, with the month of its time stamp.     *)
(***************************************************************************)
EXTENDS Integers, Sequences, FiniteSets

CONSTANTS Months,        \* the last month, counted from 1
          MaxLines,      \* bound: requests nginx logs
          MaxFailures,   \* bound: failed calls and crashes
          MaxChanges     \* bound: rotations, package changes, full homes

VARIABLES month,      \* the month
          log,        \* the access log: its inode and its lines' months
          cp,         \* the checkpoint of the log
          total,      \* total[m]: the file of month m
          usage,      \* the row: bandwidth bytes of the last collection
          limit,      \* bandwidth_bytes_monthly of the package
          site,       \* the sites are held
          disk,       \* the home is full, and what was made of it
          meter,      \* the measurements under way
          reconcile,  \* the job of a package change waits
          failures,   \* bound: failed calls and crashes so far
          changes,    \* bound: rotations and changes so far
          logged,     \* history, logged[m]: lines of month m so far
          disturbed,  \* history: lines may be left out of the count
          recount,    \* history: a checkpoint was not saved, or is a later month's
          dropped     \* history: sites were not applied after a change

vars == <<month, log, cp, total, usage, limit, site, disk, meter, reconcile,
          failures, changes, logged, disturbed, recount, dropped>>

Meters == {"worker", "write"}
Limits == {1, 2}
NoCp == [inode |-> 0, offset |-> 0, month |-> 0]
Idle == [pc |-> "idle", month |-> 0, total |-> 0, delta |-> 0,
         held |-> FALSE, disk |-> FALSE, full |-> FALSE]
Steps == {"idle", "total", "delta", "persist", "put", "disk", "lock", "mark",
          "sshd", "hold", "reapply"}

TypeOK ==
    /\ month \in 1..Months
    /\ log \in [inode : Nat \ {0}, lines : Seq(1..Months)]
    /\ cp \in [inode : Nat, offset : Nat, month : Nat]
    /\ total \in [1..Months -> Nat] /\ logged \in [1..Months -> 0..MaxLines]
    /\ usage \in Nat /\ limit \in Limits /\ site \in BOOLEAN
    /\ disk \in [full : BOOLEAN, lock : BOOLEAN, mark : BOOLEAN, sshd : BOOLEAN]
    /\ meter \in [Meters -> [pc : Steps, month : 0..Months, total : Nat,
                             delta : Nat, held : BOOLEAN, disk : BOOLEAN,
                             full : BOOLEAN]]
    /\ reconcile \in BOOLEAN
    /\ failures \in 0..MaxFailures /\ changes \in 0..MaxChanges
    /\ {disturbed, recount, dropped} \subseteq BOOLEAN

Init ==
    /\ month = 1 /\ log = [inode |-> 1, lines |-> <<>>] /\ cp = NoCp
    /\ total = [m \in 1..Months |-> 0] /\ logged = [m \in 1..Months |-> 0]
    /\ usage = 0 /\ limit \in Limits /\ site = FALSE
    /\ disk = [full |-> FALSE, lock |-> FALSE, mark |-> FALSE, sshd |-> FALSE]
    /\ meter = [p \in Meters |-> Idle]
    /\ reconcile = FALSE /\ failures = 0 /\ changes = 0
    /\ disturbed = FALSE /\ recount = FALSE /\ dropped = FALSE

-----------------------------------------------------------------------------
(* What happens on the host.                                               *)

\* A checkpoint is of use for the same file, in the same month, while the
\* file is no shorter than the offset.
Resumes(c, l, m) == c.inode = l.inode /\ c.month = m /\ Len(l.lines) >= c.offset

\* Mutant: the month of the checkpoint does not matter.
ResumesAnyMonth(l, m) ==
    IF cp.inode = l.inode /\ Len(l.lines) >= cp.offset THEN cp.offset ELSE 0
ResumeAt(l, m) == IF Resumes(cp, l, m) THEN cp.offset ELSE 0

LinesOf(m, lines, start) ==
    Cardinality({i \in (start + 1)..Len(lines) : lines[i] = m})
Unread(m) == LinesOf(m, log.lines, ResumeAt(log, m))
Measuring == \E p \in Meters : meter[p].pc \in {"total", "delta", "persist"}

Serve ==
    /\ Len(log.lines) < MaxLines /\ \A m \in 1..Months : logged[m] < MaxLines
    /\ ~site
    /\ log' = [log EXCEPT !.lines = Append(@, month)]
    /\ logged' = [logged EXCEPT ![month] = @ + 1]
    /\ UNCHANGED <<month, cp, total, usage, limit, site, disk, meter, reconcile,
                   failures, changes, disturbed, recount, dropped>>

NewMonth ==
    /\ month < Months /\ month' = month + 1
    /\ UNCHANGED <<log, cp, total, usage, limit, site, disk, meter, reconcile,
                   failures, changes, logged, disturbed, recount, dropped>>

\* The log is rotated: renamed, or emptied in place.  What was not read is
\* never counted, nor is what the emptied file gets up to the old offset.
Rotate ==
    /\ changes < MaxChanges /\ changes' = changes + 1
    /\ log' \in {[inode |-> log.inode + 1, lines |-> <<>>],
                 [inode |-> log.inode, lines |-> <<>>]}
    /\ disturbed' = (disturbed \/ Measuring \/ Unread(month) > 0
                     \/ log'.inode = cp.inode)
    /\ UNCHANGED <<month, cp, total, usage, limit, site, disk, meter, reconcile,
                   failures, logged, recount, dropped>>

\* A package change queues an account reconcile (module AccountReconcile).
ChangePackage ==
    /\ changes < MaxChanges /\ changes' = changes + 1
    /\ limit' \in Limits \ {limit} /\ reconcile' = TRUE
    /\ UNCHANGED <<month, log, cp, total, usage, site, disk, meter, failures,
                   logged, disturbed, recount, dropped>>

FillHome ==
    /\ changes < MaxChanges /\ changes' = changes + 1
    /\ disk' = [disk EXCEPT !.full = ~@]
    /\ UNCHANGED <<month, log, cp, total, usage, limit, site, meter, reconcile,
                   failures, logged, disturbed, recount, dropped>>

-----------------------------------------------------------------------------
(* A measurement.                                                          *)

Move(p, step) == meter' = [meter EXCEPT ![p].pc = step]
Fails == failures < MaxFailures /\ failures' = failures + 1
BandwidthHold == usage >= limit
Counting == UNCHANGED <<month, log, usage, limit, site, disk, reconcile, changes,
                        logged, dropped>>

\* recordUsage starts; so does a write to a home whose usage is not cached.
Start(p) ==
    /\ meter[p].pc = "idle"
    /\ \/ p = "worker" /\ ~reconcile
       \/ p = "write" /\ changes < MaxChanges
    /\ meter' = [meter EXCEPT ![p] = [Idle EXCEPT !.pc = "total",
                                        !.month = month, !.held = BandwidthHold]]
    /\ changes' = IF p = "write" THEN changes + 1 ELSE changes
    /\ disturbed' = (disturbed \/ Measuring)
    /\ UNCHANGED <<month, log, cp, total, usage, limit, site, disk, reconcile,
                   failures, logged, recount, dropped>>

ReadPersistedMonthly(p) ==
    /\ meter[p].pc = "total"
    /\ meter' = [meter EXCEPT ![p].pc = "delta", ![p].total = total[meter[p].month]]
    /\ UNCHANGED <<cp, total, failures, disturbed, recount>> /\ Counting

\* readBandwidthDelta: the lines of the month after the checkpoint, and the
\* checkpoint moved to the end.  What the log gets in between is read next.
ReadBandwidthDelta(p) ==
    /\ meter[p].pc = "delta"
    /\ LET m == meter[p].month
           delta == Unread(m)
           next == [inode |-> log.inode, offset |-> Len(log.lines), month |-> m]
       IN /\ meter' = [meter EXCEPT ![p].pc = "persist", ![p].delta = delta]
          /\ \/ /\ cp' = next /\ UNCHANGED failures
                /\ recount' = (recount \/ cp.month > m)
             \/ UNCHANGED cp /\ Fails /\ recount' = TRUE
    /\ UNCHANGED <<total, disturbed>> /\ Counting

\* What the measurement was for: the row, the lock of the home, or a write.
Counted(p) ==
    meter' = [meter EXCEPT ![p] =
                 IF p = "write" THEN Idle
                 ELSE [@ EXCEPT !.pc = IF meter[p].disk THEN "lock" ELSE "put"]]

\* Mutant: what was counted is added to the total as it is by now.
PersistOwnTotal(p) ==
    /\ meter[p].pc = "persist"
    /\ total' = [total EXCEPT ![meter[p].month] = @ + meter[p].total + meter[p].delta]
    /\ Counted(p)
    /\ UNCHANGED <<cp, failures, disturbed, recount>> /\ Counting

PersistBandwidthTotal(p) ==
    /\ meter[p].pc = "persist"
    /\ \/ /\ total' = [total EXCEPT ![meter[p].month] =
                           meter[p].total + meter[p].delta]
          /\ UNCHANGED <<failures, disturbed>>
       \/ UNCHANGED total /\ Fails /\ disturbed' = TRUE
    /\ Counted(p)
    /\ UNCHANGED <<cp, recount>> /\ Counting

\* A process stops.
Crash(p) ==
    /\ meter[p].pc # "idle" /\ Fails
    /\ meter' = [meter EXCEPT ![p] = Idle]
    /\ disturbed' = (disturbed \/ meter[p].pc = "persist")
    /\ dropped' = (dropped \/ meter[p].pc \in
                        {"disk", "lock", "mark", "sshd", "hold", "reapply"}
                     \/ meter[p].disk)
    /\ UNCHANGED <<month, log, cp, total, usage, limit, site, disk, reconcile,
                   changes, logged, recount>>

-----------------------------------------------------------------------------
(* recordUsage, after the measurement.                                     *)

Rest == UNCHANGED <<month, log, cp, total, limit, reconcile, changes, logged,
                    disturbed, recount>>

\* persistUsageEnforcement.
PersistUsage ==
    /\ meter["worker"].pc = "put"
    /\ usage' = meter["worker"].total + meter["worker"].delta
    /\ Move("worker", "disk")
    /\ UNCHANGED <<site, disk, failures, dropped>> /\ Rest

\* The agent does not answer: the home is walked, the bandwidth is written as
\* zero, and nothing is enforced.
PersistWithoutAgent ==
    /\ meter["worker"].pc \in {"total", "put"} /\ ~meter["worker"].disk /\ Fails
    /\ usage' = 0
    /\ meter' = [meter EXCEPT !["worker"] = Idle]
    /\ dropped' = TRUE
    /\ UNCHANGED <<site, disk>> /\ Rest

\* EnforceAccountDisk measures the account again, bandwidth and all, and makes
\* the home read-only, or writable, in three places; an error ends it and is
\* dropped.
EnforceAccountDisk ==
    /\ meter["worker"].pc = "disk"
    /\ meter' = [meter EXCEPT !["worker"].pc = "total", !["worker"].disk = TRUE,
                              !["worker"].month = month,
                              !["worker"].full = disk.full]
    /\ disturbed' = (disturbed \/ Measuring)
    /\ UNCHANGED <<month, log, cp, total, usage, limit, site, disk, reconcile,
                   failures, changes, logged, recount, dropped>>

Enforce(step, field, next) ==
    /\ meter["worker"].pc = step
    /\ \/ /\ disk' = [disk EXCEPT ![field] = meter["worker"].full]
          /\ Move("worker", next) /\ UNCHANGED failures
       \/ UNCHANGED disk /\ Fails /\ Move("worker", "hold")
    /\ UNCHANGED <<usage, site, dropped>> /\ Rest

\* Mutant: the marker is forgotten.
LockOnly == Enforce("lock", "lock", "sshd")

SetHomeWriteLock == Enforce("lock", "lock", "mark")
SetQuotaReadOnlyMarker == Enforce("mark", "mark", "sshd")

\* rewriteSFTPQuotaSSHD lists the accounts that have a marker.
RewriteSFTPQuotaSSHD ==
    /\ meter["worker"].pc = "sshd"
    /\ \/ disk' = [disk EXCEPT !.sshd = disk.mark] /\ UNCHANGED failures
       \/ UNCHANGED disk /\ Fails
    /\ Move("worker", "hold")
    /\ UNCHANGED <<usage, site, dropped>> /\ Rest

\* Mutant: the sites are applied when the account is over its limit.
ReapplyOnHold ==
    /\ meter["worker"].pc = "hold"
    /\ meter' = [meter EXCEPT !["worker"] =
                    IF BandwidthHold /\ ~@.held THEN [@ EXCEPT !.pc = "reapply"]
                    ELSE Idle]
    /\ UNCHANGED <<usage, site, disk, failures, dropped>> /\ Rest

\* The sites are applied only when the collection changed the hold.
\* (EnforceAccountBandwidth writes a flag that nothing reads.)
CompareHold ==
    /\ meter["worker"].pc = "hold"
    /\ meter' = [meter EXCEPT !["worker"] =
                    IF BandwidthHold # @.held THEN [@ EXCEPT !.pc = "reapply"]
                    ELSE Idle]
    /\ UNCHANGED <<usage, site, disk, failures, dropped>> /\ Rest

\* reapplyAccountWebsites drops the errors of the agent.
ReapplyAccountWebsites ==
    /\ meter["worker"].pc = "reapply"
    /\ \/ site' = BandwidthHold /\ dropped' = FALSE /\ UNCHANGED failures
       \/ UNCHANGED site /\ Fails /\ dropped' = TRUE
    /\ meter' = [meter EXCEPT !["worker"] = Idle]
    /\ UNCHANGED <<usage, disk>> /\ Rest

\* The job of a package change applies the sites with the hold as it is.
Reconcile ==
    /\ reconcile /\ meter["worker"].pc = "idle"
    /\ site' = BandwidthHold /\ dropped' = FALSE /\ reconcile' = FALSE
    /\ UNCHANGED <<month, log, cp, total, usage, limit, disk, meter, failures,
                   changes, logged, disturbed, recount>>

Next ==
    \/ Serve \/ NewMonth \/ Rotate \/ ChangePackage \/ FillHome
    \/ \E p \in Meters : Start(p) \/ ReadPersistedMonthly(p)
                         \/ ReadBandwidthDelta(p) \/ PersistBandwidthTotal(p)
                         \/ Crash(p)
    \/ PersistUsage \/ PersistWithoutAgent \/ EnforceAccountDisk \/ SetHomeWriteLock
    \/ SetQuotaReadOnlyMarker \/ RewriteSFTPQuotaSSHD \/ CompareHold
    \/ ReapplyAccountWebsites \/ Reconcile

Spec == Init /\ [][Next]_vars

-----------------------------------------------------------------------------
\* A month's total never has a byte twice, although two processes measure at
\* once, die between checkpoint and total, and logs and months turn: whatever
\* goes wrong leaves bytes out.  Two things have them counted again, and
\* neither is noticed: a checkpoint that could not be saved, and a measurement
\* of one month that reads after one of the next month, since a log has one
\* checkpoint for both.
NeverCountedTwice ==
    ~recount => \A m \in 1..Months : total[m] <= logged[m]

\* Without such an event nothing of the month is left out: what is not in the
\* total is in the log, after the checkpoint.
NothingLeftOut ==
    ~disturbed /\ ~recount /\ ~Measuring =>
        logged[month] = total[month] + Unread(month)

\* The sites are held exactly while the row says the month's bytes are used
\* up, between collections and once a package change is reconciled, unless an
\* application of the sites was dropped since the last one.
HoldFollowsUsage ==
    meter["worker"].pc = "idle" /\ ~reconcile /\ ~dropped => site = BandwidthHold

\* A collection that met no failure leaves the three marks of a full home
\* agreeing with each other, whatever interrupted the collections before it.
MarksOfFullHomeAgree ==
    meter["worker"].pc = "hold" /\ failures = 0 =>
        disk.lock = disk.mark /\ disk.mark = disk.sshd
=============================================================================
