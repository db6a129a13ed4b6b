----------------------------- MODULE ZonePublish -----------------------------
(***************************************************************************)
(* A DNS zone between the API, which changes records and the DNSSEC flag   *)
(* (internal/httpserver/api.go, internal/store/async_atomic.go), and the   *)
(* worker, which writes the zone file and the DNSSEC state to the host and *)
(* the zone's row back (syncDNS, writeZone, markZonePublished,             *)
(* applyDNSSECState, ensureServiceRecords, publishDKIMTXT in               *)
(* internal/job/worker.go).  The SOA serial of the file is the desired     *)
(* revision of the zone.                                                   *)
(*                                                                         *)
(* The records are told apart by a version that grows with every change.   *)
(* How often a failed job is retried is left open: a failed attempt waits  *)
(* again or gives up.                                                      *)
(***************************************************************************)
EXTENDS Integers

CONSTANTS Toggles,     \* API requests that set DNSSEC, each made once
          OwnJobs,     \* jobs of the worker's own: reconciles, DKIM keys
          MaxRecords,  \* bound: changes of records by the API
          MaxOwn       \* bound: changes of records by the worker

\* At least the reconcile that publishes the new zone is waiting.
ASSUME ZoneAssumption == OwnJobs \in Nat \ {0} /\ MaxRecords \in Nat /\ MaxOwn \in Nat

VARIABLES zone,     \* the dns_zones row
          records,  \* the version of the zone's records
          changes,  \* bound: changes by the API and by the worker so far
          toggles,  \* each DNSSEC request: not made, read, done
          jobs,     \* waiting jobs of each kind
          worker,   \* the attempt: its step, kind, copies of the zone, file body
          host,     \* the zone file and the DNSSEC state on the host
          failed    \* history: a call of the agent failed

vars == <<zone, records, changes, toggles, jobs, worker, host, failed>>

Zone == [desired : Nat, observed : Nat, dnssec : BOOLEAN]
File == [records : Nat, serial : Nat]
Kinds == {"dns.sync", "dns.dnssec", "own"}
NoFile == [records |-> 0, serial |-> 0]
NoZone == [desired |-> 0, observed |-> 0, dnssec |-> FALSE]
IdleWorker == [pc |-> "idle", kind |-> "own", z |-> NoZone,
               latest |-> NoZone, body |-> NoFile]

TypeOK ==
    /\ zone \in Zone
    /\ records \in Nat
    /\ changes \in [api : 0..MaxRecords, own : 0..MaxOwn]
    /\ toggles \in [Toggles -> [pc : {"none", "read", "done"}, z : Zone]]
    /\ jobs \in [Kinds -> Nat]
    /\ worker \in [pc : {"idle", "own", "ownPut", "refresh", "list", "apply",
                         "mark", "publish", "dnssec", "put", "putAgain"},
                   kind : Kinds, z : Zone, latest : Zone, body : File]
    /\ host \in [file : File, dnssec : BOOLEAN]
    /\ failed \in BOOLEAN

\* ensureDomainStack made the zone with its first records; the reconcile that
\* publishes it waits, as a job of the worker's own.
Init ==
    /\ zone = [desired |-> 1, observed |-> 1, dnssec |-> FALSE]
    /\ records = 1
    /\ changes = [api |-> 0, own |-> 0]
    /\ toggles = [t \in Toggles |-> [pc |-> "none", z |-> NoZone]]
    /\ jobs = [k \in Kinds |-> IF k = "own" THEN OwnJobs ELSE 0]
    /\ worker = IdleWorker
    /\ host = [file |-> NoFile, dnssec |-> FALSE]
    /\ failed = FALSE

-----------------------------------------------------------------------------
(* The API.                                                                *)

\* Mutant: no job is made when one of the zone is running already.
ChangeRecordOnce ==
    /\ changes.api < MaxRecords
    /\ changes' = [changes EXCEPT !.api = @ + 1]
    /\ records' = records + 1
    /\ jobs' = IF worker.kind = "dns.sync" THEN jobs ELSE [jobs EXCEPT !["dns.sync"] = 1]
    /\ UNCHANGED <<zone, toggles, worker, host, failed>>

\* createRecord and deleteRecord: the record and a job, in one transaction.
\* The zone's row stays as it is.
ChangeRecord ==
    /\ changes.api < MaxRecords
    /\ changes' = [changes EXCEPT !.api = @ + 1]
    /\ records' = records + 1
    /\ jobs' = [jobs EXCEPT !["dns.sync"] = @ + 1]
    /\ UNCHANGED <<zone, toggles, worker, host, failed>>

\* setDNSSEC reads the zone, and then writes the flag and the next revision.
ReadZone(t) ==
    /\ toggles[t].pc = "none"
    /\ toggles' = [toggles EXCEPT ![t] = [pc |-> "read", z |-> zone]]
    /\ UNCHANGED <<zone, records, changes, jobs, worker, host, failed>>

SetDNSSEC(t) ==
    /\ toggles[t].pc = "read"
    /\ \E enabled \in BOOLEAN :
          zone' = [zone EXCEPT !.dnssec = enabled,
                               !.desired = toggles[t].z.desired + 1]
    /\ toggles' = [toggles EXCEPT ![t] = [pc |-> "done", z |-> NoZone]]
    /\ jobs' = [jobs EXCEPT !["dns.dnssec"] = @ + 1]
    /\ UNCHANGED <<records, changes, worker, host, failed>>

-----------------------------------------------------------------------------
(* The worker.                                                             *)

At(pc) == worker.pc = pc
Goto(pc, z) == worker' = [worker EXCEPT !.pc = pc, !.z = z]

JobFails ==
    /\ worker' = IdleWorker
    /\ jobs' \in {jobs, [jobs EXCEPT ![worker.kind] = @ + 1]}
    /\ failed' = TRUE
    /\ UNCHANGED <<zone, records, changes, toggles, host>>

\* GetZone at the start of syncDNS and applyZoneDNSSEC, ZoneByDomain elsewhere.
StartJob(kind) ==
    /\ At("idle")
    /\ jobs[kind] > 0
    /\ jobs' = [jobs EXCEPT ![kind] = @ - 1]
    /\ worker' = [pc |-> CASE kind = "dns.sync" -> "refresh"
                           [] kind = "dns.dnssec" -> "dnssec"
                           [] OTHER -> "own",
                  kind |-> kind, z |-> zone, latest |-> NoZone, body |-> NoFile]
    /\ UNCHANGED <<zone, records, changes, toggles, host, failed>>

\* republishPublicAddresses, ensureServiceRecords, publishDKIMTXT: where records
\* change, the copy's revision is raised and the whole copy is stored.
OwnRecords ==
    /\ At("own")
    /\ \/ /\ changes.own < MaxOwn
          /\ changes' = [changes EXCEPT !.own = @ + 1]
          /\ records' = records + 1
          /\ Goto("ownPut", [worker.z EXCEPT !.desired = @ + 1])
       \/ /\ Goto("refresh", worker.z)
          /\ UNCHANGED <<records, changes>>
    /\ UNCHANGED <<zone, toggles, jobs, host, failed>>

PutOwn ==
    /\ At("ownPut")
    /\ zone' = worker.z
    /\ Goto("refresh", worker.z)
    /\ UNCHANGED <<records, changes, toggles, jobs, host, failed>>

\* writeZone: the revision is refreshed, then the records are listed.
\* ensureDomainStack reads the zone again before, publishDKIMTXT does not.
RefreshRevision ==
    /\ At("refresh")
    /\ \E z \in IF worker.kind = "own" THEN {worker.z, zone} ELSE {worker.z} :
          Goto("list", IF zone.desired > z.desired
                       THEN [z EXCEPT !.desired = zone.desired] ELSE z)
    /\ UNCHANGED <<zone, records, changes, toggles, jobs, host, failed>>

ListRecords ==
    /\ At("list")
    /\ worker' = [worker EXCEPT !.pc = "apply",
                     !.body = [records |-> records, serial |-> worker.z.desired]]
    /\ UNCHANGED <<zone, records, changes, toggles, jobs, host, failed>>

ApplyDNSZone ==
    /\ At("apply")
    /\ \/ /\ host' = [host EXCEPT !.file = worker.body]
          /\ Goto("mark", worker.z)
          /\ UNCHANGED <<zone, records, changes, toggles, jobs, failed>>
       \/ JobFails

\* markZonePublished: the row as it is now, with its own revision or the
\* written one, whichever is higher, as desired and as observed.
Published(latest, z) ==
    LET desired == IF latest.desired > z.desired THEN latest.desired ELSE z.desired
    IN  [latest EXCEPT !.desired = desired, !.observed = desired]

MarkPublished ==
    /\ At("mark")
    /\ worker' = [worker EXCEPT !.pc = "publish", !.latest = Published(zone, worker.z)]
    /\ UNCHANGED <<zone, records, changes, toggles, jobs, host, failed>>

\* The row is stored; syncDNS goes on with the copy it had.
PutPublished ==
    /\ At("publish")
    /\ zone' = worker.latest
    /\ worker' = IF worker.kind = "own" THEN IdleWorker
                 ELSE [worker EXCEPT !.pc = "dnssec", !.body = NoFile, !.latest = NoZone]
    /\ UNCHANGED <<records, changes, toggles, jobs, host, failed>>

\* applyDNSSECState: the flag of the copy goes to the host, and the copy into
\* the row with its revision acknowledged.
ApplyDNSSEC ==
    /\ At("dnssec")
    /\ \/ /\ host' = [host EXCEPT !.dnssec = worker.z.dnssec]
          /\ Goto("put", [worker.z EXCEPT !.observed = worker.z.desired])
          /\ UNCHANGED <<zone, records, changes, toggles, jobs, failed>>
       \/ JobFails

\* PutZone of that copy; syncDNS stores it once more.
PutZone ==
    /\ At("put") \/ At("putAgain")
    /\ zone' = worker.z
    /\ worker' = IF At("put") /\ worker.kind = "dns.sync"
                 THEN [worker EXCEPT !.pc = "putAgain"] ELSE IdleWorker
    /\ UNCHANGED <<records, changes, toggles, jobs, host, failed>>

\* The process dies and the job waits again.
Crash ==
    /\ ~At("idle")
    /\ jobs' = [jobs EXCEPT ![worker.kind] = @ + 1]
    /\ worker' = IdleWorker
    /\ UNCHANGED <<zone, records, changes, toggles, host, failed>>

-----------------------------------------------------------------------------
Next ==
    \/ ChangeRecord
    \/ \E t \in Toggles : ReadZone(t) \/ SetDNSSEC(t)
    \/ \E kind \in Kinds : StartJob(kind)
    \/ OwnRecords \/ PutOwn \/ RefreshRevision \/ ListRecords \/ ApplyDNSZone
    \/ MarkPublished \/ PutPublished \/ ApplyDNSSEC \/ PutZone
    \/ Crash

Spec == Init /\ [][Next]_vars

-----------------------------------------------------------------------------
(* Properties.                                                             *)

Settled == At("idle") /\ \A k \in Kinds : jobs[k] = 0

\* When all jobs are done and no call of the agent failed, the name server
\* serves the records and the DNSSEC state the panel shows, whatever came in
\* while zones were being written and whichever attempts were cut short.
ServedAsShown ==
    Settled /\ ~failed =>
        /\ host.file.records = records
        /\ host.dnssec = zone.dnssec
=============================================================================
