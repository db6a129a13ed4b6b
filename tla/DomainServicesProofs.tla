------------------------ MODULE DomainServicesProofs ------------------------
(***************************************************************************)
(* Proofs about the zone (ZonePublish) and the certificate                 *)
(* (CertificateRenewal) of a domain, for any number of requests, changes   *)
(* and jobs, any lifetime of a certificate and any number of attempts.     *)
(***************************************************************************)
EXTENDS ZonePublish, CertificateRenewal, FiniteSetTheorems, TLAPS

-----------------------------------------------------------------------------
(* The zone.                                                               *)

\* Which kinds of jobs come to which steps of the worker.
StepOfKind ==
    /\ worker.pc \in {"own", "ownPut"} => worker.kind = "own"
    /\ worker.pc \in {"refresh", "list", "apply", "mark", "publish"} =>
          worker.kind \in {"dns.sync", "own"}
    /\ worker.pc \in {"dnssec", "put", "putAgain"} =>
          worker.kind \in {"dns.sync", "dns.dnssec"}

\* The body about to be written has the records, or the change made since it was
\* listed has its job.  The zone file has the records, or a job that will list
\* them waits or is running.
RecordsOnTheirWay ==
    /\ worker.pc = "apply" => worker.body.records = records \/ jobs["dns.sync"] > 0
    /\ \/ failed
       \/ host.file.records = records
       \/ jobs["dns.sync"] > 0 \/ jobs["own"] > 0
       \/ worker.pc \in {"own", "ownPut", "refresh", "list", "apply"}

\* A job that will bring a flag to the host and into the row waits.
FlagJobWaits == jobs["dns.sync"] > 0 \/ jobs["dns.dnssec"] > 0

\* The host has the DNSSEC flag of the row, and so have the copies that the
\* attempt will store, or a job that will make them agree waits or is running.
FlagOnItsWay ==
    /\ worker.pc \in {"put", "putAgain"} => host.dnssec = worker.z.dnssec
    /\ \/ failed \/ FlagJobWaits
       \/ worker.kind # "own" /\ worker.pc \in
             {"refresh", "list", "apply", "mark", "publish", "dnssec", "put"}
       \/ /\ host.dnssec = zone.dnssec
          /\ worker.pc \in {"own", "ownPut"} => worker.z.dnssec = host.dnssec
          /\ worker.pc = "publish" => worker.latest.dnssec = host.dnssec

ZoneInv == TypeOK /\ StepOfKind /\ RecordsOnTheirWay /\ FlagOnItsWay

-----------------------------------------------------------------------------
LEMMA ZoneInitially == Init => ZoneInv
<1> SUFFICES ASSUME Init PROVE ZoneInv
  OBVIOUS
<1> USE ZoneAssumption
<1>1. TypeOK
  <2>1. NoZone \in Zone /\ NoFile \in File /\ zone \in Zone
    BY DEF Init, NoZone, Zone, NoFile, File
  <2>2. worker \in [pc : {"idle", "own", "ownPut", "refresh", "list", "apply",
                         "mark", "publish", "dnssec", "put", "putAgain"},
                   kind : Kinds, z : Zone, latest : Zone, body : File]
    BY <2>1 DEF Init, IdleWorker, Kinds
  <2>3. /\ changes \in [api : 0..MaxRecords, own : 0..MaxOwn]
        /\ jobs \in [Kinds -> Nat] /\ records \in Nat
    BY DEF Init
  <2>4. /\ toggles \in [Toggles -> [pc : {"none", "read", "done"}, z : Zone]]
        /\ host \in [file : File, dnssec : BOOLEAN]
    BY <2>1 DEF Init
  <2> QED
    BY <2>1, <2>2, <2>3, <2>4 DEF Init, TypeOK
<1>2. /\ jobs["own"] > 0 /\ worker.pc = "idle"
      /\ host.dnssec = FALSE /\ zone.dnssec = FALSE
  BY DEF Init, IdleWorker, Kinds
<1> QED
  BY <1>1, <1>2 DEF ZoneInv, StepOfKind, RecordsOnTheirWay, FlagOnItsWay

LEMMA ZoneTypeStep == TypeOK /\ [Next]_vars => TypeOK'
<1> SUFFICES ASSUME TypeOK, [Next]_vars PROVE TypeOK'
  OBVIOUS
<1> USE ZoneAssumption DEF TypeOK, Zone, File, Kinds
<1>1. CASE ChangeRecord
  BY <1>1 DEF ChangeRecord
<1>2. ASSUME NEW t \in Toggles, ReadZone(t) PROVE TypeOK'
  BY <1>2 DEF ReadZone
<1>3. ASSUME NEW t \in Toggles, SetDNSSEC(t) PROVE TypeOK'
  <2>1. PICK enabled \in BOOLEAN :
           zone' = [zone EXCEPT !.dnssec = enabled, !.desired = toggles[t].z.desired + 1]
    BY <1>3 DEF SetDNSSEC
  <2>n. PICK n \in Nat : n = toggles[t].z.desired + 1
    OBVIOUS
  <2>2. zone' = [desired |-> n, observed |-> zone.observed, dnssec |-> enabled]
    BY <2>1, <2>n
  <2>3. jobs' \in [Kinds -> Nat]
    BY <1>3 DEF SetDNSSEC
  <2>4. toggles' \in [Toggles -> [pc : {"none", "read", "done"}, z : Zone]]
    BY <1>3 DEF SetDNSSEC, NoZone
  <2> QED
    BY <1>3, <2>2, <2>3, <2>4 DEF SetDNSSEC
<1>4. ASSUME NEW kind \in Kinds, StartJob(kind) PROVE TypeOK'
  BY <1>4 DEF StartJob, At, NoZone, NoFile
<1>z. ASSUME NEW pc, NEW z \in Zone, Goto(pc, z),
             pc \in {"ownPut", "refresh", "list", "mark", "put"}
      PROVE  worker' \in [pc : {"idle", "own", "ownPut", "refresh", "list", "apply",
                               "mark", "publish", "dnssec", "put", "putAgain"},
                         kind : Kinds, z : Zone, latest : Zone, body : File]
  BY <1>z DEF Goto
<1>5. CASE OwnRecords
  <2>1. CASE changes.own < MaxOwn /\ Goto("ownPut", [worker.z EXCEPT !.desired = @ + 1])
             /\ changes' = [changes EXCEPT !.own = @ + 1] /\ records' = records + 1
    <3>1. [worker.z EXCEPT !.desired = @ + 1] \in Zone
      OBVIOUS
    <3> QED
      BY <1>5, <2>1, <3>1, <1>z DEF OwnRecords
  <2>2. CASE Goto("refresh", worker.z) /\ UNCHANGED <<records, changes>>
    BY <1>5, <2>2, <1>z DEF OwnRecords
  <2> QED
    BY <1>5, <2>1, <2>2 DEF OwnRecords
<1>6. CASE PutOwn
  BY <1>6 DEF PutOwn, At, Goto
<1>7. CASE RefreshRevision
  <2>1. PICK z \in {worker.z, zone} :
           Goto("list", IF zone.desired > z.desired
                        THEN [z EXCEPT !.desired = zone.desired] ELSE z)
    BY <1>7 DEF RefreshRevision
  <2>2. z \in Zone /\ [z EXCEPT !.desired = zone.desired] \in Zone
    OBVIOUS
  <2> QED
    BY <1>7, <2>1, <2>2, <1>z DEF RefreshRevision
<1>8. CASE ListRecords
  BY <1>8 DEF ListRecords, At
<1>f. CASE JobFails
  BY <1>f DEF JobFails, IdleWorker, NoZone, NoFile
<1>9. CASE ApplyDNSZone
  BY <1>9, <1>f, <1>z DEF ApplyDNSZone
<1>10. CASE MarkPublished
  BY <1>10 DEF MarkPublished, At, Published
<1>11. CASE PutPublished
  BY <1>11 DEF PutPublished, At, IdleWorker, NoZone, NoFile
<1>12. CASE ApplyDNSSEC
  <2>1. [worker.z EXCEPT !.observed = worker.z.desired] \in Zone
    OBVIOUS
  <2> QED
    BY <1>12, <2>1, <1>f, <1>z DEF ApplyDNSSEC
<1>13. CASE PutZone
  BY <1>13 DEF PutZone, At, IdleWorker, NoZone, NoFile
<1>14. CASE Crash
  BY <1>14 DEF Crash, At, IdleWorker, NoZone, NoFile
<1>15. CASE UNCHANGED vars
  BY <1>15 DEF vars
<1> QED
  BY <1>1, <1>2, <1>3, <1>4, <1>5, <1>6, <1>7, <1>8, <1>9, <1>10, <1>11,
     <1>12, <1>13, <1>14, <1>15 DEF Next

LEMMA ZoneStep == ZoneInv /\ [Next]_vars => ZoneInv'
<1> SUFFICES ASSUME ZoneInv, [Next]_vars PROVE ZoneInv'
  OBVIOUS
<1>0. TypeOK'
  BY ZoneTypeStep DEF ZoneInv
<1> DEFINE Rest == StepOfKind /\ RecordsOnTheirWay /\ FlagOnItsWay
<1> SUFFICES Rest'
  BY <1>0 DEF ZoneInv
<1>t. TypeOK /\ Rest
  BY DEF ZoneInv
<1> USE <1>t DEF TypeOK, StepOfKind, RecordsOnTheirWay, FlagOnItsWay, FlagJobWaits,
                 Zone, File, Kinds, At, Goto
<1>1. CASE ChangeRecord
  BY <1>1 DEF ChangeRecord
<1>2. ASSUME NEW t \in Toggles, ReadZone(t) PROVE Rest'
  BY <1>2 DEF ReadZone
<1>3. ASSUME NEW t \in Toggles, SetDNSSEC(t) PROVE Rest'
  BY <1>3 DEF SetDNSSEC
<1>4. ASSUME NEW kind \in Kinds, StartJob(kind) PROVE Rest'
  BY <1>4 DEF StartJob, NoZone, NoFile
<1>5. CASE OwnRecords
  <2>0. PICK pc \in {"ownPut", "refresh"},
            z \in {worker.z, [worker.z EXCEPT !.desired = @ + 1]} : Goto(pc, z)
    BY <1>5 DEF OwnRecords
  <2>1. /\ worker.pc = "own" /\ worker'.pc \in {"ownPut", "refresh"}
        /\ worker'.kind = worker.kind /\ worker'.z.dnssec = worker.z.dnssec
    BY <1>5, <2>0 DEF OwnRecords
  <2>2. UNCHANGED <<zone, jobs, host, failed>>
    BY <1>5 DEF OwnRecords
  <2> QED
    BY <2>1, <2>2
<1>6. CASE PutOwn
  BY <1>6 DEF PutOwn
<1>7. CASE RefreshRevision
  BY <1>7 DEF RefreshRevision
<1>8. CASE ListRecords
  BY <1>8 DEF ListRecords
<1>f. CASE JobFails
  BY <1>f DEF JobFails, IdleWorker
<1>9. CASE ApplyDNSZone
  <2>1. CASE /\ host' = [host EXCEPT !.file = worker.body] /\ Goto("mark", worker.z)
             /\ UNCHANGED <<zone, records, changes, toggles, jobs, failed>>
    <3>1. /\ worker.pc = "apply" /\ worker'.pc = "mark" /\ worker'.kind = worker.kind
          /\ host'.dnssec = host.dnssec /\ host'.file.records = worker.body.records
      BY <1>9, <2>1 DEF ApplyDNSZone
    <3>2. UNCHANGED <<zone, records, jobs, failed>>
      BY <2>1
    <3> HIDE <2>1
    <3>3. StepOfKind' /\ RecordsOnTheirWay'
      BY <3>1, <3>2
    <3>4. FlagOnItsWay'
      BY <3>1, <3>2
    <3> QED
      BY <3>3, <3>4
  <2> QED
    BY <1>9, <2>1, <1>f DEF ApplyDNSZone
<1>10. CASE MarkPublished
  BY <1>10 DEF MarkPublished, Published
<1>11. CASE PutPublished
  BY <1>11 DEF PutPublished, IdleWorker
<1>12. CASE ApplyDNSSEC
  <2>1. CASE /\ host' = [host EXCEPT !.dnssec = worker.z.dnssec]
             /\ Goto("put", [worker.z EXCEPT !.observed = worker.z.desired])
             /\ UNCHANGED <<zone, records, changes, toggles, jobs, failed>>
    BY <1>12, <2>1 DEF ApplyDNSSEC
  <2> QED
    BY <1>12, <2>1, <1>f DEF ApplyDNSSEC
<1>13. CASE PutZone
  BY <1>13 DEF PutZone, IdleWorker
<1>14. CASE Crash
  BY <1>14 DEF Crash, IdleWorker
<1>15. CASE UNCHANGED vars
  BY <1>15 DEF vars
<1> QED
  BY <1>1, <1>2, <1>3, <1>4, <1>5, <1>6, <1>7, <1>8, <1>9, <1>10, <1>11,
     <1>12, <1>13, <1>14, <1>15 DEF Next

\* The zone's row, the copies of it, the jobs and the host always have their
\* types; the bounds on the changes are kept.
THEOREM ZoneTypeCorrect == Spec => []TypeOK
<1>1. Init => TypeOK
  BY ZoneInitially DEF ZoneInv
<1> QED
  BY <1>1, ZoneTypeStep, PTL DEF Spec

\* Once syncDNS and the DNSSEC jobs have nothing left to do and no call of the
\* agent failed, the name server serves the records and the DNSSEC state that
\* the panel shows, for any number of requests, of changes and of crashes.
THEOREM ZoneServedAsShown == Spec => []ServedAsShown
<1>1. ZoneInv => ServedAsShown
  BY DEF ZoneInv, TypeOK, RecordsOnTheirWay, FlagOnItsWay, FlagJobWaits,
         ServedAsShown, Settled, At, Kinds
<1> QED
  BY <1>1, ZoneInitially, ZoneStep, PTL DEF Spec

-----------------------------------------------------------------------------
(* The certificate.                                                        *)

Unsettled == {"queued", "retrying", "running"}

\* The worker executes one job at a time, the one that is running, and was free
\* to issue a certificate when it began.
RunningOrder ==
    /\ \A k \in JobKeys : orders[k].state = "running" => running.key = k
    /\ running # NoJob => orders[running.key].state = "running" /\ issues < MaxIssued

\* A certificate that is due has no job left: it got fresh when it was issued,
\* and time passes only once the jobs are settled.
DueUnserved == Due => \A k \in JobKeys : orders[k].state \notin Unsettled

\* OneBackgroundOrder, without counting.
BackgroundAlone ==
    \A k, l \in Background :
        orders[k].state \in Unsettled /\ orders[l].state \in Unsettled => k = l

CertInv == CertTypeOK /\ RunningOrder /\ DueUnserved /\ BackgroundAlone

-----------------------------------------------------------------------------
LEMMA NoJobApart == NoJob.cert \in Cert /\ NoJob.key \notin JobKeys
BY CertificateAssumption
   DEF NoJob, Cert, Statuses, JobKeys, Background, Provision, Renew, RequestKey

LEMMA CertConstants ==
    /\ Background \subseteq JobKeys /\ Provision \in Background
    /\ \A n \in 0..MaxIssued : <<"renew", n>> \in Background
    /\ \A r \in Requests : RequestKey(r) \in JobKeys /\ RequestKey(r) \notin Background
BY DEF JobKeys, Background, Provision, Renew, RequestKey

\* EnqueueJob changes nothing, or makes a job for a key that was never used.
LEMMA EnqueueEffect ==
    ASSUME NEW js \in [JobKeys -> [state : JobStates, attempts : Nat]], NEW k \in JobKeys
    PROVE  /\ Enqueue(js, k) \in [JobKeys -> [state : JobStates, attempts : Nat]]
           /\ Enqueue(js, k)[k].state # "absent"
           /\ \A l \in JobKeys : l # k => Enqueue(js, k)[l] = js[l]
           /\ Enqueue(js, k)[k].state # js[k].state =>
                 js[k].state = "absent" /\ Enqueue(js, k)[k].state = "queued"
BY DEF Enqueue, JobStates

LEMMA CertInitially == CertInit => CertInv
<1> SUFFICES ASSUME CertInit PROVE CertInv
  OBVIOUS
<1>1. CertTypeOK
  <2>1. orders \in [JobKeys -> [state : JobStates, attempts : Nat]]
    BY DEF CertInit, JobStates
  <2>2. requests \in [Requests -> [pc : {"none", "read", "done"}, cert : Cert]]
    BY NoJobApart DEF CertInit
  <2>3. cert \in Cert /\ issues \in 0..MaxIssued
    BY CertificateAssumption, NoJobApart DEF CertInit
  <2> QED
    BY <2>1, <2>2, <2>3 DEF CertInit, CertTypeOK
<1>2. \A k \in JobKeys : orders[k].state = "absent"
  BY DEF CertInit
<1> QED
  BY <1>1, <1>2, CertConstants
     DEF CertInit, CertInv, RunningOrder, DueUnserved, BackgroundAlone, Unsettled

\* What queueCertificateProvision leaves of the invariant, from a row c and jobs
\* js for which it holds.
LEMMA QueueKeeps ==
    ASSUME CertInv, NEW c \in Cert, c.left = cert.left,
           NEW js \in [JobKeys -> [state : JobStates, attempts : Nat]],
           running = NoJob, UNCHANGED running,
           QueueCertificateProvision(c, js),
           \A k \in JobKeys : js[k].state = "running" => running.key = k,
           c.status = "active" /\ c.left <= Window =>
              \A k \in JobKeys : js[k].state \notin Unsettled,
           \A k, l \in Background :
              js[k].state \in Unsettled /\ js[l].state \in Unsettled => k = l
    PROVE  /\ cert' \in Cert
           /\ orders' \in [JobKeys -> [state : JobStates, attempts : Nat]]
           /\ \A k \in JobKeys : orders'[k].state = "running" => running'.key = k
           /\ DueUnserved' /\ BackgroundAlone'
<1>1. cert' \in Cert /\ (cert'.status = "active" => cert' = c /\ Fresh(c))
  BY DEF QueueCertificateProvision, QueuedStatus, Cert, Statuses, Fresh
<1>2. ~Due'
  BY <1>1, CertificateAssumption DEF Due, Fresh, Cert
<1>3. orders' \in {js, Enqueue(js, Provision)}
      /\ (orders' # js => \A k \in JobKeys : js[k].state \notin Unsettled)
  BY DEF QueueCertificateProvision, Inflight, Unsettled
<1>e. /\ Enqueue(js, Provision) \in [JobKeys -> [state : JobStates, attempts : Nat]]
      /\ \A l \in JobKeys : l # Provision => Enqueue(js, Provision)[l] = js[l]
      /\ Enqueue(js, Provision)[Provision].state \in {js[Provision].state, "queued"}
  BY EnqueueEffect, CertConstants
<1>4. orders' \in [JobKeys -> [state : JobStates, attempts : Nat]]
      /\ \A k \in JobKeys : orders'[k].state = "running" => running'.key = k
  BY <1>3, <1>e
<1>5. BackgroundAlone'
  BY <1>3, <1>e, CertConstants DEF BackgroundAlone, Unsettled
<1> QED
  BY <1>1, <1>2, <1>4, <1>5 DEF DueUnserved

LEMMA CertStep == CertInv /\ [CertNext]_certVars => CertInv'
<1> SUFFICES ASSUME CertInv, [CertNext]_certVars PROVE CertInv'
  OBVIOUS
<1> USE CertificateAssumption, NoJobApart
<1>t. CertTypeOK /\ RunningOrder /\ DueUnserved /\ BackgroundAlone
  BY DEF CertInv
<1>1. CASE EnsureCertificate
  <2>1. /\ running = NoJob /\ UNCHANGED <<running, requests, scanned, issues>>
        /\ QueueCertificateProvision(cert, orders)
    BY <1>1 DEF EnsureCertificate
  <2>2. /\ cert' \in Cert
        /\ orders' \in [JobKeys -> [state : JobStates, attempts : Nat]]
        /\ \A k \in JobKeys : orders'[k].state = "running" => running'.key = k
        /\ DueUnserved' /\ BackgroundAlone'
    BY <1>t, <2>1, QueueKeeps DEF CertTypeOK, RunningOrder, DueUnserved, BackgroundAlone, Due
  <2> QED
    BY <1>t, <2>1, <2>2 DEF CertInv, CertTypeOK, RunningOrder
<1>2. CASE ScanCertRenewals
  <2> DEFINE c  == IF Due THEN [cert EXCEPT !.status = "renewing"] ELSE cert
             js == IF Due THEN Enqueue(orders, <<"renew", cert.issued>>) ELSE orders
  <2>1. /\ running = NoJob /\ UNCHANGED <<running, requests, issues>> /\ scanned' = TRUE
        /\ \/ QueueCertificateProvision(c, js)
           \/ cert' = c /\ orders' = js
    BY <1>2 DEF ScanCertRenewals
  <2>k. <<"renew", cert.issued>> \in Background
    BY <1>t, CertConstants DEF CertTypeOK, Cert
  <2>e. /\ Enqueue(orders, <<"renew", cert.issued>>)
               \in [JobKeys -> [state : JobStates, attempts : Nat]]
        /\ \A l \in JobKeys : l # <<"renew", cert.issued>> =>
              Enqueue(orders, <<"renew", cert.issued>>)[l] = orders[l]
        /\ Enqueue(orders, <<"renew", cert.issued>>)[<<"renew", cert.issued>>].state
              \in {orders[<<"renew", cert.issued>>].state, "queued"}
    BY <1>t, <2>k, CertConstants, EnqueueEffect DEF CertTypeOK
  <2>2. /\ c \in Cert /\ c.left = cert.left /\ ~(c.status = "active" /\ c.left <= Window)
    BY <1>t DEF CertTypeOK, Cert, Statuses, Due
  <2>3. /\ js \in [JobKeys -> [state : JobStates, attempts : Nat]]
        /\ \A k \in JobKeys : js[k].state = "running" => running.key = k
    BY <1>t, <2>k, <2>e DEF CertTypeOK, RunningOrder
  <2>4. \A k, l \in Background :
           js[k].state \in Unsettled /\ js[l].state \in Unsettled => k = l
    <3>1. CASE Due
      BY <1>t, <3>1, <2>k, <2>e, CertConstants DEF DueUnserved, Unsettled
    <3>2. CASE ~Due
      BY <1>t, <3>2 DEF BackgroundAlone
    <3> QED
      BY <3>1, <3>2
  <2> HIDE DEF c, js
  <2>5. /\ cert' \in Cert
        /\ orders' \in [JobKeys -> [state : JobStates, attempts : Nat]]
        /\ \A k \in JobKeys : orders'[k].state = "running" => running'.key = k
        /\ DueUnserved' /\ BackgroundAlone'
    <3>1. CASE QueueCertificateProvision(c, js)
      BY <2>1, <2>2, <2>3, <2>4, <3>1, QueueKeeps
    <3>2. CASE cert' = c /\ orders' = js
      BY <2>1, <2>2, <2>3, <2>4, <3>2 DEF DueUnserved, BackgroundAlone, Due
    <3> QED
      BY <2>1, <3>1, <3>2
  <2> QED
    BY <1>t, <2>1, <2>5 DEF CertInv, CertTypeOK, RunningOrder
<1>3. ASSUME NEW r \in Requests, ReadCert(r) PROVE CertInv'
  <2>1. UNCHANGED <<cert, orders, running, scanned, issues>>
    BY <1>3 DEF ReadCert
  <2>2. requests' \in [Requests -> [pc : {"none", "read", "done"}, cert : Cert]]
    BY <1>t, <1>3 DEF ReadCert, CertTypeOK
  <2> QED
    BY <1>t, <2>1, <2>2 DEF CertInv, CertTypeOK, RunningOrder, DueUnserved,
                            BackgroundAlone, Due
<1>4. ASSUME NEW r \in Requests, RequestCert(r) PROVE CertInv'
  <2>1. /\ UNCHANGED <<running, scanned, issues>>
        /\ requests' \in [Requests -> [pc : {"none", "read", "done"}, cert : Cert]]
    BY <1>t, <1>4 DEF RequestCert, CertTypeOK
  <2>2. \/ /\ cert' = [requests[r].cert EXCEPT !.status = "requested"]
           /\ orders' = Enqueue(orders, RequestKey(r))
        \/ UNCHANGED <<cert, orders>>
    BY <1>4 DEF RequestCert
  <2>e. /\ Enqueue(orders, RequestKey(r)) \in [JobKeys -> [state : JobStates, attempts : Nat]]
        /\ \A l \in JobKeys : l # RequestKey(r) =>
              Enqueue(orders, RequestKey(r))[l] = orders[l]
        /\ Enqueue(orders, RequestKey(r))[RequestKey(r)].state
              \in {orders[RequestKey(r)].state, "queued"}
    BY <1>t, CertConstants, EnqueueEffect DEF CertTypeOK
  <2>3. /\ cert' \in Cert
        /\ orders' \in [JobKeys -> [state : JobStates, attempts : Nat]]
        /\ RunningOrder'
    <3>1. cert' \in Cert
      BY <1>t, <2>2 DEF CertTypeOK, Cert, Statuses
    <3>2. orders' \in [JobKeys -> [state : JobStates, attempts : Nat]]
      BY <1>t, <2>2, <2>e DEF CertTypeOK
    <3>3. ASSUME UNCHANGED orders PROVE RunningOrder'
      BY <1>t, <2>1, <3>3 DEF RunningOrder
    <3>4. ASSUME orders' = Enqueue(orders, RequestKey(r)) PROVE RunningOrder'
      <4>1. \A k \in JobKeys : orders'[k].state = "running" <=> orders[k].state = "running"
        BY <1>t, <3>4 DEF Enqueue, CertTypeOK
      <4> QED
        BY <1>t, <2>1, <4>1 DEF RunningOrder, CertTypeOK
    <3> QED
      BY <2>2, <3>1, <3>2, <3>3, <3>4
  <2>4. DueUnserved'
    BY <1>t, <2>2 DEF CertTypeOK, Cert, DueUnserved, Due
  <2>5. BackgroundAlone'
    BY <1>t, <2>2, <2>e, CertConstants DEF BackgroundAlone
  <2> QED
    BY <1>t, <2>1, <2>3, <2>4, <2>5 DEF CertInv, CertTypeOK, RunningOrder
<1>5. ASSUME NEW k \in JobKeys, StartIssue(k) PROVE CertInv'
  <2>1. /\ UNCHANGED <<cert, requests, scanned, issues>> /\ issues < MaxIssued
        /\ running' = [key |-> k, cert |-> cert] /\ orders[k].state \in {"queued", "retrying"}
        /\ running = NoJob
        /\ orders' = [orders EXCEPT ![k] = [state |-> "running", attempts |-> @.attempts + 1]]
    BY <1>5 DEF StartIssue
  <2>2. orders' \in [JobKeys -> [state : JobStates, attempts : Nat]]
    BY <1>t, <2>1 DEF CertTypeOK, JobStates
  <2>3. RunningOrder'
    BY <1>t, <2>1 DEF CertTypeOK, RunningOrder
  <2>4. DueUnserved' /\ BackgroundAlone'
    BY <1>t, <2>1 DEF CertTypeOK, DueUnserved, BackgroundAlone, Unsettled, Due
  <2> QED
    BY <1>t, <2>1, <2>2, <2>3, <2>4 DEF CertInv, CertTypeOK
<1>j. ASSUME running # NoJob, NEW state \in {"succeeded"} \cup AfterError(running.key),
             JobEnds(state), cert' \in Cert, issues' \in 0..MaxIssued,
             cert'.status = "active" => cert' = cert \/ cert'.left > Window
      PROVE  CertInv'
  <2>1. running \in [key : JobKeys, cert : Cert] /\ state \in {"succeeded", "failed", "retrying"}
    BY <1>t, <1>j DEF CertTypeOK, AfterError
  <2>2. /\ orders' = [orders EXCEPT ![running.key].state = state]
        /\ running' = NoJob /\ UNCHANGED <<requests, scanned>>
    BY <1>j DEF JobEnds
  <2>3. orders' \in [JobKeys -> [state : JobStates, attempts : Nat]]
    BY <1>t, <2>1, <2>2 DEF CertTypeOK, JobStates
  <2>4. RunningOrder'
    BY <1>t, <2>1, <2>2 DEF CertTypeOK, RunningOrder
  <2>5. orders[running.key].state = "running"
    BY <1>t, <1>j DEF RunningOrder
  <2>6. DueUnserved'
    BY <1>t, <1>j, <2>1, <2>2, <2>5 DEF CertTypeOK, Cert, DueUnserved, Unsettled, Due
  <2>7. BackgroundAlone'
    BY <1>t, <2>1, <2>2, <2>5 DEF CertTypeOK, BackgroundAlone, Unsettled
  <2> QED
    BY <1>t, <1>j, <2>2, <2>3, <2>4, <2>6, <2>7 DEF CertInv, CertTypeOK
<1>6. CASE IssueCertificate
  <2>1. issues' \in 0..MaxIssued
    BY <1>t, <1>6 DEF IssueCertificate, CertTypeOK, RunningOrder
  <2>2. cert' \in Cert /\ cert'.left = Lifetime
    BY <1>6, <2>1 DEF IssueCertificate, Issued, Cert, Statuses
  <2>3. PICK state \in {"succeeded"} \cup AfterError(running.key) : JobEnds(state)
    BY <1>6 DEF IssueCertificate
  <2>4. cert'.left > Window /\ running # NoJob
    BY <1>6, <2>2 DEF IssueCertificate
  <2> QED
    BY <1>j, <2>1, <2>2, <2>3, <2>4
<1>7. CASE IssueFails
  <2>1. cert' \in Cert /\ (cert' = cert \/ cert'.status = "failed")
    BY <1>t, <1>7 DEF IssueFails, CertTypeOK, Cert, Statuses
  <2> QED
    BY <1>t, <1>7, <1>j, <2>1 DEF IssueFails, CertTypeOK
<1>8. CASE NextPeriod
  <2>1. \A k \in JobKeys : orders[k].state \notin Unsettled
    BY <1>t, <1>8 DEF NextPeriod, InState, Unsettled, RunningOrder
  <2>2. UNCHANGED <<orders, running, issues>> /\ scanned' = FALSE
    BY <1>8 DEF NextPeriod
  <2>3. \A x \in Cert : Aged(x) \in Cert
    BY DEF Aged, Cert
  <2>4. cert' \in Cert
        /\ requests' \in [Requests -> [pc : {"none", "read", "done"}, cert : Cert]]
    BY <1>t, <1>8, <2>3 DEF NextPeriod, CertTypeOK
  <2> QED
    BY <1>t, <2>1, <2>2, <2>4 DEF CertInv, CertTypeOK, RunningOrder, DueUnserved,
                                  BackgroundAlone
<1>9. CASE UNCHANGED certVars
  BY <1>t, <1>9 DEF certVars, CertInv, CertTypeOK, RunningOrder, DueUnserved,
                    BackgroundAlone, Due
<1> QED
  BY <1>1, <1>2, <1>3, <1>4, <1>5, <1>6, <1>7, <1>8, <1>9 DEF CertNext, WorkerStep

\* The row, the copies of it that requests and the worker hold, and the jobs have
\* their types, and no more certificates are issued than the bound allows.
THEOREM CertTypeCorrect == CertSpec => []CertTypeOK
<1>1. CertInv => CertTypeOK
  BY DEF CertInv
<1> QED
  BY <1>1, CertInitially, CertStep, PTL DEF CertSpec

\* The scans and ensureCertificate never have two orders of one certificate
\* under way, for any number of attempts, requests and renewals.
THEOREM BackgroundOrderUnique == CertSpec => []OneBackgroundOrder
<1>1. CertInv => OneBackgroundOrder
  <2> SUFFICES ASSUME CertInv PROVE OneBackgroundOrder
    OBVIOUS
  <2> DEFINE S == {k \in Background : orders[k].state \in Unsettled}
  <2>1. CASE S = {}
    BY <2>1, FS_EmptySet DEF OneBackgroundOrder, Unsettled
  <2>2. ASSUME NEW k \in S PROVE OneBackgroundOrder
    <3>1. S = {k}
      BY DEF CertInv, BackgroundAlone
    <3> QED
      <4>1. Cardinality({k}) = 1
        BY FS_Singleton
      <4> QED
        BY <3>1, <4>1 DEF OneBackgroundOrder, Unsettled
  <2> QED
    BY <2>1, <2>2
<1> QED
  BY <1>1, CertInitially, CertStep, PTL DEF CertSpec
=============================================================================
