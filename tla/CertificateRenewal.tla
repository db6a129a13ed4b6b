------------------------- MODULE CertificateRenewal -------------------------
(***************************************************************************)
(* How a hosting certificate gets its jobs (internal/job/worker.go and     *)
(* requestCert in internal/httpserver/api.go) with a live ACME directory.  *)
(* Three places enqueue a certificate.provision job: the provisioning of a *)
(* domain and the scan for pending certificates with the idempotency key   *)
(* cert-provision:<id>, the scan for renewals with the key                 *)
(* cert-renew:<id>:<day of NotAfter>, and the API with a key of its own.   *)
(* A key is used once: EnqueueJob returns the job that has it, settled or  *)
(* not, and enqueues nothing.                                              *)
(*                                                                         *)
(* One certificate.  Time is counted in periods: left is the number of     *)
(* periods until NotAfter, and the certificate is due when left <= Window  *)
(* (30 days).  A period is long enough for the worker to scan and to empty *)
(* its queue, backoffs included.                                           *)
(***************************************************************************)
EXTENDS Integers, FiniteSets

CONSTANTS Requests,     \* API requests, each made once; numbers
          Lifetime,     \* periods a certificate is valid (90 days)
          Window,       \* periods before NotAfter when it is due (30 days)
          MaxAttempts,  \* max_attempts of a job (5 in the code)
          MaxIssued     \* bound: certificates issued

ASSUME CertificateAssumption ==
    /\ Lifetime \in Nat /\ Window \in 0 .. Lifetime - 1
    /\ MaxAttempts \in Nat \ {0} /\ MaxIssued \in Nat

VARIABLES cert,      \* the certificates row
          orders,    \* the certificate's jobs, by idempotency key
          running,   \* the job the worker executes and its copy of the row
          requests,  \* each API request: not made, read, done
          scanned,   \* the worker scanned in this period
          issues     \* how many certificates were issued

certVars == <<cert, orders, running, requests, scanned, issues>>

Statuses == {"none", "requested", "renewing", "active", "failed"}

\* issued is the number of the certificate and stands for the day in NotAfter.
Cert == [status : Statuses, left : 0..Lifetime, issued : 0..MaxIssued]

Provision == <<"provision", 0>>
Renew == {<<"renew", n>> : n \in 0..MaxIssued}
Background == {Provision} \cup Renew
RequestKey(r) == <<"request", r>>
JobKeys == Background \cup {RequestKey(r) : r \in Requests}
JobStates == {"absent", "queued", "retrying", "running", "succeeded", "failed"}
NoJob == [key |-> <<"none", 0>>, cert |-> [status |-> "none", left |-> 0, issued |-> 0]]

CertTypeOK ==
    /\ cert \in Cert
    /\ orders \in [JobKeys -> [state : JobStates, attempts : Nat]]
    /\ running \in [key : JobKeys, cert : Cert] \cup {NoJob}
    /\ requests \in [Requests -> [pc : {"none", "read", "done"}, cert : Cert]]
    /\ scanned \in BOOLEAN
    /\ issues \in 0..MaxIssued

CertInit ==
    /\ cert = NoJob.cert
    /\ orders = [k \in JobKeys |-> [state |-> "absent", attempts |-> 0]]
    /\ running = NoJob
    /\ requests = [r \in Requests |-> [pc |-> "none", cert |-> NoJob.cert]]
    /\ scanned = FALSE
    /\ issues = 0

Fresh(c) == c.status = "active" /\ c.left > Window
InState(states) == \E k \in JobKeys : orders[k].state \in states

\* EnqueueJob: a key that was ever used enqueues nothing.
Enqueue(js, k) ==
    IF js[k].state = "absent" THEN [js EXCEPT ![k].state = "queued"] ELSE js

-----------------------------------------------------------------------------
(* Who enqueues.  The worker does this between jobs, in one go.            *)

\* Mutant: the check the API makes, which does not know retrying jobs.
InflightActive(js) == \E k \in JobKeys : js[k].state \in {"queued", "running"}

\* inflightCertJob of the worker.
Inflight(js) == \E k \in JobKeys : js[k].state \in {"queued", "running", "retrying"}

\* queueCertificateProvision: the status the row gets, and the job.
QueuedStatus(status) ==
    CASE status = "active" -> "renewing"
      [] status \in {"requested", "renewing"} -> status
      [] OTHER -> "requested"

QueueCertificateProvision(c, js) ==
    /\ cert' = IF Fresh(c) THEN c ELSE [c EXCEPT !.status = QueuedStatus(@)]
    /\ orders' = IF Fresh(c) \/ Inflight(js) THEN js ELSE Enqueue(js, Provision)

\* ensureCertificate, when a domain is provisioned or an account reconciled.
EnsureCertificate ==
    /\ running = NoJob
    /\ QueueCertificateProvision(cert, orders)
    /\ UNCHANGED <<running, requests, scanned, issues>>

\* scanCertRenewals: an active certificate that is due gets its renewal; then
\* scanPendingCertificates looks at the rows as they are now.
Due == cert.status = "active" /\ cert.left <= Window

ScanCertRenewals ==
    LET c  == IF Due THEN [cert EXCEPT !.status = "renewing"] ELSE cert
        js == IF Due THEN Enqueue(orders, <<"renew", cert.issued>>) ELSE orders
    IN  /\ running = NoJob /\ ~InState({"queued"})
        /\ \/ /\ c.status \in {"requested", "failed", "renewing"} /\ ~Inflight(js)
              /\ QueueCertificateProvision(c, js)
           \/ /\ ~(c.status \in {"requested", "failed", "renewing"} /\ ~Inflight(js))
              /\ cert' = c /\ orders' = js
        /\ scanned' = TRUE
        /\ UNCHANGED <<running, requests, issues>>

\* requestCert: a job that is queued or running, or a fresh certificate,
\* answers the request; else the row it read is written with its job.
ReadCert(r) ==
    /\ requests[r].pc = "none"
    /\ requests' = [requests EXCEPT ![r] =
                      IF InState({"queued", "running"}) \/ Fresh(cert)
                      THEN [pc |-> "done", cert |-> NoJob.cert]
                      ELSE [pc |-> "read", cert |-> cert]]
    /\ UNCHANGED <<cert, orders, running, scanned, issues>>

\* A second row for the hostname violates its unique index.
RequestCert(r) ==
    /\ requests[r].pc = "read"
    /\ \/ /\ requests[r].cert.status # "none" \/ cert.status = "none"
          /\ cert' = [requests[r].cert EXCEPT !.status = "requested"]
          /\ orders' = Enqueue(orders, RequestKey(r))
       \/ /\ requests[r].cert.status = "none" /\ cert.status # "none"
          /\ UNCHANGED <<cert, orders>>
    /\ requests' = [requests EXCEPT ![r] = [pc |-> "done", cert |-> NoJob.cert]]
    /\ UNCHANGED <<running, scanned, issues>>

-----------------------------------------------------------------------------
(* The jobs.                                                               *)

StartIssue(k) ==
    /\ running = NoJob
    /\ orders[k].state \in {"queued", "retrying"}
    /\ issues < MaxIssued
    /\ orders' = [orders EXCEPT ![k] = [state |-> "running", attempts |-> @.attempts + 1]]
    /\ running' = [key |-> k, cert |-> cert]
    /\ UNCHANGED <<cert, requests, scanned, issues>>

\* An error is retried until the attempts are used up, or not at all when its
\* text says that something is missing.
AfterError(k) ==
    {"failed"} \cup IF orders[k].attempts >= MaxAttempts THEN {} ELSE {"retrying"}

JobEnds(state) ==
    /\ orders' = [orders EXCEPT ![running.key].state = state]
    /\ running' = NoJob
    /\ UNCHANGED <<requests, scanned>>

\* issueStoredCertificate: ACME answers with a certificate, the row is written
\* from the copy, and binding it to the sites may still fail the attempt.
Issued(n) == [status |-> "active", left |-> Lifetime, issued |-> n]

IssueCertificate ==
    /\ running # NoJob
    /\ issues' = issues + 1
    /\ cert' = Issued(issues')
    /\ \E state \in {"succeeded"} \cup AfterError(running.key) : JobEnds(state)

\* Publishing the zones fails before the order, or the order fails.
IssueFails ==
    /\ running # NoJob
    /\ \/ UNCHANGED cert
       \/ cert' = [running.cert EXCEPT !.status = "failed"]
    /\ \E state \in AfterError(running.key) : JobEnds(state)
    /\ UNCHANGED issues

Aged(c) == [c EXCEPT !.left = IF @ > 0 THEN @ - 1 ELSE 0]

\* A period passes; the worker scanned in it and its queue is empty.
NextPeriod ==
    /\ scanned /\ running = NoJob /\ ~InState({"queued", "retrying"})
    /\ cert.left > 0
    /\ cert' = Aged(cert)
    /\ requests' = [r \in Requests |-> [requests[r] EXCEPT !.cert = Aged(@)]]
    /\ scanned' = FALSE
    /\ UNCHANGED <<orders, running, issues>>

-----------------------------------------------------------------------------
WorkerStep ==
    \/ EnsureCertificate
    \/ ScanCertRenewals
    \/ \E k \in JobKeys : StartIssue(k)
    \/ IssueCertificate
    \/ IssueFails

CertNext ==
    \/ WorkerStep
    \/ \E r \in Requests : ReadCert(r) \/ RequestCert(r)
    \/ NextPeriod

CertSpec == CertInit /\ [][CertNext]_certVars

-----------------------------------------------------------------------------
(* Properties.                                                             *)

\* The scans and the provisioning of domains never have two orders under way
\* for one certificate: of the jobs they enqueue at most one is not settled,
\* however attempts fail and wait for their retry.
OneBackgroundOrder ==
    Cardinality({k \in Background :
                   orders[k].state \in {"queued", "retrying", "running"}}) <= 1
=============================================================================
