----------------------------- MODULE SiteHosting -----------------------------
(***************************************************************************)
(* The websites and applications of one account: the rows requests change  *)
(* (internal/httpserver/api.go), the worker's handlers for websites,       *)
(* domains and applications (internal/job/worker.go), and the files of     *)
(* nginx and systemd that the agent writes and removes for them            *)
(* (agent/operations/nginx.go, retire.go, stack.go).                       *)
(*                                                                         *)
(* One worker process runs.  A request reads and commits in two steps,     *)
(* between any two steps of the worker.  The account has a primary domain, *)
(* which always has a site, and may have an addon domain and an alias of   *)
(* the primary one; a site has at most one application.  A domain that was *)
(* deleted is not added again.  The zones, certificates and mail of a      *)
(* domain are in ZonePublish, CertificateRenewal and MailHosting.          *)
(***************************************************************************)
EXTENDS Integers, Sequences, FiniteSets

CONSTANTS MaxChanges,    \* bound: requests
          MaxAttempts,   \* max_attempts of a job (5 in the code)
          MaxFailures    \* bound: failed calls and crashes

VARIABLES rows,       \* the tables
          host,       \* the files of nginx and systemd
          req,        \* the request between its reads and its commit
          jobs,       \* jobs that wait, the one that runs left out
          worker,     \* where the attempt is
          changes,    \* bound: requests so far; numbers jobs and sites
          failures,   \* bound: failed calls and crashes so far
          acked,      \* history: the runtime last asked for, by domain
          overlap,    \* history: domains with a request inside an attempt
                      \* that works on them, or asked for before their job ran
          retired,    \* history: sites whose application's retirement ended
          redeployed, \* history: sites with a unit written between two
                      \* attempts of one retirement
          lost        \* history: a job failed for good, or an error was
                      \* dropped, that of a statement included

vars == <<rows, host, req, jobs, worker, changes, failures, acked, overlap,
          retired, redeployed, lost>>

Domains == {"primary", "addon", "alias"}
Runtimes == {"php", "node"}
Ids == 1..(MaxChanges + 2)
Site == [dom : Domains \ {"alias"}, runtime : Runtimes]
NoSite == [dom |-> "none", runtime |-> "none"]
Conf == [dom : Domains, runtime : Runtimes, aliases : SUBSET {"alias"}]
NoConf == [dom |-> "none", runtime |-> "none", aliases |-> {}]
NoReq == [kind |-> "none"]
Status == {"none", "provisioning", "running", "retiring"}

Types == {"website.provision", "website.delete", "domain.provision",
          "domain.delete", "application.deploy", "application.retire"}
Steps == {"idle", "retireSite", "stack", "apply", "runtime", "put", "collapse",
          "retireDomain", "delApps", "delSites", "delDomain", "reapply",
          "deploy", "putApp", "retire"}
RetireSteps == <<"stop_unit", "remove_socket", "remove_unit", "remove_files">>

TypeOK ==
    /\ rows \in [domain : SUBSET Domains, site : [Ids -> Site \cup {NoSite}],
                 app : [Ids -> Status]]
    /\ host \in [conf : [Ids -> Conf \cup {NoConf}],
                 served : [Ids -> Conf \cup {NoConf}],
                 app : [Ids -> SUBSET {"unit", "sock", "dir"}],
                 journal : [Ids -> 0..Len(RetireSteps)]]
    /\ \A j \in jobs : j.type \in Types /\ j.attempts \in 0..MaxAttempts
    /\ worker.pc \in Steps
    /\ changes \in 0..MaxChanges /\ failures \in 0..MaxFailures
    /\ acked \in [Domains -> Runtimes \cup {"any"}]
    /\ overlap \subseteq Domains
    /\ retired \subseteq Ids /\ redeployed \subseteq Ids /\ lost \in BOOLEAN

SitesOf(d) == {i \in Ids : rows.site[i].dom = d}

\* The primary domain has its site, applied; the addon domain may have one.
Init ==
    \E ds \in {{"primary"}, {"primary", "addon"}} :
        LET site == [i \in Ids |->
                        IF i = 1 THEN [dom |-> "primary", runtime |-> "php"]
                        ELSE IF i = 2 /\ "addon" \in ds
                        THEN [dom |-> "addon", runtime |-> "node"] ELSE NoSite]
            conf == [i \in Ids |->
                        IF site[i] = NoSite THEN NoConf
                        ELSE [dom |-> site[i].dom, runtime |-> site[i].runtime,
                              aliases |-> {}]]
        IN /\ rows = [domain |-> ds, site |-> site,
                      app |-> [i \in Ids |-> "none"]]
           /\ host = [conf |-> conf, served |-> conf,
                      app |-> [i \in Ids |-> IF site[i].runtime = "node"
                                             THEN {"unit", "sock", "dir"} ELSE {}],
                      journal |-> [i \in Ids |-> 0]]
           /\ req = NoReq /\ jobs = {} /\ worker = [pc |-> "idle"]
           /\ changes = 0 /\ failures = 0
           /\ acked = [d \in Domains |-> "any"]
           /\ overlap = {} /\ retired = {} /\ redeployed = {} /\ lost = FALSE

-----------------------------------------------------------------------------
(* Requests.                                                               *)

Job(type, ref, runtime) ==
    [n |-> changes + 1, type |-> type, ref |-> ref, runtime |-> runtime,
     attempts |-> 0]
Enqueue(job) ==
    /\ changes < MaxChanges /\ changes' = changes + 1
    /\ jobs' = jobs \cup {job}

\* The attempt that runs, or a job that waits, works on the domain.
Works(j, d) == \/ j.type \in {"domain.provision", "domain.delete"} /\ j.ref = d
               \/ /\ j.type \in {"website.provision", "website.delete"}
                  /\ rows.site[j.ref].dom \in {d, "none"}
Busy(d) == \/ worker.pc # "idle" /\ Works(worker.job, d)
           \/ \E j \in jobs : j.type # "website.provision" /\ Works(j, d)
Touched(d) == IF Busy(d) THEN overlap \cup {d} ELSE overlap
Host == UNCHANGED <<host, worker, failures, retired, redeployed, lost>>

AddDomain(d, runtime) ==
    /\ req = NoReq /\ d \notin rows.domain \cup overlap
    /\ Enqueue(Job("domain.provision", d, runtime))
    /\ rows' = [rows EXCEPT !.domain = @ \cup {d}]
    /\ UNCHANGED <<req, acked, overlap>> /\ Host

RequestDelete(d) ==
    /\ req = NoReq /\ d \in rows.domain \ {"primary"}
    /\ Enqueue(Job("domain.delete", d, "none"))
    /\ acked' = [acked EXCEPT ![d] = "any"]
    /\ overlap' = overlap \cup {d}
    /\ UNCHANGED <<rows, req>> /\ Host

\* createWebsite reads a site of the domain, if it has one, ...
ReadSites(d, runtime) ==
    /\ req = NoReq /\ d \in rows.domain \ {"alias"} /\ changes < MaxChanges
    /\ \/ /\ SitesOf(d) = {}
          /\ req' = [kind |-> "put", id |-> 0, dom |-> d, runtime |-> runtime]
       \/ \E i \in SitesOf(d) :
            req' = [kind |-> "put", id |-> i, dom |-> d, runtime |-> runtime]
    /\ overlap' = Touched(d)
    /\ UNCHANGED <<rows, jobs, changes, acked>> /\ Host

\* ... and writes the whole row, with a job for it, or a new site when it
\* found none.  The foreign key asks for the domain.
UpsertWebsite ==
    /\ req.kind = "put"
    /\ req' = NoReq
    /\ overlap' = Touched(req.dom)
    /\ LET id == IF req.id = 0 THEN changes + 3 ELSE req.id IN
       \/ /\ req.dom \in rows.domain
          /\ rows' = [rows EXCEPT !.site[id] =
                         [dom |-> req.dom, runtime |-> req.runtime]]
          /\ Enqueue(Job("website.provision", id, "none"))
          /\ acked' = [acked EXCEPT ![req.dom] = req.runtime]
       \/ /\ req.dom \notin rows.domain
          /\ UNCHANGED <<rows, jobs, changes, acked>>
    /\ Host

\* deleteWebsite writes the row it read, disabled, with a job.
ReadSite(i) ==
    /\ req = NoReq /\ rows.site[i].dom = "addon" /\ changes < MaxChanges
    /\ req' = [kind |-> "delete", id |-> i, dom |-> "addon",
               runtime |-> rows.site[i].runtime]
    /\ overlap' = Touched("addon")
    /\ UNCHANGED <<rows, jobs, changes, acked>> /\ Host

DisableWebsite ==
    /\ req.kind = "delete"
    /\ req' = NoReq
    /\ overlap' = Touched(req.dom)
    /\ \/ /\ req.dom \in rows.domain
          /\ rows' = [rows EXCEPT !.site[req.id] =
                         [dom |-> req.dom, runtime |-> req.runtime]]
          /\ Enqueue(Job("website.delete", req.id, "none"))
          /\ acked' = [acked EXCEPT ![req.dom] = "any"]
       \/ /\ req.dom \notin rows.domain
          /\ UNCHANGED <<rows, jobs, changes, acked>>
    /\ Host

CreateApp(i) ==
    /\ req = NoReq /\ rows.site[i] # NoSite /\ rows.app[i] = "none"
    /\ Enqueue(Job("application.deploy", i, "none"))
    /\ rows' = [rows EXCEPT !.app[i] = "provisioning"]
    /\ UNCHANGED <<req, acked, overlap>> /\ Host

\* deleteApp writes the status, and then enqueues the job on its own.
MarkRetiring(i) ==
    /\ req = NoReq /\ rows.app[i] # "none" /\ changes < MaxChanges
    /\ rows' = [rows EXCEPT !.app[i] = "retiring"]
    /\ req' = [kind |-> "retire", id |-> i]
    /\ UNCHANGED <<jobs, changes, acked, overlap>> /\ Host

EnqueueRetire ==
    /\ req.kind = "retire"
    /\ req' = NoReq
    /\ \/ Enqueue(Job("application.retire", req.id, "none"))
       \/ UNCHANGED <<jobs, changes>>
    /\ UNCHANGED <<rows, acked, overlap>> /\ Host

Request ==
    \/ \E d \in {"addon", "alias"} :
          RequestDelete(d) \/ \E r \in Runtimes \cup {"none"} : AddDomain(d, r)
    \/ \E d \in {"primary", "addon"}, r \in Runtimes : ReadSites(d, r)
    \/ \E i \in Ids : ReadSite(i) \/ CreateApp(i) \/ MarkRetiring(i)
    \/ UpsertWebsite \/ DisableWebsite \/ EnqueueRetire

-----------------------------------------------------------------------------
(* How an attempt goes on and ends.                                        *)

NoRequest == UNCHANGED <<req, changes, acked, overlap>>
Quiet == UNCHANGED <<jobs, failures, lost>>
Goto(step) == worker' = [worker EXCEPT !.pc = step] /\ Quiet
Done == worker' = [pc |-> "idle"] /\ Quiet
Fails == failures < MaxFailures /\ failures' = failures + 1
Retry ==
    /\ Fails
    /\ worker' = [pc |-> "idle"]
    /\ IF worker.job.attempts >= MaxAttempts
       THEN lost' = TRUE /\ UNCHANGED jobs
       ELSE jobs' = jobs \cup {worker.job} /\ UNCHANGED lost
\* An error is dropped and the handler goes on.
Dropped(step) == /\ Fails /\ lost' = TRUE /\ UNCHANGED jobs
                 /\ worker' = IF step = "idle" THEN [pc |-> "idle"]
                              ELSE [worker EXCEPT !.pc = step]

\* handle: the attempt starts with the reads of its handler.
Claim ==
    /\ worker.pc = "idle"
    /\ \E j \in jobs :
        LET job == [j EXCEPT !.attempts = @ + 1]
            Start(step, id, copy) ==
                /\ worker' = [pc |-> step, job |-> job, id |-> id, copy |-> copy]
                /\ UNCHANGED lost
            Missing == lost' = TRUE /\ UNCHANGED worker
            Nothing == UNCHANGED <<lost, worker>>
        IN /\ jobs' = jobs \ {j}
           /\ CASE j.type = "website.provision" ->
                     IF rows.site[j.ref] = NoSite THEN Missing
                     ELSE Start("apply", j.ref, rows.site[j.ref])
                [] j.type = "website.delete" ->
                     IF rows.site[j.ref] = NoSite THEN Nothing
                     ELSE Start("retireSite", j.ref, rows.site[j.ref])
                [] j.type = "domain.provision" ->
                     IF j.ref \notin rows.domain THEN Missing
                     ELSE Start("stack", 0, NoSite)
                [] j.type = "domain.delete" ->
                     IF j.ref \notin rows.domain THEN Nothing
                     ELSE Start("retireDomain", SitesOf(j.ref), NoSite)
                [] j.type = "application.deploy" ->
                     IF rows.app[j.ref] = "none" THEN Missing
                     ELSE Start("deploy", j.ref, NoSite)
                [] j.type = "application.retire" ->
                     IF rows.app[j.ref] = "none" THEN Nothing
                     ELSE Start("retire", j.ref, NoSite)
           /\ overlap' = overlap \cup
                  (IF req.kind \in {"put", "delete"} /\ Works(j, req.dom)
                   THEN {req.dom} ELSE {})
    /\ UNCHANGED <<rows, host, req, changes, acked, failures, retired, redeployed>>

\* The worker or the host stops.  A domain.delete that had removed its row
\* finds nothing to do when it is tried again.
Crash ==
    /\ worker.pc # "idle"
    /\ IF worker.pc = "reapply" /\ worker.job.type = "domain.delete"
       THEN Dropped("idle") ELSE Retry
    /\ UNCHANGED <<rows, host, retired, redeployed>> /\ NoRequest

-----------------------------------------------------------------------------
(* The agent.                                                              *)

Aliases(d) == IF d = "primary" THEN rows.domain \cap {"alias"} ELSE {}
\* applyWebsiteDispatch: the names of a site, with the aliases as they are.
ConfOf(site) == [dom |-> site.dom, runtime |-> site.runtime,
                 aliases |-> Aliases(site.dom)]

\* retireOtherSites looks for a server_name line with the domain alone, which
\* the site of a primary domain, with its www name, does not have.
RetireOtherSites(conf, id, d) ==
    [i \in Ids |-> IF i # id /\ conf[i].dom = d /\ d # "primary"
                   THEN NoConf ELSE conf[i]]

\* applyWebsite: the file is written, others of its domain removed, the whole
\* configuration tested, and nginx reloads.  A test that fails leaves the
\* files; a reload that fails is not noticed.
ApplyWebsite(id, site, next) ==
    LET conf == RetireOtherSites([host.conf EXCEPT ![id] = ConfOf(site)], id,
                                 site.dom)
    IN \/ host' = [host EXCEPT !.conf = conf, !.served = conf] /\ Goto(next)
       \/ host' = [host EXCEPT !.conf = conf] /\ Dropped(next)
       \/ host' = [host EXCEPT !.conf = conf] /\ Retry
       \/ UNCHANGED host /\ Retry

\* Mutant: the unit is left to systemd.
UnsitedConf(h, ids) ==
    [h EXCEPT !.conf = [i \in Ids |-> IF i \in ids THEN NoConf ELSE @[i]]]

\* retireWebsite removes the site's file, socket and unit whatever happens.
Unsited(h, ids) ==
    [h EXCEPT !.conf = [i \in Ids |-> IF i \in ids THEN NoConf ELSE @[i]],
              !.app = [i \in Ids |-> IF i \in ids THEN @[i] \cap {"dir"} ELSE @[i]]]
Reload(h) == [h EXCEPT !.served = h.conf]

\* applyAppUnit writes the unit and starts the process that opens the socket.
ApplyAppUnit(id, dir, next) ==
    \/ /\ host' = [host EXCEPT !.app[id] = @ \cup {"unit", "sock"} \cup dir]
       /\ retired' = retired \ {id}
       /\ redeployed' = IF host.journal[id] > 0 THEN redeployed \cup {id}
                        ELSE redeployed
       /\ next
    \/ UNCHANGED <<host, retired, redeployed>> /\ Retry

-----------------------------------------------------------------------------
(* Websites: provisionWebsite and the site of ensureDomainStack.           *)

ByDomain == worker.job.type = "domain.provision"

\* A site that runs an application is preferred.
FindSite(d) == IF \E i \in SitesOf(d) : rows.site[i].runtime = "node"
               THEN {i \in SitesOf(d) : rows.site[i].runtime = "node"}
               ELSE SitesOf(d)

\* ensureDomainStack: the domain's site, made when it has none.
EnsureDomainStack ==
    /\ worker.pc = "stack"
    /\ LET d == worker.job.ref
           runtime == worker.job.runtime
           Or(r) == IF runtime = "none" THEN r ELSE runtime
           new == [dom |-> d, runtime |-> Or("php")]
           id == worker.job.n + 2
       IN \/ /\ d = "alias" /\ Goto("reapply") /\ UNCHANGED rows
          \/ /\ d # "alias" /\ FindSite(d) = {}
             /\ rows' = [rows EXCEPT !.site[id] = new]
             /\ worker' = [worker EXCEPT !.pc = "apply", !.id = id, !.copy = new]
             /\ Quiet
          \/ /\ d # "alias"
             /\ \E i \in FindSite(d) :
                  worker' = [worker EXCEPT !.pc = "apply", !.id = i,
                               !.copy = [dom |-> d,
                                         runtime |-> Or(rows.site[i].runtime)]]
             /\ Quiet /\ UNCHANGED rows
    /\ UNCHANGED <<host, retired, redeployed>> /\ NoRequest

Apply ==
    /\ worker.pc = "apply"
    /\ ApplyWebsite(worker.id, worker.copy, IF ByDomain THEN "runtime" ELSE "put")
    /\ UNCHANGED <<rows, retired, redeployed>> /\ NoRequest

\* applySiteRuntime: a pool of PHP, which is not modelled, or a unit.
ApplySiteRuntime ==
    /\ worker.pc = "runtime"
    /\ LET next == IF ByDomain THEN Goto("put") ELSE Done IN
       IF worker.copy.runtime = "node" THEN ApplyAppUnit(worker.id, {"dir"}, next)
       ELSE (next \/ Retry) /\ UNCHANGED <<host, retired, redeployed>>
    /\ UNCHANGED rows /\ NoRequest

\* Mutant: the row gets the default runtime.
PutWebsiteDefault ==
    /\ worker.pc = "put"
    /\ rows' = [rows EXCEPT !.site[worker.id].runtime = "php"]
    /\ Goto("collapse")
    /\ UNCHANGED <<host, retired, redeployed>> /\ NoRequest

\* The row the attempt read is written back whole.
PutWebsite ==
    /\ worker.pc = "put"
    /\ rows' = [rows EXCEPT !.site[worker.id] = worker.copy]
    /\ Goto("collapse")
    /\ UNCHANGED <<host, retired, redeployed>> /\ NoRequest

\* DeleteWebsite deletes the applications of the site with it.
Drop(ids) == [rows EXCEPT !.site = [i \in Ids |-> IF i \in ids THEN NoSite ELSE @[i]],
                          !.app = [i \in Ids |-> IF i \in ids THEN "none" ELSE @[i]]]

\* Mutant: the sites of the domain are left as they are.
CollapseNone ==
    /\ worker.pc = "collapse"
    /\ IF ByDomain THEN Done ELSE Goto("runtime")
    /\ UNCHANGED <<rows, host, retired, redeployed>> /\ NoRequest

\* collapseDomainWebsites: every other site of the domain goes, its host files
\* with it; what the agent reports is dropped.
CollapseDomainWebsites ==
    /\ worker.pc = "collapse"
    /\ LET others == SitesOf(worker.copy.dom) \ {worker.id} IN
       \/ /\ others = {}
          /\ IF ByDomain THEN Done ELSE Goto("runtime")
          /\ UNCHANGED <<rows, host>>
       \/ \E i \in others :
            /\ rows' = Drop({i})
            /\ \/ host' = Reload(Unsited(host, {i})) /\ Goto("collapse")
               \/ host' = Unsited(host, {i}) /\ Dropped("collapse")
    /\ UNCHANGED <<retired, redeployed>> /\ NoRequest

\* Mutant: the row goes before the host.
DeleteWebsiteRowFirst ==
    /\ worker.pc = "retireSite"
    /\ rows' = Drop({worker.id})
    /\ \/ host' = Reload(Unsited(host, {worker.id})) /\ Done
       \/ UNCHANGED host /\ Retry
    /\ UNCHANGED <<retired, redeployed>> /\ NoRequest

\* deleteWebsite: the host, then the rows.
DeleteWebsite ==
    /\ worker.pc = "retireSite"
    /\ \/ /\ host' = Reload(Unsited(host, {worker.id})) /\ rows' = Drop({worker.id})
          /\ Done
       \/ host' = Unsited(host, {worker.id}) /\ Retry /\ UNCHANGED rows
    /\ UNCHANGED <<retired, redeployed>> /\ NoRequest

-----------------------------------------------------------------------------
(* Domains: the alias of ensureDomainStack, and deleteDomain.              *)

\* The primary domain's site is applied again with the aliases there are; an
\* error counts for domain.provision and is dropped by domain.delete.
ReapplyPrimary ==
    /\ worker.pc = "reapply"
    /\ \E i \in FindSite("primary") :
        LET conf == RetireOtherSites([host.conf EXCEPT ![i] =
                                         ConfOf(rows.site[i])], i, "primary")
            Fail == IF ByDomain THEN Retry ELSE Dropped("idle")
        IN \/ host' = [host EXCEPT !.conf = conf, !.served = conf] /\ Done
           \/ host' = [host EXCEPT !.conf = conf] /\ (Fail \/ Dropped("idle"))
           \/ UNCHANGED host /\ Fail
    /\ UNCHANGED <<rows, retired, redeployed>> /\ NoRequest

\* RetireDomain: the sites the attempt listed, each with a reload, up to the
\* first that fails, and a last reload.
RetireDomain ==
    /\ worker.pc = "retireDomain"
    /\ \/ host' = Reload(Unsited(host, worker.id)) /\ Goto("delApps")
       \/ \E ids \in SUBSET worker.id : \E done \in SUBSET ids :
            /\ Cardinality(ids \ done) <= 1
            /\ host' = Unsited(IF done = {} THEN host
                              ELSE Reload(Unsited(host, done)), ids)
            /\ Retry
    /\ UNCHANGED <<rows, retired, redeployed>> /\ NoRequest

DeleteApps ==
    /\ worker.pc = "delApps"
    /\ rows' = [rows EXCEPT !.app = [i \in Ids |->
                    IF i \in SitesOf(worker.job.ref) THEN "none" ELSE @[i]]]
    /\ Goto("delSites")
    /\ UNCHANGED <<host, retired, redeployed>> /\ NoRequest

\* An application made since refuses the statement, whose error is dropped.
DeleteSites ==
    /\ worker.pc = "delSites"
    /\ LET ids == SitesOf(worker.job.ref)
           refused == \E i \in ids : rows.app[i] # "none"
       IN /\ rows' = IF refused THEN rows ELSE Drop(ids)
          /\ lost' = (lost \/ refused)
    /\ worker' = [worker EXCEPT !.pc = "delDomain"]
    /\ UNCHANGED <<jobs, failures>>
    /\ UNCHANGED <<host, retired, redeployed>> /\ NoRequest

\* So does a site made since.
DeleteDomain ==
    /\ worker.pc = "delDomain"
    /\ LET refused == SitesOf(worker.job.ref) # {} IN
       /\ rows' = IF refused THEN rows
                  ELSE [rows EXCEPT !.domain = @ \ {worker.job.ref}]
       /\ lost' = (lost \/ refused)
    /\ worker' = IF worker.job.ref = "alias" THEN [worker EXCEPT !.pc = "reapply"]
                 ELSE [pc |-> "idle"]
    /\ UNCHANGED <<jobs, failures>>
    /\ UNCHANGED <<host, retired, redeployed>> /\ NoRequest

-----------------------------------------------------------------------------
(* Applications.                                                           *)

\* deployApp: the unit, and then the row, running.
DeployApp ==
    /\ worker.pc = "deploy"
    /\ ApplyAppUnit(worker.id, {}, Goto("putApp"))
    /\ UNCHANGED rows
    /\ NoRequest

PutApp ==
    /\ worker.pc = "putApp"
    /\ rows' = [rows EXCEPT !.app[worker.id] = "running"]
    /\ Done
    /\ UNCHANGED <<host, retired, redeployed>> /\ NoRequest

Removes(step) == CASE step = "remove_socket" -> {"sock"}
                   [] step = "remove_unit" -> {"unit"}
                   [] step = "remove_files" -> {"dir"}
                   [] OTHER -> {}

\* Mutant: a step is recorded before it is done.
RetireStepRecorded ==
    /\ worker.pc = "retire"
    /\ LET id == worker.id
           n == host.journal[id] + 1
       IN /\ n <= Len(RetireSteps)
          /\ \/ /\ host' = [host EXCEPT !.app[id] = @ \ Removes(RetireSteps[n]),
                                        !.journal[id] = n]
                /\ Goto("retire")
             \/ host' = [host EXCEPT !.journal[id] = n] /\ Retry
    /\ UNCHANGED <<rows, retired, redeployed>> /\ NoRequest

\* retireApplication: the steps the journal does not have, each recorded once
\* it is done.
RetireStep ==
    /\ worker.pc = "retire"
    /\ LET id == worker.id
           n == host.journal[id] + 1
       IN /\ n <= Len(RetireSteps)
          /\ LET app == host.app[id] \ Removes(RetireSteps[n]) IN
             \/ /\ host' = [host EXCEPT !.app[id] = app, !.journal[id] = n]
                /\ Goto("retire")
             \/ host' = [host EXCEPT !.app[id] = app] /\ Retry
    /\ UNCHANGED <<rows, retired, redeployed>> /\ NoRequest

\* The journal is removed, and the row when the agent has answered.
RetireEnd ==
    /\ worker.pc = "retire"
    /\ LET id == worker.id IN
       /\ host.journal[id] = Len(RetireSteps)
       /\ host' = [host EXCEPT !.journal[id] = 0]
       /\ \/ /\ rows' = [rows EXCEPT !.app[id] = "none"]
             /\ retired' = retired \cup {id} /\ Done
          \/ UNCHANGED <<rows, retired>> /\ Retry
    /\ UNCHANGED redeployed /\ NoRequest

Work == \/ EnsureDomainStack \/ Apply \/ ApplySiteRuntime \/ PutWebsite
        \/ CollapseDomainWebsites \/ DeleteWebsite \/ ReapplyPrimary
        \/ RetireDomain \/ DeleteApps \/ DeleteSites \/ DeleteDomain
        \/ DeployApp \/ PutApp \/ RetireStep \/ RetireEnd

Next == Request \/ Claim \/ Crash \/ Work

Spec == Init /\ [][Next]_vars

-----------------------------------------------------------------------------
Settled == worker.pc = "idle" /\ jobs = {} /\ req = NoReq /\ ~lost

\* Once every job has succeeded, nginx serves exactly the sites of the rows,
\* with their runtimes, and the primary domain's site answers for exactly the
\* aliases there are, whatever was retried on the way (applyWebsiteDispatch).
SitesAgreeWhenSettled ==
    Settled => \A i \in Ids :
        host.served[i] = IF rows.site[i] = NoSite THEN NoConf
                         ELSE ConfOf(rows.site[i])

\* A domain ends with one site at most, although a request and
\* ensureDomainStack may each have made one (collapseDomainWebsites).
OneSitePerDomain ==
    Settled => \A d \in Domains : Cardinality(SitesOf(d)) <= 1

\* A runtime asked for is kept unless the request ran while a job of the
\* domain waited or ran: that job writes the row it read, or deletes it.
RuntimeLostOnlyByOverlap ==
    \A d \in Domains \ overlap :
        acked[d] # "any" => \E i \in SitesOf(d) : rows.site[i].runtime = acked[d]

\* An application whose retirement ended has no unit, no socket and no files,
\* although attempts died between its steps, unless its unit was written anew
\* between two of them: the journal then hides it (retireApplication).
RetirementIsWhole ==
    \A i \in retired \ redeployed : host.app[i] = {}

\* Units belong to sites there are: no deletion leaves one that systemd would
\* start at the next boot.
NoOrphanUnits ==
    Settled => \A i \in Ids \ redeployed :
        "unit" \in host.app[i] => rows.site[i] # NoSite
=============================================================================
