-------------------------- MODULE HostingSiteProofs --------------------------
(***************************************************************************)
(* Proofs about the sites and applications of Hosting, for any domains,    *)
(* accounts and bounds: the inductive invariant SiteInv, that every step   *)
(* of the sites keeps it, and what follows from it.                        *)
(***************************************************************************)
EXTENDS Hosting, Sequences, FiniteSetTheorems, TLAPS

\* The bounds are numbers.
LEMMA Bounds ==
    /\ MaxChanges \in Nat /\ MaxAttempts \in Nat /\ MaxFailures \in Nat
    /\ MaxEvents \in Nat /\ MaxLines \in Nat /\ MeterChanges \in Nat
    /\ MeterFailures \in Nat /\ Months \in Nat /\ Months >= 1 /\ MaxAttempts >= 1
  BY BoundsAssumption

-----------------------------------------------------------------------------
(* The sites and applications.                                             *)

SiteJob == [n : 1..MaxChanges, type : Site!Types, ref : Site!Ids \cup Site!Domains,
            runtime : Site!Runtimes \cup {"none"}, attempts : 0..MaxAttempts]
SiteRunning == [pc : Site!Steps \ {"idle"}, job : SiteJob,
                id : Site!Ids \cup {0} \cup SUBSET Site!Ids,
                copy : Site!Site \cup {Site!NoSite}]
SiteWorker == worker = [pc |-> "idle"] \/ worker \in SiteRunning

\* The first site is the primary domain's; the others are the addon domain's.
DomOf(i) == IF i = 1 THEN "primary" ELSE "addon"

\* A job names a site, an application or a domain that is not the primary one.
JobNames(j) ==
    /\ j.type \in {"website.provision", "application.deploy", "application.retire"} =>
          j.ref \in Site!Ids
    /\ j.type = "website.delete" => j.ref \in Site!Ids \ {1}
    /\ j.type \in {"domain.provision", "domain.delete"} => j.ref \in {"addon", "alias"}
    /\ j.type = "domain.delete" => j.ref \in overlap
SiteJobs == /\ jobs \subseteq SiteJob
            /\ \A j \in jobs : j.attempts < MaxAttempts /\ JobNames(j)

SiteReq ==
    \/ req = Site!NoReq
    \/ /\ req \in [kind : {"put"}, id : Site!Ids \cup {0}, dom : {"primary", "addon"},
                   runtime : Site!Runtimes]
       /\ req.dom = IF req.id = 0 THEN "addon" ELSE DomOf(req.id)
    \/ req \in [kind : {"delete"}, id : Site!Ids \ {1}, dom : {"addon"},
                runtime : Site!Runtimes]
    \/ req \in [kind : {"retire"}, id : Site!Ids]

\* The attempt's step belongs to its job, and only the attempt deletes rows.
SiteSteps == {"apply", "runtime", "put", "collapse"}
RetiringSteps == {"retireDomain", "delApps", "delSites", "delDomain"}
SiteStepOfJob ==
    worker.pc # "idle" =>
        /\ JobNames(worker.job)
        /\ worker.pc \in SiteSteps =>
              /\ worker.id \in Site!Ids /\ rows.site[worker.id] # Site!NoSite
              /\ worker.copy \in Site!Site /\ worker.copy.dom = DomOf(worker.id)
              /\ \/ worker.job.type = "website.provision" /\ worker.job.ref = worker.id
                 \/ Site!ByDomain /\ worker.job.ref = "addon" /\ worker.id # 1
        /\ worker.pc = "stack" => Site!ByDomain /\ worker.job.ref \in rows.domain
        /\ worker.pc = "reapply" => /\ worker.job.type \in {"domain.provision", "domain.delete"}
                                    /\ worker.job.ref = "alias"
        /\ worker.pc = "retireSite" =>
              /\ worker.job.type = "website.delete" /\ worker.job.ref = worker.id
              /\ rows.site[worker.id] # Site!NoSite
        /\ worker.pc \in RetiringSteps =>
              /\ worker.job.type = "domain.delete" /\ worker.job.ref \in rows.domain
              /\ worker.id \subseteq Site!Ids \ {1}
              /\ worker.id # {} => worker.job.ref = "addon"
        /\ worker.pc \in {"deploy", "putApp"} =>
              /\ worker.job.type = "application.deploy" /\ worker.id \in Site!Ids
              /\ rows.app[worker.id] # "none"
        /\ worker.pc = "retire" =>
              worker.job.type = "application.retire" /\ worker.id \in Site!Ids

\* A site is its domain's, as is its file; applications, files and units are of
\* sites there are.
SiteRowsNested ==
    /\ rows.site[1] # Site!NoSite
    /\ \A i \in Site!Ids :
          /\ rows.site[i] # Site!NoSite =>
                rows.site[i].dom = DomOf(i) /\ DomOf(i) \in rows.domain
          /\ rows.app[i] # "none" => rows.site[i] # Site!NoSite
          /\ host.conf[i] # Site!NoConf =>
                rows.site[i] # Site!NoSite /\ host.conf[i].dom = DomOf(i)
          /\ "unit" \in host.app[i] => rows.site[i] # Site!NoSite

\* Once RetireDomain has answered, and for sites it was not told of, there is
\* neither file nor unit.
SiteBare(i) == host.conf[i] = Site!NoConf /\ "unit" \notin host.app[i]
SitesRetired ==
    /\ worker.pc = "retireDomain" =>
          \A i \in Site!Ids \ worker.id : rows.site[i].dom = worker.job.ref => SiteBare(i)
    /\ worker.pc \in {"delApps", "delSites"} =>
          \A i \in Site!Ids : rows.site[i].dom = worker.job.ref => SiteBare(i)
    /\ worker.pc \in {"delApps", "delSites", "delDomain"} => host.served = host.conf

\* The steps of a retirement that the journal has are done.
JournalDone ==
    \A i \in Site!Ids \ redeployed :
        /\ host.journal[i] >= 2 => "sock" \notin host.app[i]
        /\ host.journal[i] >= 3 => "unit" \notin host.app[i]
        /\ host.journal[i] >= 4 => "dir" \notin host.app[i]
        /\ i \in retired => host.app[i] = {}

\* A job that could undo what was asked for of a domain.
SiteUndoes(j, d) == \/ j.type \in {"domain.provision", "domain.delete"} /\ j.ref = d
                    \/ j.type = "website.delete" /\ d = "addon"
\* The attempt works on the domain.
SiteWorksOn(d) == \/ worker.pc = "stack" /\ worker.job.ref = d
                  \/ worker.pc \in SiteSteps /\ DomOf(worker.id) = d
                  \/ worker.pc = "retireSite" /\ d = "addon"
RuntimeKept ==
    /\ Site!RuntimeLostOnlyByOverlap
    /\ \A d \in Site!Domains \ overlap : acked[d] # "any" =>
          /\ \A j \in jobs : ~SiteUndoes(j, d)
          /\ worker.pc # "idle" => ~SiteUndoes(worker.job, d)
    /\ worker.pc \in {"apply", "put"} /\ DomOf(worker.id) \notin overlap /\ ~Site!ByDomain =>
          worker.copy = rows.site[worker.id]
OneUntouched ==
    /\ "addon" \notin overlap =>
          \A i, k \in Site!Ids \ {1} :
              rows.site[i] # Site!NoSite /\ rows.site[k] # Site!NoSite => i = k
    /\ req.kind \in {"put", "delete"} /\ req.dom \notin overlap =>
          /\ ~SiteWorksOn(req.dom)
          /\ req.id # 0 => rows.site[req.id] # Site!NoSite
          /\ req.id = 0 => \A i \in Site!Ids \ {1} : rows.site[i] = Site!NoSite

\* Jobs that apply what the rows say of the sites of a domain, and the attempt
\* that does.
JobCovers(j, d) ==
    \/ j.type = "website.provision" /\ DomOf(j.ref) = d
    \/ j.type = "domain.provision" /\ (j.ref = d \/ (j.ref = "alias" /\ d = "primary"))
    \/ j.type = "domain.delete" /\ j.ref = d
WorkerCovers(d) ==
    \/ worker.pc = "stack" /\ (worker.job.ref = d \/ (worker.job.ref = "alias" /\ d = "primary"))
    \/ worker.pc \in {"apply", "put"} /\ DomOf(worker.id) = d
    \/ worker.pc = "runtime" /\ Site!ByDomain /\ d = "addon"
    \/ worker.pc = "reapply" /\ d = "primary"
    \/ worker.pc \in {"retireDomain", "delApps", "delSites"} /\ worker.job.ref = d
SiteCovered(d) == (\E j \in jobs : JobCovers(j, d)) \/ WorkerCovers(d)
SiteGoes(i) == \/ \E j \in jobs : j.type = "website.delete" /\ j.ref = i
               \/ worker.pc = "retireSite" /\ worker.id = i
SiteCollapses(i) == worker.pc = "collapse" /\ DomOf(worker.id) = DomOf(i)
SiteAliasWaits == \E j \in jobs : j.type = "domain.provision" /\ j.ref = "alias"

\* Every site's file is what its row says, or will be, or the site goes.
FilesApplied ==
    /\ \A i \in Site!Ids : rows.site[i] # Site!NoSite =>
          \/ host.conf[i] = Site!ConfOf(rows.site[i])
          \/ SiteCovered(DomOf(i)) \/ SiteGoes(i)
          \/ SiteCollapses(i) /\ worker.id # i
    /\ worker.pc = "put" \/ (worker.pc = "runtime" /\ Site!ByDomain) =>
          \/ host.conf[worker.id] = Site!ConfOf(worker.copy)
          \/ worker.id = 1 /\ SiteAliasWaits

\* Of two sites of a domain all but one go.
SitesCollapse ==
    \A i, k \in Site!Ids \ {1} :
        rows.site[i] # Site!NoSite /\ rows.site[k] # Site!NoSite /\ i # k =>
            SiteCovered("addon") \/ SiteGoes(i) \/ SiteGoes(k) \/ SiteCollapses(i)

\* nginx has read the files, or will.
ReloadComes ==
    \/ \E j \in jobs :
          \/ j.type \in {"website.provision", "domain.provision"}
          \/ j.type = "website.delete" /\ rows.site[j.ref] # Site!NoSite
          \/ j.type = "domain.delete" /\ j.ref \in rows.domain
    \/ worker.pc \in {"stack", "apply", "reapply", "retireSite", "retireDomain"}
FilesServed == host.served = host.conf \/ ReloadComes

SitesApplied == ~lost => FilesApplied /\ SitesCollapse /\ FilesServed

SiteInv == /\ Site!TypeOK /\ SiteWorker /\ SiteJobs /\ SiteReq /\ SiteStepOfJob
           /\ SiteRowsNested /\ SitesRetired /\ JournalDone /\ RuntimeKept /\ OneUntouched
           /\ SitesApplied

\* The fields of the rows and the host.
SiteRow == [domain : SUBSET Site!Domains,
            site : [Site!Ids -> Site!Site \cup {Site!NoSite}], app : [Site!Ids -> Site!Status]]
SiteHost == [conf : [Site!Ids -> Site!Conf \cup {Site!NoConf}],
             served : [Site!Ids -> Site!Conf \cup {Site!NoConf}],
             app : [Site!Ids -> SUBSET {"unit", "sock", "dir"}], journal : [Site!Ids -> 0..4]]
SiteShapes == /\ rows \in SiteRow /\ host \in SiteHost /\ jobs \subseteq SiteJob /\ SiteWorker
              /\ changes \in 0..MaxChanges /\ failures \in 0..MaxFailures
              /\ acked \in [Site!Domains -> Site!Runtimes \cup {"any"}]
              /\ overlap \subseteq Site!Domains
              /\ retired \subseteq Site!Ids /\ redeployed \subseteq Site!Ids /\ lost \in BOOLEAN

LEMMA SiteTyped == /\ SiteInv => SiteShapes
                   /\ SiteShapes' => Site!TypeOK' /\ SiteWorker'
                   /\ SiteShapes => Site!TypeOK /\ SiteWorker
<1>1. Len(Site!RetireSteps) = 4
  BY DEF Site!RetireSteps
<1>2. ASSUME SiteInv PROVE SiteShapes
  BY <1>1, <1>2 DEF SiteInv, SiteShapes, Site!TypeOK, SiteRow, SiteHost, SiteJobs
<1>3. ASSUME SiteShapes' PROVE Site!TypeOK' /\ SiteWorker'
  <2>1. worker'.pc \in Site!Steps
    BY <1>3 DEF SiteShapes, SiteWorker, SiteRunning, Site!Steps
  <2>2. \A j \in jobs' : j.type \in Site!Types /\ j.attempts \in 0..MaxAttempts
    BY <1>3 DEF SiteShapes, SiteJob
  <2> QED
    BY <1>1, <1>3, <2>1, <2>2 DEF SiteShapes, Site!TypeOK, SiteRow, SiteHost
<1>4. ASSUME SiteShapes PROVE Site!TypeOK /\ SiteWorker
  <2>1. worker.pc \in Site!Steps
    BY <1>4 DEF SiteShapes, SiteWorker, SiteRunning, Site!Steps
  <2>2. \A j \in jobs : j.type \in Site!Types /\ j.attempts \in 0..MaxAttempts
    BY <1>4 DEF SiteShapes, SiteJob
  <2> QED
    BY <1>1, <1>4, <2>1, <2>2 DEF SiteShapes, Site!TypeOK, SiteRow, SiteHost
<1> QED
  BY <1>2, <1>3, <1>4

\* The first two ids, and the domain that tells a site from none.
LEMMA SiteIds == /\ 1 \in Site!Ids /\ 2 \in Site!Ids /\ Site!Ids \subseteq Nat \ {0}
                 /\ \A n \in 1..MaxChanges : n + 2 \in Site!Ids \ {1}
                 /\ \A i : DomOf(i) \in {"primary", "addon"}
                 /\ \A i : DomOf(i) = "primary" <=> i = 1
                 /\ \A i : DomOf(i) = "addon" <=> i # 1
                 /\ DomOf(1) = "primary"
  BY Bounds DEF Site!Ids, DomOf
LEMMA SiteOrNone == \A s \in Site!Site \cup {Site!NoSite} :
                       /\ s = Site!NoSite <=> s.dom = "none"
                       /\ s # Site!NoSite => s \in Site!Site /\ s.dom \in {"primary", "addon"}
                                             /\ s.runtime \in Site!Runtimes
  BY DEF Site!Site, Site!NoSite, Site!Domains

\* What the rows say of a site.
LEMMA SiteRows ==
    ASSUME SiteInv
    PROVE  /\ rows.site[1] # Site!NoSite /\ rows.site[1].dom = "primary"
           /\ "primary" \in rows.domain
           /\ \A i \in Site!Ids :
                 /\ rows.site[i] \in Site!Site \cup {Site!NoSite}
                 /\ rows.site[i] # Site!NoSite =>
                       /\ rows.site[i] \in Site!Site /\ rows.site[i].dom = DomOf(i)
                       /\ DomOf(i) \in rows.domain
                 /\ rows.site[i] = Site!NoSite =>
                       /\ rows.site[i].dom = "none" /\ rows.app[i] = "none" /\ SiteBare(i)
           /\ \A i \in Site!Ids, d \in Site!Domains :
                 rows.site[i].dom = d <=> rows.site[i] # Site!NoSite /\ DomOf(i) = d
<1>1. rows \in SiteRow
  BY SiteTyped DEF SiteShapes
<1>2. \A i \in Site!Ids : rows.site[i] \in Site!Site \cup {Site!NoSite}
  BY <1>1 DEF SiteRow
<1>3. \A i \in Site!Ids : rows.site[i] # Site!NoSite =>
          rows.site[i] \in Site!Site /\ rows.site[i].dom = DomOf(i) /\ DomOf(i) \in rows.domain
  BY <1>2, SiteOrNone DEF SiteInv, SiteRowsNested
<1>4. \A i \in Site!Ids : rows.site[i] = Site!NoSite =>
          rows.site[i].dom = "none" /\ rows.app[i] = "none" /\ SiteBare(i)
  BY <1>2, SiteOrNone DEF SiteInv, SiteRowsNested, SiteBare
<1>5. rows.site[1] # Site!NoSite
  BY DEF SiteInv, SiteRowsNested
<1>6. \A i \in Site!Ids, d \in Site!Domains :
          rows.site[i].dom = d <=> rows.site[i] # Site!NoSite /\ DomOf(i) = d
  BY <1>3, <1>4 DEF Site!Domains
<1> QED
  BY <1>2, <1>3, <1>4, <1>5, <1>6, SiteIds

\* An attempt that runs has its job.
LEMMA SiteRuns ==
    ASSUME SiteInv, worker.pc # "idle"
    PROVE  /\ worker \in SiteRunning /\ worker.job \in SiteJob /\ JobNames(worker.job)
           /\ worker.job.n \in 1..MaxChanges /\ worker.job.type \in Site!Types
           /\ worker.job.attempts \in 0..MaxAttempts
           /\ worker.job.runtime \in Site!Runtimes \cup {"none"}
<1>1. worker \in SiteRunning
  <2>1. worker # [pc |-> "idle"]
    OBVIOUS
  <2> QED
    BY <2>1 DEF SiteInv, SiteWorker
<1> QED
  BY <1>1 DEF SiteInv, SiteStepOfJob, SiteRunning, SiteJob

-----------------------------------------------------------------------------
(* How an attempt goes on and ends.                                        *)

LEMMA SiteGoesOn ==
    ASSUME SiteInv, worker.pc # "idle",
           worker' = [pc |-> "idle"] \/ (worker' \in SiteRunning /\ worker'.job = worker.job),
           UNCHANGED <<req, changes, acked, overlap>>,
           \/ jobs' = jobs
           \/ jobs' = jobs \cup {worker.job} /\ worker.job.attempts < MaxAttempts,
           failures' \in 0..MaxFailures, rows' \in SiteRow, host' \in SiteHost,
           retired' \subseteq Site!Ids, redeployed' \subseteq Site!Ids, lost' \in BOOLEAN,
           SiteStepOfJob', SiteRowsNested', SitesRetired', JournalDone', RuntimeKept',
           OneUntouched', SitesApplied'
    PROVE  SiteInv'
<1>1. SiteShapes /\ worker.job \in SiteJob /\ JobNames(worker.job)
  BY SiteTyped, SiteRuns
<1>2. SiteWorker'
  BY DEF SiteWorker
<1>3. jobs' \subseteq SiteJob
  BY <1>1 DEF SiteShapes
<1>4. SiteShapes'
  BY <1>1, <1>2, <1>3 DEF SiteShapes
<1>5. \A j : JobNames(j)' <=> JobNames(j)
  BY DEF JobNames
<1>6. SiteJobs'
  BY <1>1, <1>3, <1>5 DEF SiteInv, SiteJobs
<1>7. SiteReq'
  BY DEF SiteInv, SiteReq
<1> QED
  BY <1>4, <1>6, <1>7, SiteTyped DEF SiteInv

\* What was asked for of a domain stays, unless the job undoes it or a request
\* overlapped the work.
LEMMA SiteAskedKept ==
    ASSUME SiteInv, worker.pc # "idle",
           worker'.pc # "idle" => worker'.job = worker.job,
           UNCHANGED <<req, acked, overlap>>, jobs' \subseteq jobs \cup {worker.job},
           \A d : SiteWorksOn(d)' => SiteWorksOn(d),
           worker'.pc \in {"apply", "put"} /\ worker.job.type # "domain.provision" =>
               /\ worker.pc \in {"apply", "put"}
               /\ worker'.id = worker.id /\ worker'.copy = worker.copy,
           \A i \in Site!Ids : \/ rows'.site[i] = rows.site[i]
                               \/ SiteUndoes(worker.job, DomOf(i)) \/ DomOf(i) \in overlap,
           "addon" \notin overlap =>
               \A i, k \in Site!Ids \ {1} :
                   rows'.site[i] # Site!NoSite /\ rows'.site[k] # Site!NoSite => i = k,
           \A i \in Site!Ids : \/ rows'.site[i] = Site!NoSite <=> rows.site[i] = Site!NoSite
                               \/ SiteWorksOn(DomOf(i)) \/ DomOf(i) \in overlap
    PROVE  RuntimeKept' /\ OneUntouched'
<1>1. \A d \in Site!Domains \ overlap : acked[d] # "any" =>
          /\ \A j \in jobs : ~SiteUndoes(j, d)
          /\ ~SiteUndoes(worker.job, d)
  BY DEF SiteInv, RuntimeKept
<1>3. \A d \in Site!Domains \ overlap' : acked'[d] # "any" =>
          /\ \A j \in jobs' : ~SiteUndoes(j, d)
          /\ worker'.pc # "idle" => ~SiteUndoes(worker'.job, d)
  BY <1>1
<1>4. Site!RuntimeLostOnlyByOverlap'
  <2> SUFFICES ASSUME NEW d \in Site!Domains \ overlap, acked[d] # "any"
               PROVE  \E i \in Site!Ids : rows'.site[i].dom = d /\ rows'.site[i].runtime = acked[d]
    BY DEF Site!RuntimeLostOnlyByOverlap, Site!SitesOf
  <2>1. PICK i \in Site!Ids : rows.site[i].dom = d /\ rows.site[i].runtime = acked[d]
    BY DEF SiteInv, RuntimeKept, Site!RuntimeLostOnlyByOverlap, Site!SitesOf
  <2>2. DomOf(i) = d
    BY <2>1, SiteRows
  <2>3. rows'.site[i] = rows.site[i]
    BY <1>1, <2>2
  <2> QED
    BY <2>1, <2>3
<1>5. ASSUME worker'.pc \in {"apply", "put"}, DomOf(worker'.id) \notin overlap,
             ~Site!ByDomain'
      PROVE  worker'.copy = rows'.site[worker'.id]
  <2>1. worker.job.type # "domain.provision"
    BY <1>5 DEF Site!ByDomain
  <2>2. /\ worker.pc \in {"apply", "put"} /\ worker'.id = worker.id
        /\ worker'.copy = worker.copy
    BY <1>5, <2>1
  <2>3. /\ worker.job.type = "website.provision" /\ worker.id \in Site!Ids
        /\ worker.copy = rows.site[worker.id]
    BY <1>5, <2>1, <2>2 DEF SiteInv, SiteStepOfJob, SiteSteps, RuntimeKept, Site!ByDomain
  <2>4. rows'.site[worker.id] = rows.site[worker.id]
    BY <1>5, <2>2, <2>3 DEF SiteUndoes
  <2> QED
    BY <2>2, <2>3, <2>4
<1>6. ASSUME req.kind \in {"put", "delete"}, req.dom \notin overlap
      PROVE  /\ ~SiteWorksOn(req.dom)'
             /\ req.id # 0 => rows'.site[req.id] # Site!NoSite
             /\ req.id = 0 => \A i \in Site!Ids \ {1} : rows'.site[i] = Site!NoSite
  <2>1. /\ ~SiteWorksOn(req.dom)
        /\ req.id # 0 => rows.site[req.id] # Site!NoSite
        /\ req.id = 0 => \A i \in Site!Ids \ {1} : rows.site[i] = Site!NoSite
    BY <1>6 DEF SiteInv, OneUntouched
  <2>2. /\ req.id # 0 => req.id \in Site!Ids /\ req.dom = DomOf(req.id)
        /\ req.id = 0 => req.dom = "addon"
    BY <1>6, SiteIds DEF SiteInv, SiteReq, Site!NoReq
  <2> QED
    BY <1>6, <2>1, <2>2, SiteIds
<1>7. RuntimeKept'
  BY <1>3, <1>4, <1>5 DEF RuntimeKept
<1>8. OneUntouched'
  BY <1>6 DEF OneUntouched
<1> QED
  BY <1>7, <1>8

\* The files of an attempt that ends early are applied by its job.
LEMMA SiteEndsApplied ==
    ASSUME SiteInv, worker.pc # "idle", worker' = [pc |-> "idle"], rows' = rows,
           lost' = TRUE \/ (lost' = lost /\ jobs' = jobs \cup {worker.job}),
           worker.pc = "reapply" => lost' = TRUE \/ worker.job.type = "domain.provision",
           \A i \in Site!Ids : \/ host'.conf[i] = host.conf[i] \/ WorkerCovers(DomOf(i))
                               \/ worker.pc = "retireSite" /\ worker.id = i,
           \/ host'.conf = host.conf /\ host'.served = host.served
           \/ worker.pc \in {"stack", "apply", "reapply", "retireSite", "retireDomain"}
    PROVE  SitesApplied'
<1> SUFFICES ASSUME ~lost' PROVE FilesApplied' /\ SitesCollapse' /\ FilesServed'
  BY DEF SitesApplied
<1>1. lost' = lost /\ ~lost /\ jobs' = jobs \cup {worker.job} /\ worker'.pc = "idle"
  OBVIOUS
<1>2. FilesApplied /\ SitesCollapse /\ FilesServed
  BY <1>1 DEF SiteInv, SitesApplied
<1>3. \A d \in {"primary", "addon"} : WorkerCovers(d) => JobCovers(worker.job, d)
  <2> SUFFICES ASSUME NEW d \in {"primary", "addon"}, WorkerCovers(d)
               PROVE  JobCovers(worker.job, d)
    OBVIOUS
  <2> USE DEF SiteInv, SiteStepOfJob, JobCovers, SiteSteps, RetiringSteps, Site!ByDomain
  <2>1. CASE worker.pc = "stack" /\ (worker.job.ref = d \/ (worker.job.ref = "alias" /\ d = "primary"))
    BY <2>1
  <2>2. CASE worker.pc \in {"apply", "put"} /\ DomOf(worker.id) = d
    BY <2>2, SiteIds
  <2>3. CASE worker.pc = "runtime" /\ Site!ByDomain /\ d = "addon"
    BY <2>3
  <2>4. CASE worker.pc = "reapply" /\ d = "primary"
    BY <1>1, <2>4
  <2>5. CASE worker.pc \in {"retireDomain", "delApps", "delSites"} /\ worker.job.ref = d
    BY <2>5
  <2> QED
    BY <2>1, <2>2, <2>3, <2>4, <2>5 DEF WorkerCovers
<1>4. \A j, d : JobCovers(j, d)' <=> JobCovers(j, d)
  BY DEF JobCovers
<1>5. \A d \in {"primary", "addon"} : SiteCovered(d) => SiteCovered(d)'
  BY <1>1, <1>3, <1>4 DEF SiteCovered
<1>6. \A d \in {"primary", "addon"} : WorkerCovers(d) => SiteCovered(d)'
  BY <1>1, <1>3, <1>4 DEF SiteCovered
<1>7. \A i : SiteGoes(i) => SiteGoes(i)'
  BY <1>1 DEF SiteGoes, SiteInv, SiteStepOfJob
<1>8. ASSUME NEW i \in Site!Ids, SiteCollapses(i), worker.id # i \/ i # 1
      PROVE  SiteCovered(DomOf(i))'
  <2>1. JobCovers(worker.job, DomOf(i))
    BY <1>8, SiteIds DEF SiteInv, SiteStepOfJob, SiteSteps, SiteCollapses, JobCovers, Site!ByDomain
  <2> QED
    BY <1>1, <1>4, <2>1 DEF SiteCovered
<1>9. \A i \in Site!Ids : /\ host'.conf[i] = host.conf[i] \/ SiteCovered(DomOf(i))' \/ SiteGoes(i)'
                          /\ Site!ConfOf(rows.site[i])' = Site!ConfOf(rows.site[i])
  <2>1. \A i : worker.pc = "retireSite" /\ worker.id = i => SiteGoes(i)
    BY DEF SiteGoes
  <2> QED
    BY <1>6, <1>7, <2>1, SiteIds DEF Site!ConfOf, Site!Aliases
<1>10. FilesApplied'
  <2> SUFFICES ASSUME NEW i \in Site!Ids, rows.site[i] # Site!NoSite
               PROVE  \/ host'.conf[i] = Site!ConfOf(rows.site[i])'
                      \/ SiteCovered(DomOf(i))' \/ SiteGoes(i)'
    BY <1>1 DEF FilesApplied
  <2>1. \/ host.conf[i] = Site!ConfOf(rows.site[i]) \/ SiteCovered(DomOf(i)) \/ SiteGoes(i)
        \/ SiteCollapses(i) /\ worker.id # i
    BY <1>2 DEF FilesApplied
  <2> QED
    BY <1>5, <1>7, <1>8, <1>9, <2>1, SiteIds
<1>11. SitesCollapse'
  <2> SUFFICES ASSUME NEW i \in Site!Ids \ {1}, NEW k \in Site!Ids \ {1},
                      rows.site[i] # Site!NoSite, rows.site[k] # Site!NoSite, i # k
               PROVE  SiteCovered("addon")' \/ SiteGoes(i)' \/ SiteGoes(k)'
    BY DEF SitesCollapse
  <2>1. SiteCovered("addon") \/ SiteGoes(i) \/ SiteGoes(k) \/ SiteCollapses(i)
    BY <1>2 DEF SitesCollapse
  <2>2. DomOf(i) = "addon"
    BY SiteIds
  <2> QED
    BY <1>5, <1>7, <1>8, <2>1, <2>2
<1>12. FilesServed'
  <2>1. ReloadComes => ReloadComes'
    <3>1. ASSUME worker.pc \in {"stack", "apply", "reapply", "retireSite", "retireDomain"}
          PROVE  \/ worker.job.type \in {"website.provision", "domain.provision"}
                 \/ worker.job.type = "website.delete" /\ rows.site[worker.job.ref] # Site!NoSite
                 \/ worker.job.type = "domain.delete" /\ worker.job.ref \in rows.domain
      BY <1>1, <3>1 DEF SiteInv, SiteStepOfJob, SiteSteps, RetiringSteps, Site!ByDomain
    <3> QED
      BY <1>1, <3>1 DEF ReloadComes
  <2>2. worker.pc \in {"stack", "apply", "reapply", "retireSite", "retireDomain"} => ReloadComes
    BY DEF ReloadComes
  <2> QED
    BY <1>2, <2>1, <2>2 DEF FilesServed
<1> QED
  BY <1>10, <1>11, <1>12

LEMMA SiteEnds ==
    ASSUME SiteInv, worker.pc # "idle", worker' = [pc |-> "idle"], rows' = rows,
           UNCHANGED <<req, changes, acked, overlap, retired, redeployed>>,
           failures' \in 0..MaxFailures,
           \/ lost' = TRUE /\ jobs' = jobs
           \/ /\ lost' = lost /\ jobs' = jobs \cup {worker.job}
              /\ worker.job.attempts < MaxAttempts,
           worker.pc = "reapply" => lost' = TRUE \/ worker.job.type = "domain.provision",
           host' \in SiteHost, JournalDone',
           \A i \in Site!Ids : \/ host'.conf[i] = host.conf[i] \/ WorkerCovers(DomOf(i))
                               \/ worker.pc = "retireSite" /\ worker.id = i,
           \/ host'.conf = host.conf /\ host'.served = host.served
           \/ worker.pc \in {"stack", "apply", "reapply", "retireSite", "retireDomain"},
           \A i \in Site!Ids :
               /\ host'.conf[i] # Site!NoConf =>
                     rows.site[i] # Site!NoSite /\ host'.conf[i].dom = DomOf(i)
               /\ "unit" \in host'.app[i] => "unit" \in host.app[i]
    PROVE  SiteInv'
<1>1. SiteShapes /\ worker'.pc = "idle"
  BY SiteTyped
<1>2. lost' \in BOOLEAN /\ jobs' \subseteq jobs \cup {worker.job}
  BY <1>1 DEF SiteShapes
<1>3. SiteStepOfJob' /\ SitesRetired'
  BY <1>1 DEF SiteStepOfJob, SitesRetired
<1>4. SiteRowsNested'
  BY DEF SiteInv, SiteRowsNested
<1>5. SitesApplied'
  BY SiteEndsApplied
<1>6. \A d : ~SiteWorksOn(d)'
  BY <1>1 DEF SiteWorksOn, SiteSteps
<1>7. RuntimeKept' /\ OneUntouched'
  <2>1. "addon" \notin overlap =>
            \A i, k \in Site!Ids \ {1} :
                rows.site[i] # Site!NoSite /\ rows.site[k] # Site!NoSite => i = k
    BY DEF SiteInv, OneUntouched
  <2> QED
    BY <1>1, <1>2, <1>6, <2>1, SiteAskedKept
<1> QED
  BY <1>1, <1>2, <1>3, <1>4, <1>5, <1>7, SiteGoesOn DEF SiteShapes

LEMMA SiteRetry ==
    ASSUME SiteInv, worker.pc # "idle", Site!Retry
    PROVE  /\ worker' = [pc |-> "idle"] /\ failures' \in 0..MaxFailures
           /\ \/ lost' = TRUE /\ jobs' = jobs
              \/ /\ lost' = lost /\ jobs' = jobs \cup {worker.job}
                 /\ worker.job.attempts < MaxAttempts
<1>1. SiteShapes /\ worker.job.attempts \in 0..MaxAttempts
  BY SiteTyped, SiteRuns
<1> QED
  BY <1>1, Bounds DEF Site!Retry, Site!Fails, SiteShapes

LEMMA SiteDropped ==
    ASSUME SiteInv, NEW step, Site!Dropped(step)
    PROVE  /\ failures' \in 0..MaxFailures /\ lost' = TRUE /\ jobs' = jobs
           /\ worker' = IF step = "idle" THEN [pc |-> "idle"] ELSE [worker EXCEPT !.pc = step]
  BY SiteTyped, Bounds DEF Site!Dropped, Site!Fails, SiteShapes

\* An attempt that fails without having touched the host.
LEMMA SiteEndsAlone ==
    ASSUME SiteInv, worker.pc # "idle", worker' = [pc |-> "idle"],
           UNCHANGED <<rows, host, req, changes, acked, overlap, retired, redeployed>>,
           failures' \in 0..MaxFailures,
           \/ lost' = TRUE /\ jobs' = jobs
           \/ /\ lost' = lost /\ jobs' = jobs \cup {worker.job}
              /\ worker.job.attempts < MaxAttempts,
           worker.pc = "reapply" => lost' = TRUE \/ worker.job.type = "domain.provision"
    PROVE  SiteInv'
<1>1. host' \in SiteHost
  BY SiteTyped DEF SiteShapes
<1>2. JournalDone'
  BY DEF SiteInv, JournalDone
<1>3. \A i \in Site!Ids : host.conf[i] # Site!NoConf =>
                     rows.site[i] # Site!NoSite /\ host.conf[i].dom = DomOf(i)
  BY DEF SiteInv, SiteRowsNested
<1> QED
  BY <1>1, <1>2, <1>3, SiteEnds

LEMMA SiteCrash == SiteInv /\ Site!Crash => SiteInv'
<1> SUFFICES ASSUME SiteInv, Site!Crash PROVE SiteInv'
  OBVIOUS
<1>1. /\ worker.pc # "idle"
      /\ UNCHANGED <<rows, host, req, changes, acked, overlap, retired, redeployed>>
  BY DEF Site!Crash, Site!NoRequest
<1>2. CASE worker.pc = "reapply" /\ worker.job.type = "domain.delete"
  <2>1. Site!Dropped("idle")
    BY <1>2 DEF Site!Crash
  <2>2. worker' = [pc |-> "idle"] /\ failures' \in 0..MaxFailures /\ lost' = TRUE /\ jobs' = jobs
    BY <2>1, SiteDropped
  <2> QED
    BY <1>1, <2>2, SiteEndsAlone
<1>3. CASE ~(worker.pc = "reapply" /\ worker.job.type = "domain.delete")
  <2>1. Site!Retry
    BY <1>3 DEF Site!Crash
  <2>2. worker.pc = "reapply" => worker.job.type = "domain.provision"
    BY <1>3 DEF SiteInv, SiteStepOfJob
  <2> QED
    BY <1>1, <2>1, <2>2, SiteRetry, SiteEndsAlone
<1> QED
  BY <1>2, <1>3

-----------------------------------------------------------------------------
\* What an attempt begins with, and a job that has nothing to do.
SiteStarts(j) ==
    \/ /\ j.type = "website.provision" /\ worker'.pc = "apply" /\ worker'.id = j.ref
       /\ rows.site[j.ref] # Site!NoSite /\ worker'.copy = rows.site[j.ref]
    \/ /\ j.type = "website.delete" /\ worker'.pc = "retireSite" /\ worker'.id = j.ref
       /\ rows.site[j.ref] # Site!NoSite
    \/ j.type = "domain.provision" /\ worker'.pc = "stack" /\ j.ref \in rows.domain
    \/ /\ j.type = "domain.delete" /\ worker'.pc = "retireDomain" /\ j.ref \in rows.domain
       /\ worker'.id = {i \in Site!Ids : rows.site[i].dom = j.ref}
    \/ /\ j.type = "application.deploy" /\ worker'.pc = "deploy" /\ worker'.id = j.ref
       /\ rows.app[j.ref] # "none"
    \/ j.type = "application.retire" /\ worker'.pc = "retire" /\ worker'.id = j.ref
SiteIdles(j) ==
    \/ j.type = "website.delete" /\ rows.site[j.ref] = Site!NoSite
    \/ j.type = "domain.delete" /\ j.ref \notin rows.domain
    \/ j.type = "application.retire"

LEMMA SiteClaims ==
    ASSUME SiteInv, Site!Claim
    PROVE  /\ worker.pc = "idle"
           /\ UNCHANGED <<rows, host, req, changes, acked, failures, retired, redeployed>>
           /\ \E j \in jobs :
                 /\ jobs' = jobs \ {j}
                 /\ overlap' = overlap \cup
                       (IF req.kind \in {"put", "delete"} /\ Site!Works(j, req.dom)
                        THEN {req.dom} ELSE {})
                 /\ \/ worker' = worker /\ lost' = TRUE
                    \/ worker' = worker /\ lost' = lost /\ SiteIdles(j)
                    \/ /\ lost' = lost /\ worker' \in SiteRunning /\ SiteStarts(j)
                       /\ worker'.job = [j EXCEPT !.attempts = @ + 1]
<1> DEFINE Start(step, job, id, copy) ==
               worker' = [pc |-> step, job |-> job, id |-> id, copy |-> copy] /\ lost' = lost
           Missing == lost' = TRUE /\ worker' = worker
           Nothing == lost' = lost /\ worker' = worker
           Begins(j, job) ==
               CASE j.type = "website.provision" ->
                      IF rows.site[j.ref] = Site!NoSite THEN Missing
                      ELSE Start("apply", job, j.ref, rows.site[j.ref])
                 [] j.type = "website.delete" ->
                      IF rows.site[j.ref] = Site!NoSite THEN Nothing
                      ELSE Start("retireSite", job, j.ref, rows.site[j.ref])
                 [] j.type = "domain.provision" ->
                      IF j.ref \notin rows.domain THEN Missing
                      ELSE Start("stack", job, 0, Site!NoSite)
                 [] j.type = "domain.delete" ->
                      IF j.ref \notin rows.domain THEN Nothing
                      ELSE Start("retireDomain", job, Site!SitesOf(j.ref), Site!NoSite)
                 [] j.type = "application.deploy" ->
                      IF rows.app[j.ref] = "none" THEN Missing
                      ELSE Start("deploy", job, j.ref, Site!NoSite)
                 [] j.type = "application.retire" ->
                      IF rows.app[j.ref] = "none" THEN Nothing
                      ELSE Start("retire", job, j.ref, Site!NoSite)
<1>1. /\ worker.pc = "idle"
      /\ UNCHANGED <<rows, host, req, changes, acked, failures, retired, redeployed>>
  BY DEF Site!Claim
<1>2. PICK j \in jobs :
         /\ jobs' = jobs \ {j}
         /\ Begins(j, [j EXCEPT !.attempts = @ + 1])
         /\ overlap' = overlap \cup
                (IF req.kind \in {"put", "delete"} /\ Site!Works(j, req.dom)
                 THEN {req.dom} ELSE {})
  BY Zenon DEF Site!Claim
<1>3. /\ j \in SiteJob /\ j.attempts < MaxAttempts /\ JobNames(j)
      /\ rows \in SiteRow
  BY SiteTyped DEF SiteInv, SiteJobs, SiteShapes
<1>4. PICK job \in SiteJob : job = [j EXCEPT !.attempts = @ + 1]
  <2>1. j.attempts \in 0..MaxAttempts
    BY <1>3 DEF SiteJob
  <2>2. PICK a \in 0..MaxAttempts : a = j.attempts + 1
    BY <1>3, <2>1, Bounds
  <2>3. [j EXCEPT !.attempts = a] \in SiteJob
    BY <1>3 DEF SiteJob
  <2> QED
    BY <2>2, <2>3, Zenon
<1>5. Begins(j, job)
  BY <1>2, <1>4, Zenon
<1>6. \A step \in Site!Steps \ {"idle"}, id \in Site!Ids \cup {0} \cup SUBSET Site!Ids,
         copy \in Site!Site \cup {Site!NoSite} :
           Start(step, job, id, copy) =>
               /\ worker' \in SiteRunning /\ worker'.pc = step /\ worker'.job = job
               /\ worker'.id = id /\ worker'.copy = copy /\ lost' = lost
  BY <1>4 DEF SiteRunning
<1>7. \/ worker' = worker /\ lost' = TRUE
      \/ worker' = worker /\ lost' = lost /\ SiteIdles(j)
      \/ lost' = lost /\ worker' \in SiteRunning /\ SiteStarts(j) /\ worker'.job = job
  <2> HIDE DEF Start
  <2>0. {"apply", "retireSite", "stack", "retireDomain", "deploy", "retire"}
            \subseteq Site!Steps \ {"idle"}
        /\ Site!NoSite \in Site!Site \cup {Site!NoSite}
    BY DEF Site!Steps
  <2>1. CASE j.type = "website.provision"
    <3>1. IF rows.site[j.ref] = Site!NoSite THEN Missing
          ELSE Start("apply", job, j.ref, rows.site[j.ref])
      BY <1>5, <2>1
    <3>2. j.ref \in Site!Ids /\ rows.site[j.ref] \in Site!Site \cup {Site!NoSite}
      BY <1>3, <2>1 DEF JobNames, SiteRow
    <3> QED
      BY <1>6, <2>0, <2>1, <3>1, <3>2 DEF SiteStarts
  <2>2. CASE j.type = "website.delete"
    <3>1. IF rows.site[j.ref] = Site!NoSite THEN Nothing
          ELSE Start("retireSite", job, j.ref, rows.site[j.ref])
      BY <1>5, <2>2
    <3>2. j.ref \in Site!Ids /\ rows.site[j.ref] \in Site!Site \cup {Site!NoSite}
      BY <1>3, <2>2 DEF JobNames, SiteRow
    <3> QED
      BY <1>6, <2>0, <2>2, <3>1, <3>2 DEF SiteStarts, SiteIdles
  <2>3. CASE j.type = "domain.provision"
    <3>1. IF j.ref \notin rows.domain THEN Missing ELSE Start("stack", job, 0, Site!NoSite)
      BY <1>5, <2>3
    <3> QED
      BY <1>6, <2>0, <2>3, <3>1 DEF SiteStarts
  <2>4. CASE j.type = "domain.delete"
    <3>1. IF j.ref \notin rows.domain THEN Nothing
          ELSE Start("retireDomain", job, Site!SitesOf(j.ref), Site!NoSite)
      BY <1>5, <2>4
    <3>2. /\ Site!SitesOf(j.ref) = {i \in Site!Ids : rows.site[i].dom = j.ref}
          /\ Site!SitesOf(j.ref) \in SUBSET Site!Ids
      BY DEF Site!SitesOf
    <3> QED
      BY <1>6, <2>0, <2>4, <3>1, <3>2 DEF SiteStarts, SiteIdles
  <2>5. CASE j.type = "application.deploy"
    <3>1. IF rows.app[j.ref] = "none" THEN Missing ELSE Start("deploy", job, j.ref, Site!NoSite)
      BY <1>5, <2>5
    <3>2. j.ref \in Site!Ids
      BY <1>3, <2>5 DEF JobNames
    <3> QED
      BY <1>6, <2>0, <2>5, <3>1, <3>2 DEF SiteStarts
  <2>6. CASE j.type = "application.retire"
    <3>1. IF rows.app[j.ref] = "none" THEN Nothing ELSE Start("retire", job, j.ref, Site!NoSite)
      BY <1>5, <2>6
    <3>2. j.ref \in Site!Ids
      BY <1>3, <2>6 DEF JobNames
    <3> QED
      BY <1>6, <2>0, <2>6, <3>1, <3>2 DEF SiteStarts, SiteIdles
  <2> QED
    BY <1>3, <2>1, <2>2, <2>3, <2>4, <2>5, <2>6 DEF SiteJob, Site!Types
<1> QED
  BY <1>1, <1>2, <1>4, <1>7, Zenon

\* A job is claimed: the files it would have brought are the attempt's to bring,
\* unless it has nothing to do.
LEMMA SiteClaimApplied ==
    ASSUME SiteInv, worker.pc = "idle", rows' = rows, host' = host, lost' = lost,
           NEW j \in jobs, jobs' = jobs \ {j}, JobNames(j),
           \/ worker' = worker /\ SiteIdles(j)
           \/ /\ SiteStarts(j) /\ worker'.job.type = j.type /\ worker'.job.ref = j.ref
    PROVE  SitesApplied'
<1> SUFFICES ASSUME ~lost PROVE FilesApplied' /\ SitesCollapse' /\ FilesServed'
  BY DEF SitesApplied
<1>1. FilesApplied /\ SitesCollapse /\ FilesServed
  BY DEF SiteInv, SitesApplied
<1>2. /\ \A d : ~WorkerCovers(d)
      /\ \A i : ~SiteCollapses(i) /\ ~(worker.pc = "retireSite" /\ worker.id = i)
  BY DEF WorkerCovers, SiteCollapses
<1>3. \A d \in {"primary", "addon"} :
          JobCovers(j, d) => \/ WorkerCovers(d)'
                             \/ \A i \in Site!Ids : DomOf(i) = d => rows.site[i] = Site!NoSite
  <2> SUFFICES ASSUME NEW d \in {"primary", "addon"}, JobCovers(j, d)
               PROVE  \/ WorkerCovers(d)'
                      \/ \A i \in Site!Ids : DomOf(i) = d => rows.site[i] = Site!NoSite
    OBVIOUS
  <2>1. CASE worker' = worker /\ SiteIdles(j)
    <3>1. d \notin rows.domain
      BY <2>1 DEF JobCovers, SiteIdles
    <3> QED
      BY <3>1, SiteRows
  <2>2. CASE SiteStarts(j) /\ worker'.job.type = j.type /\ worker'.job.ref = j.ref
    BY <2>2 DEF JobCovers, SiteStarts, WorkerCovers
  <2> QED
    BY <2>1, <2>2
<1>4. \A d \in {"primary", "addon"} :
          SiteCovered(d) => \/ SiteCovered(d)'
                            \/ \A i \in Site!Ids : DomOf(i) = d => rows.site[i] = Site!NoSite
  BY <1>2, <1>3 DEF SiteCovered
<1>5. \A i : SiteGoes(i) => SiteGoes(i)' \/ rows.site[i] = Site!NoSite
  BY <1>2 DEF SiteGoes, SiteStarts, SiteIdles
<1>6. \A i \in Site!Ids : Site!ConfOf(rows.site[i])' = Site!ConfOf(rows.site[i])
  BY DEF Site!ConfOf, Site!Aliases
<1>7. FilesApplied'
  <2>1. ASSUME NEW i \in Site!Ids, rows.site[i] # Site!NoSite
        PROVE  \/ host.conf[i] = Site!ConfOf(rows.site[i])'
               \/ SiteCovered(DomOf(i))' \/ SiteGoes(i)'
    <3>1. host.conf[i] = Site!ConfOf(rows.site[i]) \/ SiteCovered(DomOf(i)) \/ SiteGoes(i)
      BY <1>1, <1>2, <2>1 DEF FilesApplied
    <3> QED
      BY <1>4, <1>5, <1>6, <2>1, <3>1, SiteIds
  <2>2. worker'.pc # "put" /\ worker'.pc # "runtime"
    BY DEF SiteStarts
  <2> QED
    BY <2>1, <2>2 DEF FilesApplied
<1>8. SitesCollapse'
  <2> SUFFICES ASSUME NEW i \in Site!Ids \ {1}, NEW k \in Site!Ids \ {1},
                      rows.site[i] # Site!NoSite, rows.site[k] # Site!NoSite, i # k
               PROVE  SiteCovered("addon")' \/ SiteGoes(i)' \/ SiteGoes(k)'
    BY DEF SitesCollapse
  <2>1. SiteCovered("addon") \/ SiteGoes(i) \/ SiteGoes(k)
    BY <1>1, <1>2 DEF SitesCollapse
  <2>2. DomOf(i) = "addon"
    BY SiteIds
  <2> QED
    BY <1>4, <1>5, <2>1, <2>2
<1>9. FilesServed'
  BY <1>1 DEF FilesServed, ReloadComes, SiteStarts, SiteIdles
<1> QED
  BY <1>7, <1>8, <1>9

LEMMA SiteClaim == SiteInv /\ Site!Claim => SiteInv'
<1> SUFFICES ASSUME SiteInv, Site!Claim PROVE SiteInv'
  OBVIOUS
<1>1. /\ worker.pc = "idle"
      /\ UNCHANGED <<rows, host, req, changes, acked, failures, retired, redeployed>>
  BY SiteClaims
<1>2. PICK j \in jobs :
         /\ jobs' = jobs \ {j}
         /\ overlap' = overlap \cup
               (IF req.kind \in {"put", "delete"} /\ Site!Works(j, req.dom)
                THEN {req.dom} ELSE {})
         /\ \/ worker' = worker /\ lost' = TRUE
            \/ worker' = worker /\ lost' = lost /\ SiteIdles(j)
            \/ /\ lost' = lost /\ worker' \in SiteRunning /\ SiteStarts(j)
               /\ worker'.job = [j EXCEPT !.attempts = @ + 1]
  BY SiteClaims
<1>3. SiteShapes /\ j \in SiteJob /\ JobNames(j)
  BY SiteTyped DEF SiteInv, SiteJobs
<1>4. worker'.job = [j EXCEPT !.attempts = @ + 1] =>
          worker'.job.type = j.type /\ worker'.job.ref = j.ref
  BY <1>3 DEF SiteJob
<1>5. overlap \subseteq overlap' /\ overlap' \subseteq Site!Domains
  <2>1. req.kind \in {"put", "delete"} => req.dom \in Site!Domains
    BY DEF SiteInv, SiteReq, Site!NoReq, Site!Domains
  <2> QED
    BY <1>2, <1>3, <2>1 DEF SiteShapes
<1>6. SiteWorker' /\ lost' \in BOOLEAN
  BY <1>1, <1>2, <1>3 DEF SiteShapes, SiteWorker
<1>7. SiteShapes'
  BY <1>1, <1>2, <1>3, <1>5, <1>6 DEF SiteShapes
<1>8. \A k : JobNames(k) => JobNames(k)'
  BY <1>5 DEF JobNames
<1>9. SiteJobs' /\ SiteReq' /\ SiteRowsNested' /\ JournalDone'
  <2>1. SiteJobs'
    BY <1>2, <1>8 DEF SiteInv, SiteJobs
  <2>2. SiteReq' /\ JournalDone'
    BY <1>1 DEF SiteInv, SiteReq, JournalDone
  <2>3. SiteRowsNested'
    BY <1>1 DEF SiteInv, SiteRowsNested
  <2> QED
    BY <2>1, <2>2, <2>3
<1>10. SiteStepOfJob'
  <2>1. CASE worker' = worker
    BY <1>1, <2>1 DEF SiteStepOfJob
  <2>2. CASE /\ worker' \in SiteRunning /\ SiteStarts(j)
             /\ worker'.job = [j EXCEPT !.attempts = @ + 1]
    <3>1. /\ worker'.job.type = j.type /\ worker'.job.ref = j.ref /\ JobNames(worker'.job)
          /\ JobNames(worker.job)'
      BY <1>3, <1>4, <1>5, <2>2 DEF JobNames
    <3> USE DEF SiteStepOfJob, SiteSteps, RetiringSteps, Site!ByDomain
    <3>2. CASE worker'.pc = "apply"
      <4>1. /\ j.type = "website.provision" /\ worker'.id = j.ref
            /\ rows.site[j.ref] # Site!NoSite /\ worker'.copy = rows.site[j.ref]
        BY <2>2, <3>2 DEF SiteStarts
      <4>2. j.ref \in Site!Ids
        BY <1>3, <4>1 DEF JobNames
      <4>3. worker'.copy \in Site!Site /\ worker'.copy.dom = DomOf(worker'.id)
        BY <4>1, <4>2, SiteRows
      <4> QED
        BY <1>1, <3>1, <3>2, <4>1, <4>2, <4>3
    <3>3. CASE worker'.pc = "retireDomain"
      <4>1. /\ j.type = "domain.delete" /\ j.ref \in rows.domain
            /\ worker'.id = {i \in Site!Ids : rows.site[i].dom = j.ref}
        BY <2>2, <3>3 DEF SiteStarts
      <4>2. j.ref \in {"addon", "alias"}
        BY <1>3, <4>1 DEF JobNames
      <4>3. \A i \in worker'.id : i \in Site!Ids /\ DomOf(i) = j.ref
        BY <4>1, <4>2, SiteRows DEF Site!Domains
      <4>4. \A i \in worker'.id : i \in Site!Ids \ {1} /\ j.ref = "addon"
        BY <4>2, <4>3, SiteIds
      <4>5. worker'.id \subseteq Site!Ids \ {1} /\ (worker'.id # {} => j.ref = "addon")
        BY <4>4
      <4> QED
        BY <1>1, <3>1, <3>3, <4>1, <4>5
    <3>4. CASE worker'.pc \in {"retireSite", "stack", "deploy", "retire"}
      BY <1>1, <1>3, <2>2, <3>1, <3>4 DEF SiteStarts, JobNames
    <3> QED
      BY <2>2, <3>2, <3>3, <3>4 DEF SiteStarts
  <2> QED
    BY <1>2, <2>1, <2>2
<1>11. SitesRetired'
  BY <1>1, <1>2, <1>4 DEF SitesRetired, SiteStarts
<1>12. RuntimeKept'
  <2>1. Site!RuntimeLostOnlyByOverlap'
    BY <1>1, <1>5 DEF SiteInv, RuntimeKept, Site!RuntimeLostOnlyByOverlap, Site!SitesOf
  <2>2. ASSUME NEW d \in Site!Domains \ overlap', acked[d] # "any"
        PROVE  /\ \A k \in jobs' : ~SiteUndoes(k, d)
               /\ worker'.pc # "idle" => ~SiteUndoes(worker'.job, d)
    <3>1. \A k \in jobs : ~SiteUndoes(k, d)
      BY <1>5, <2>2 DEF SiteInv, RuntimeKept
    <3>2. worker'.pc # "idle" => worker'.job.type = j.type /\ worker'.job.ref = j.ref
      BY <1>1, <1>2, <1>4
    <3> QED
      BY <1>2, <3>1, <3>2 DEF SiteUndoes
  <2>3. worker'.pc \in {"apply", "put"} => worker'.copy = rows.site[worker'.id]
    BY <1>1, <1>2 DEF SiteStarts
  <2> QED
    BY <1>1, <2>1, <2>2, <2>3 DEF RuntimeKept
<1>13. OneUntouched'
  <2>1. "addon" \notin overlap' =>
            \A i, k \in Site!Ids \ {1} :
                rows.site[i] # Site!NoSite /\ rows.site[k] # Site!NoSite => i = k
    BY <1>5 DEF SiteInv, OneUntouched
  <2>2. ASSUME req.kind \in {"put", "delete"}, req.dom \notin overlap'
        PROVE  /\ ~SiteWorksOn(req.dom)'
               /\ req.id # 0 => rows.site[req.id] # Site!NoSite
               /\ req.id = 0 => \A i \in Site!Ids \ {1} : rows.site[i] = Site!NoSite
    <3>1. ~Site!Works(j, req.dom)
      BY <1>2, <2>2
    <3>2. req.dom \in {"primary", "addon"}
      BY <2>2 DEF SiteInv, SiteReq, Site!NoReq
    <3>3. CASE worker' = worker
      BY <1>1, <1>5, <2>2, <3>3 DEF SiteInv, OneUntouched, SiteWorksOn, SiteSteps
    <3>4. CASE SiteStarts(j) /\ worker'.job.type = j.type /\ worker'.job.ref = j.ref
      <4>1. SiteWorksOn(req.dom)' => Site!Works(j, req.dom)
        <5>1. j.type \in {"website.provision", "website.delete"} => j.ref \in Site!Ids
          BY <1>3 DEF JobNames
        <5>2. j.type = "website.delete" => DomOf(j.ref) = "addon"
          BY <1>3, SiteIds DEF JobNames
        <5>3. worker'.pc \in SiteSteps \cup {"retireSite"} =>
                  /\ j.type \in {"website.provision", "website.delete"} /\ worker'.id = j.ref
                  /\ rows.site[j.ref].dom = DomOf(j.ref)
          BY <3>4, <5>1, SiteRows DEF SiteStarts, SiteSteps
        <5>4. worker'.pc = "retireSite" => j.type = "website.delete"
          BY <3>4 DEF SiteStarts
        <5>5. worker'.pc = "stack" => j.type = "domain.provision"
          BY <3>4 DEF SiteStarts
        <5> QED
          BY <1>1, <3>4, <5>2, <5>3, <5>4, <5>5 DEF SiteWorksOn, Site!Works
      <4> QED
        BY <1>5, <2>2, <3>1, <4>1 DEF SiteInv, OneUntouched
    <3> QED
      BY <1>2, <1>4, <3>3, <3>4
  <2> QED
    BY <1>1, <2>1, <2>2 DEF OneUntouched
<1>14. SitesApplied'
  <2>1. CASE lost' = TRUE
    BY <2>1 DEF SitesApplied
  <2>2. CASE lost' = lost /\ (\/ worker' = worker /\ SiteIdles(j)
                              \/ SiteStarts(j) /\ worker'.job.type = j.type /\ worker'.job.ref = j.ref)
    BY <1>1, <1>2, <1>3, <2>2, SiteClaimApplied
  <2> QED
    BY <1>2, <1>4, <2>1, <2>2
<1> QED
  BY <1>7, <1>9, <1>10, <1>11, <1>12, <1>13, <1>14, SiteTyped DEF SiteInv

-----------------------------------------------------------------------------
(* Requests.                                                               *)

\* A request deletes nothing, and a row it changes has its job.
LEMMA SiteRequests ==
    ASSUME SiteInv, UNCHANGED <<host, worker, failures, retired, redeployed, lost>>,
           \/ jobs' = jobs
           \/ \E j \in SiteJob : jobs' = jobs \cup {j} /\ j.attempts = 0 /\ JobNames(j)',
           changes' \in 0..MaxChanges, rows' \in SiteRow, rows.domain \subseteq rows'.domain,
           \A i \in Site!Ids : \/ rows'.site[i] = rows.site[i]
                               \/ /\ rows'.site[i] \in Site!Site /\ rows'.site[i].dom = DomOf(i)
                                  /\ DomOf(i) \in rows'.domain
                                  /\ SiteCovered(DomOf(i))' \/ SiteGoes(i)',
           \A i \in Site!Ids :
               /\ rows.app[i] # "none" => rows'.app[i] # "none"
               /\ rows'.app[i] # "none" => rows'.site[i] # Site!NoSite,
           acked' \in [Site!Domains -> Site!Runtimes \cup {"any"}],
           overlap \subseteq overlap', overlap' \subseteq Site!Domains, SiteReq',
           RuntimeKept', OneUntouched',
           ("alias" \in rows'.domain <=> "alias" \in rows.domain) \/ SiteAliasWaits'
    PROVE  SiteInv'
<1>1. SiteShapes
  BY SiteTyped
<1>2. jobs \subseteq jobs' /\ jobs' \subseteq SiteJob
  BY <1>1 DEF SiteShapes
<1>3. SiteShapes'
  BY <1>1, <1>2 DEF SiteShapes, SiteWorker
<1>4. \A j : JobNames(j) => JobNames(j)'
  BY DEF JobNames
<1>5. SiteJobs'
  BY <1>2, <1>4, Bounds DEF SiteInv, SiteJobs
<1>6. \A i \in Site!Ids :
          /\ rows.site[i] # Site!NoSite =>
                rows'.site[i] # Site!NoSite /\ rows'.site[i].dom = rows.site[i].dom
          /\ rows'.site[i] # Site!NoSite =>
                rows'.site[i].dom = DomOf(i) /\ DomOf(i) \in rows'.domain
  <2>1. Site!NoSite \notin Site!Site
    BY SiteOrNone DEF Site!Site, Site!NoSite, Site!Domains
  <2> QED
    BY <2>1, SiteRows
<1>7. SiteStepOfJob'
  <2> SUFFICES ASSUME worker.pc # "idle" PROVE SiteStepOfJob'
    BY DEF SiteStepOfJob
  <2>1. JobNames(worker.job)'
    BY <1>4 DEF SiteInv, SiteStepOfJob
  <2> QED
    BY <1>6, <2>1, SiteRuns DEF SiteInv, SiteStepOfJob, SiteSteps, RetiringSteps, Site!ByDomain,
       JobNames
<1>8. SiteRowsNested'
  <2>1. rows'.site[1] # Site!NoSite
    BY <1>6, SiteIds DEF SiteInv, SiteRowsNested
  <2> QED
    BY <1>6, <2>1 DEF SiteInv, SiteRowsNested
<1>9. SitesRetired'
  <2>1. \A i \in Site!Ids :
            rows'.site[i] # Site!NoSite => \/ rows'.site[i].dom = rows.site[i].dom
                                           \/ SiteBare(i)
    BY <1>6, SiteRows
  <2>2. \A i \in Site!Ids : rows'.site[i] = Site!NoSite => rows.site[i] = Site!NoSite
    BY <1>6
  <2>3. \A i \in Site!Ids : rows'.site[i].dom = rows.site[i].dom \/ SiteBare(i)
    BY <2>1, <2>2
  <2>4. \A i : SiteBare(i)' <=> SiteBare(i)
    BY DEF SiteBare
  <2> QED
    BY <2>3, <2>4 DEF SiteInv, SitesRetired
<1>10. JournalDone'
  BY DEF SiteInv, JournalDone
<1>11. SitesApplied'
  <2> SUFFICES ASSUME ~lost PROVE FilesApplied' /\ SitesCollapse' /\ FilesServed'
    BY DEF SitesApplied
  <2>1. FilesApplied /\ SitesCollapse /\ FilesServed
    BY DEF SiteInv, SitesApplied
  <2>2. \A d : SiteCovered(d) => SiteCovered(d)'
    BY <1>2 DEF SiteCovered, JobCovers, WorkerCovers, Site!ByDomain
  <2>3. \A i : /\ SiteGoes(i) => SiteGoes(i)'
               /\ SiteCollapses(i) => SiteCollapses(i)'
    BY <1>2 DEF SiteGoes, SiteCollapses
  <2>4. SiteAliasWaits' => SiteCovered("primary")'
    BY DEF SiteAliasWaits, SiteCovered, JobCovers
  <2>5. SiteAliasWaits => SiteAliasWaits'
    BY <1>2 DEF SiteAliasWaits
  <2>6. \A s \in Site!Site : Site!ConfOf(s)' = Site!ConfOf(s)
                             \/ (s.dom = "primary" /\ SiteAliasWaits')
    BY DEF Site!ConfOf, Site!Aliases
  <2>7. FilesApplied'
    <3>1. ASSUME NEW i \in Site!Ids, rows'.site[i] # Site!NoSite
          PROVE  \/ host.conf[i] = Site!ConfOf(rows.site[i])'
                 \/ SiteCovered(DomOf(i))' \/ SiteGoes(i)'
                 \/ SiteCollapses(i)' /\ worker.id # i
      <4>1. CASE rows'.site[i] = rows.site[i]
        <5>1. \/ host.conf[i] = Site!ConfOf(rows.site[i]) \/ SiteCovered(DomOf(i)) \/ SiteGoes(i)
              \/ SiteCollapses(i) /\ worker.id # i
          BY <2>1, <3>1, <4>1 DEF FilesApplied
        <5>2. rows.site[i] \in Site!Site /\ rows.site[i].dom = DomOf(i)
          BY <3>1, <4>1, SiteRows
        <5>3. PICK s \in Site!Site : s = rows.site[i]
          BY <5>2
        <5>4. Site!ConfOf(rows.site[i])' = Site!ConfOf(s)' /\ Site!ConfOf(rows.site[i]) = Site!ConfOf(s)
          BY <4>1, <5>3 DEF Site!ConfOf, Site!Aliases
        <5> QED
          BY <2>2, <2>3, <2>4, <2>6, <5>1, <5>2, <5>3, <5>4
      <4>2. CASE rows'.site[i] # rows.site[i]
        BY <4>2
      <4> QED
        BY <4>1, <4>2
    <3>2. ASSUME worker.pc = "put" \/ (worker.pc = "runtime" /\ Site!ByDomain)
          PROVE  \/ host.conf[worker.id] = Site!ConfOf(worker.copy)'
                 \/ worker.id = 1 /\ SiteAliasWaits'
      <4>1. \/ host.conf[worker.id] = Site!ConfOf(worker.copy)
            \/ worker.id = 1 /\ SiteAliasWaits
        BY <2>1, <3>2 DEF FilesApplied
      <4>2. worker.copy \in Site!Site /\ worker.copy.dom = DomOf(worker.id)
        BY <3>2 DEF SiteInv, SiteStepOfJob, SiteSteps
      <4>3. Site!ConfOf(worker.copy)' = Site!ConfOf(worker.copy)
            \/ (worker.id = 1 /\ SiteAliasWaits')
        BY <4>2, SiteIds DEF Site!ConfOf, Site!Aliases
      <4> QED
        BY <2>5, <4>1, <4>3
    <3>3. Site!ByDomain' <=> Site!ByDomain
      BY DEF Site!ByDomain
    <3> QED
      BY <3>1, <3>2, <3>3 DEF FilesApplied
  <2>8. SitesCollapse'
    <3> SUFFICES ASSUME NEW i \in Site!Ids \ {1}, NEW k \in Site!Ids \ {1},
                        rows'.site[i] # Site!NoSite, rows'.site[k] # Site!NoSite, i # k
                 PROVE  SiteCovered("addon")' \/ SiteGoes(i)' \/ SiteGoes(k)' \/ SiteCollapses(i)'
      BY DEF SitesCollapse
    <3>1. DomOf(i) = "addon" /\ DomOf(k) = "addon"
      BY SiteIds
    <3>2. CASE rows'.site[i] = rows.site[i] /\ rows'.site[k] = rows.site[k]
      BY <2>1, <2>2, <2>3, <3>2 DEF SitesCollapse
    <3> QED
      BY <3>1, <3>2
  <2>9. FilesServed'
    <3>1. \A j \in jobs : j.type = "website.delete" => j.ref \in Site!Ids
      BY DEF SiteInv, SiteJobs, JobNames
    <3>2. ReloadComes => ReloadComes'
      BY <1>2, <1>6, <3>1 DEF ReloadComes
    <3> QED
      BY <2>1, <3>2 DEF FilesServed
  <2> QED
    BY <2>7, <2>8, <2>9
<1> QED
  BY <1>3, <1>5, <1>7, <1>8, <1>9, <1>10, <1>11, SiteTyped DEF SiteInv

\* A job that is not at work on a domain, and none that waits, undoes nothing.
LEMMA SiteNotBusy ==
    ASSUME SiteInv, NEW d \in {"primary", "addon"}, ~Site!Busy(d)
    PROVE  /\ ~SiteWorksOn(d)
           /\ \A j \in jobs : ~SiteUndoes(j, d)
           /\ worker.pc # "idle" => ~SiteUndoes(worker.job, d)
<1>1. ASSUME NEW j, JobNames(j), SiteUndoes(j, d)
      PROVE  Site!Works(j, d) /\ j.type # "website.provision"
  <2>1. CASE j.type = "website.delete" /\ d = "addon"
    <3>1. j.ref \in Site!Ids /\ DomOf(j.ref) = "addon"
      BY <1>1, <2>1, SiteIds DEF JobNames
    <3>2. rows.site[j.ref].dom \in {"addon", "none"}
      BY <3>1, SiteRows
    <3> QED
      BY <2>1, <3>2 DEF Site!Works
  <2> QED
    BY <1>1, <2>1 DEF SiteUndoes, Site!Works
<1>2. \A j \in jobs : ~SiteUndoes(j, d)
  BY <1>1 DEF SiteInv, SiteJobs, Site!Busy
<1>3. worker.pc # "idle" => ~SiteUndoes(worker.job, d)
  BY <1>1 DEF SiteInv, SiteStepOfJob, Site!Busy
<1>4. ~SiteWorksOn(d)
  <2> SUFFICES ASSUME SiteWorksOn(d) PROVE FALSE
    OBVIOUS
  <2>1. worker.pc # "idle" /\ ~Site!Works(worker.job, d)
    BY DEF SiteWorksOn, SiteSteps, Site!Busy
  <2>2. CASE worker.pc = "stack" /\ worker.job.ref = d
    BY <2>1, <2>2 DEF SiteInv, SiteStepOfJob, Site!ByDomain, Site!Works
  <2>3. CASE worker.pc \in SiteSteps /\ DomOf(worker.id) = d
    <3>1. worker.id \in Site!Ids /\ rows.site[worker.id].dom = d
      BY <2>1, <2>3, SiteRows DEF SiteInv, SiteStepOfJob
    <3> QED
      BY <2>1, <2>3, <3>1, SiteIds DEF SiteInv, SiteStepOfJob, Site!ByDomain, Site!Works
  <2>4. CASE worker.pc = "retireSite" /\ d = "addon"
    <3>1. /\ worker.job.type = "website.delete" /\ worker.job.ref \in Site!Ids \ {1}
          /\ rows.site[worker.job.ref] # Site!NoSite
      BY <2>1, <2>4, SiteRuns DEF SiteInv, SiteStepOfJob, JobNames
    <3>2. rows.site[worker.job.ref].dom = "addon"
      BY <3>1, SiteRows, SiteIds
    <3> QED
      BY <2>1, <2>4, <3>1, <3>2 DEF Site!Works
  <2> QED
    BY <2>2, <2>3, <2>4 DEF SiteWorksOn
<1> QED
  BY <1>2, <1>3, <1>4

LEMMA SiteTouched ==
    ASSUME SiteInv, NEW d \in {"primary", "addon"}, overlap' = Site!Touched(d)
    PROVE  /\ overlap \subseteq overlap' /\ overlap' \subseteq Site!Domains
           /\ d \notin overlap' => ~Site!Busy(d)
<1>1. overlap \subseteq Site!Domains
  BY SiteTyped DEF SiteShapes
<1> QED
  BY <1>1 DEF Site!Touched, Site!Domains

\* A request that writes no site.
LEMMA SiteAskedAlone ==
    ASSUME SiteInv, worker' = worker, rows'.site = rows.site, overlap \subseteq overlap',
           \A d \in Site!Domains \ overlap' : acked'[d] \in {acked[d], "any"},
           \A j \in jobs' : \/ j \in jobs
                            \/ \A d \in Site!Domains \ overlap' :
                                  acked[d] # "any" => ~SiteUndoes(j, d),
           \/ req' = req
           \/ req'.kind \notin {"put", "delete"}
           \/ req'.dom \in overlap'
           \/ /\ ~SiteWorksOn(req'.dom)
              /\ req'.id # 0 => rows.site[req'.id] # Site!NoSite
              /\ req'.id = 0 => \A i \in Site!Ids \ {1} : rows.site[i] = Site!NoSite
    PROVE  RuntimeKept' /\ OneUntouched'
<1>1. Site!RuntimeLostOnlyByOverlap'
  BY DEF SiteInv, RuntimeKept, Site!RuntimeLostOnlyByOverlap, Site!SitesOf
<1>2. ASSUME NEW d \in Site!Domains \ overlap', acked'[d] # "any"
      PROVE  /\ \A j \in jobs' : ~SiteUndoes(j, d)
             /\ worker.pc # "idle" => ~SiteUndoes(worker.job, d)
  <2>1. /\ \A j \in jobs : ~SiteUndoes(j, d)
        /\ worker.pc # "idle" => ~SiteUndoes(worker.job, d)
    BY <1>2 DEF SiteInv, RuntimeKept
  <2> QED
    BY <1>2, <2>1
<1>3. worker.pc \in {"apply", "put"} /\ DomOf(worker.id) \notin overlap' /\ ~Site!ByDomain' =>
          worker.copy = rows.site[worker.id]
  BY DEF SiteInv, RuntimeKept, Site!ByDomain
<1>4. RuntimeKept'
  BY <1>1, <1>2, <1>3 DEF RuntimeKept
<1>5. \A d : SiteWorksOn(d)' <=> SiteWorksOn(d)
  BY DEF SiteWorksOn
<1>6. ASSUME req'.kind \in {"put", "delete"}, req'.dom \notin overlap'
      PROVE  /\ ~SiteWorksOn(req.dom)'
             /\ req'.id # 0 => rows.site[req'.id] # Site!NoSite
             /\ req'.id = 0 => \A i \in Site!Ids \ {1} : rows.site[i] = Site!NoSite
  <2>1. CASE req' = req
    <3>1. /\ ~SiteWorksOn(req.dom)
          /\ req.id # 0 => rows.site[req.id] # Site!NoSite
          /\ req.id = 0 => \A i \in Site!Ids \ {1} : rows.site[i] = Site!NoSite
      BY <1>6, <2>1 DEF SiteInv, OneUntouched
    <3>2. ~SiteWorksOn(req.dom)'
      BY <2>1, <3>1 DEF SiteWorksOn
    <3> QED
      BY <2>1, <3>1, <3>2
  <2>2. CASE /\ ~SiteWorksOn(req'.dom)
             /\ req'.id # 0 => rows.site[req'.id] # Site!NoSite
             /\ req'.id = 0 => \A i \in Site!Ids \ {1} : rows.site[i] = Site!NoSite
    <3>1. ~SiteWorksOn(req.dom)'
      BY <2>2 DEF SiteWorksOn
    <3> QED
      BY <2>2, <3>1
  <2> QED
    BY <1>6, <2>1, <2>2
<1>7. OneUntouched'
  BY <1>6 DEF SiteInv, OneUntouched
<1> QED
  BY <1>4, <1>7

LEMMA SiteEnqueue ==
    ASSUME SiteInv, NEW type \in Site!Types, NEW ref \in Site!Ids \cup Site!Domains,
           NEW runtime \in Site!Runtimes \cup {"none"}, Site!Enqueue(Site!Job(type, ref, runtime))
    PROVE  /\ changes \in Nat /\ changes < MaxChanges /\ changes' \in 0..MaxChanges
           /\ \E j \in SiteJob : /\ jobs' = jobs \cup {j} /\ j.type = type /\ j.ref = ref
                                 /\ j.attempts = 0
<1>1. changes \in 0..MaxChanges /\ changes < MaxChanges /\ changes' = changes + 1
  BY SiteTyped DEF SiteShapes, Site!Enqueue
<1>2. changes + 1 \in 1..MaxChanges /\ changes \in Nat /\ 0 \in 0..MaxAttempts
  BY <1>1, Bounds
<1>3. PICK n \in 1..MaxChanges : n = changes + 1
  BY <1>2
<1> DEFINE j == [n |-> n, type |-> type, ref |-> ref, runtime |-> runtime, attempts |-> 0]
<1>4. jobs' = jobs \cup {j}
  BY <1>3 DEF Site!Enqueue, Site!Job
<1>5. j \in SiteJob /\ j.type = type /\ j.ref = ref /\ j.attempts = 0
  BY <1>2 DEF SiteJob
<1> HIDE DEF j
<1> QED
  BY <1>1, <1>2, <1>3, <1>4, <1>5

LEMMA SiteAddDomain ==
    ASSUME SiteInv, NEW d \in {"addon", "alias"}, NEW r \in Site!Runtimes \cup {"none"},
           Site!AddDomain(d, r)
    PROVE  SiteInv'
<1>1. /\ d \notin rows.domain /\ d \notin overlap
      /\ Site!Enqueue(Site!Job("domain.provision", d, r))
      /\ rows' = [rows EXCEPT !.domain = @ \cup {d}]
      /\ UNCHANGED <<req, acked, overlap>>
      /\ UNCHANGED <<host, worker, failures, retired, redeployed, lost>>
  BY DEF Site!AddDomain, Site!Host
<1>2. SiteShapes /\ d \in Site!Domains
  BY SiteTyped DEF Site!Domains
<1>3. PICK j \in SiteJob : /\ jobs' = jobs \cup {j} /\ j.type = "domain.provision" /\ j.ref = d
                           /\ j.attempts = 0 /\ changes' \in 0..MaxChanges
  <2>1. "domain.provision" \in Site!Types
    BY DEF Site!Types
  <2> QED
    BY <1>1, <1>2, <2>1, SiteEnqueue
<1>4. /\ rows' \in SiteRow /\ rows'.site = rows.site /\ rows'.app = rows.app
      /\ rows'.domain = rows.domain \cup {d}
  BY <1>1, <1>2 DEF SiteShapes, SiteRow
<1>5. JobNames(j)' /\ (d = "alias" => SiteAliasWaits')
  BY <1>3 DEF JobNames, SiteAliasWaits
<1>6. SiteReq'
  BY <1>1 DEF SiteInv, SiteReq
<1>7. RuntimeKept' /\ OneUntouched'
  <2>1. \A i \in Site!Ids : rows.site[i].dom # d
    BY <1>1, <1>2, SiteRows
  <2>2. acked[d] = "any"
    BY <1>1, <1>2, <2>1 DEF SiteInv, RuntimeKept, Site!RuntimeLostOnlyByOverlap, Site!SitesOf
  <2>3. \A e : SiteUndoes(j, e) => e = d
    BY <1>3 DEF SiteUndoes
  <2>4. \A k \in jobs' : k \in jobs \/ \A e \in Site!Domains \ overlap' :
                                          acked[e] # "any" => ~SiteUndoes(k, e)
    BY <1>3, <2>2, <2>3
  <2> QED
    BY <1>1, <1>4, <2>4, SiteAskedAlone
<1>8. \A i \in Site!Ids : rows.app[i] # "none" => rows.site[i] # Site!NoSite
  BY DEF SiteInv, SiteRowsNested
<1> QED
  BY <1>1, <1>2, <1>3, <1>4, <1>5, <1>6, <1>7, <1>8, SiteRequests DEF SiteShapes

LEMMA SiteRequestDelete ==
    ASSUME SiteInv, NEW d \in {"addon", "alias"}, Site!RequestDelete(d) PROVE SiteInv'
<1>1. /\ Site!Enqueue(Site!Job("domain.delete", d, "none"))
      /\ acked' = [acked EXCEPT ![d] = "any"] /\ overlap' = overlap \cup {d}
      /\ UNCHANGED <<rows, req>>
      /\ UNCHANGED <<host, worker, failures, retired, redeployed, lost>>
  BY DEF Site!RequestDelete, Site!Host
<1>2. SiteShapes /\ d \in Site!Domains
  BY SiteTyped DEF Site!Domains
<1>3. PICK j \in SiteJob : /\ jobs' = jobs \cup {j} /\ j.type = "domain.delete" /\ j.ref = d
                           /\ j.attempts = 0 /\ changes' \in 0..MaxChanges
  <2>1. "domain.delete" \in Site!Types
    BY DEF Site!Types
  <2> QED
    BY <1>1, <1>2, <2>1, SiteEnqueue
<1>4. JobNames(j)' /\ SiteReq'
  BY <1>1, <1>3 DEF JobNames, SiteInv, SiteReq
<1>5. /\ acked' \in [Site!Domains -> Site!Runtimes \cup {"any"}]
      /\ \A e \in Site!Domains : e # d => acked'[e] = acked[e]
      /\ overlap \subseteq overlap' /\ overlap' \subseteq Site!Domains
  BY <1>1, <1>2 DEF SiteShapes
<1>6. RuntimeKept' /\ OneUntouched'
  <2>1. \A e : SiteUndoes(j, e) => e = d
    BY <1>3 DEF SiteUndoes
  <2>2. \A k \in jobs' : k \in jobs \/ \A e \in Site!Domains \ overlap' :
                                          acked[e] # "any" => ~SiteUndoes(k, e)
    BY <1>1, <1>3, <2>1
  <2>3. \A e \in Site!Domains \ overlap' : acked'[e] \in {acked[e], "any"}
    BY <1>1, <1>5
  <2> QED
    BY <1>1, <1>5, <2>2, <2>3, SiteAskedAlone
<1>7. \A i \in Site!Ids : rows.app[i] # "none" => rows.site[i] # Site!NoSite
  BY DEF SiteInv, SiteRowsNested
<1> QED
  BY <1>1, <1>2, <1>3, <1>4, <1>5, <1>6, <1>7, SiteRequests DEF SiteShapes

\* A request has read its rows.
LEMMA SiteReads ==
    ASSUME SiteInv, NEW d \in {"primary", "addon"}, overlap' = Site!Touched(d),
           UNCHANGED <<rows, jobs, changes, acked>>,
           UNCHANGED <<host, worker, failures, retired, redeployed, lost>>,
           SiteReq', req'.dom = d, req'.kind \in {"put", "delete"},
           req'.id # 0 => rows.site[req'.id] # Site!NoSite,
           req'.id = 0 => \A i \in Site!Ids \ {1} : rows.site[i] = Site!NoSite
    PROVE  SiteInv'
<1>1. SiteShapes
  BY SiteTyped
<1>2. /\ overlap \subseteq overlap' /\ overlap' \subseteq Site!Domains
      /\ d \notin overlap' => ~SiteWorksOn(d)
  BY SiteTouched, SiteNotBusy
<1>3. RuntimeKept' /\ OneUntouched'
  BY <1>2, SiteAskedAlone
<1>4. \A i \in Site!Ids : rows.app[i] # "none" => rows.site[i] # Site!NoSite
  BY DEF SiteInv, SiteRowsNested
<1> QED
  BY <1>1, <1>2, <1>3, <1>4, SiteRequests DEF SiteShapes

LEMMA SiteReadSites ==
    ASSUME SiteInv, NEW d \in {"primary", "addon"}, NEW r \in Site!Runtimes,
           Site!ReadSites(d, r)
    PROVE  SiteInv'
<1>1. /\ overlap' = Site!Touched(d) /\ UNCHANGED <<rows, jobs, changes, acked>>
      /\ UNCHANGED <<host, worker, failures, retired, redeployed, lost>>
  BY DEF Site!ReadSites, Site!Host
<1>2. CASE /\ Site!SitesOf(d) = {}
           /\ req' = [kind |-> "put", id |-> 0, dom |-> d, runtime |-> r]
  <2>1. \A i \in Site!Ids : rows.site[i].dom # d
    BY <1>2 DEF Site!SitesOf
  <2>2. d = "addon"
    BY <2>1, SiteRows, SiteIds
  <2>3. \A i \in Site!Ids \ {1} : rows.site[i] = Site!NoSite
    BY <2>1, <2>2, SiteRows, SiteIds
  <2>4. SiteReq' /\ req'.dom = d /\ req'.kind = "put" /\ req'.id = 0
    BY <1>2, <2>2 DEF SiteReq
  <2> QED
    BY <1>1, <2>3, <2>4, SiteReads
<1>3. CASE \E i \in Site!SitesOf(d) :
             req' = [kind |-> "put", id |-> i, dom |-> d, runtime |-> r]
  <2>1. PICK i \in Site!Ids : /\ rows.site[i].dom = d
                              /\ req' = [kind |-> "put", id |-> i, dom |-> d, runtime |-> r]
    BY <1>3 DEF Site!SitesOf
  <2>2. rows.site[i] # Site!NoSite /\ DomOf(i) = d
    BY <2>1, SiteRows DEF Site!Domains
  <2>3. i # 0
    BY SiteIds
  <2>4. SiteReq' /\ req'.dom = d /\ req'.kind = "put" /\ req'.id = i
    BY <2>1, <2>2, <2>3 DEF SiteReq
  <2> QED
    BY <1>1, <2>2, <2>3, <2>4, SiteReads
<1> QED
  BY <1>2, <1>3 DEF Site!ReadSites

LEMMA SiteReadSite == ASSUME SiteInv, NEW i \in Site!Ids, Site!ReadSite(i) PROVE SiteInv'
<1>1. /\ overlap' = Site!Touched("addon") /\ UNCHANGED <<rows, jobs, changes, acked>>
      /\ UNCHANGED <<host, worker, failures, retired, redeployed, lost>>
      /\ rows.site[i].dom = "addon"
      /\ req' = [kind |-> "delete", id |-> i, dom |-> "addon", runtime |-> rows.site[i].runtime]
  BY DEF Site!ReadSite, Site!Host
<1>2. rows.site[i] # Site!NoSite /\ DomOf(i) = "addon" /\ rows.site[i] \in Site!Site
  BY <1>1, SiteRows DEF Site!Domains
<1>3. i # 1 /\ i # 0 /\ rows.site[i].runtime \in Site!Runtimes
  BY <1>2, SiteIds DEF Site!Site
<1>4. SiteReq' /\ req'.dom = "addon" /\ req'.kind = "delete" /\ req'.id = i
  BY <1>1, <1>3 DEF SiteReq
<1> QED
  BY <1>1, <1>2, <1>3, <1>4, SiteReads

\* A request writes the whole row of a site, with its job.
LEMMA SiteWrites ==
    ASSUME SiteInv, NEW id \in Site!Ids, NEW r \in Site!Runtimes,
           NEW ack \in {r, "any"}, NEW j \in SiteJob,
           req.kind \in {"put", "delete"}, req.dom \in rows.domain, DomOf(id) = req.dom,
           req.id # 0 => id = req.id,
           rows' = [rows EXCEPT !.site[id] = [dom |-> req.dom, runtime |-> r]],
           req' = Site!NoReq, overlap' = Site!Touched(req.dom),
           acked' = [acked EXCEPT ![req.dom] = ack],
           jobs' = jobs \cup {j}, j.attempts = 0, j.ref = id, changes' \in 0..MaxChanges,
           \/ j.type = "website.provision"
           \/ j.type = "website.delete" /\ id # 1 /\ ack = "any",
           UNCHANGED <<host, worker, failures, retired, redeployed, lost>>
    PROVE  SiteInv'
<1> DEFINE d == req.dom
           new == [dom |-> d, runtime |-> r]
<1>1. SiteShapes /\ rows \in SiteRow
  BY SiteTyped DEF SiteShapes
<1>2. d \in {"primary", "addon"} /\ d \in Site!Domains
  BY DEF SiteInv, SiteReq, Site!NoReq, Site!Domains
<1>3. new \in Site!Site /\ new.dom = d /\ new.runtime = r /\ new # Site!NoSite
  BY <1>2 DEF Site!Site, Site!NoSite, Site!Domains
<1>4. rows' = [rows EXCEPT !.site = [rows.site EXCEPT ![id] = new]]
  BY <1>1 DEF SiteRow
<1> HIDE DEF new
<1>5. /\ rows' \in SiteRow /\ rows'.domain = rows.domain /\ rows'.app = rows.app
      /\ rows'.site[id] = new
      /\ \A i \in Site!Ids : i # id => rows'.site[i] = rows.site[i]
  BY <1>1, <1>3, <1>4 DEF SiteRow
<1>6. /\ overlap \subseteq overlap' /\ overlap' \subseteq Site!Domains
      /\ d \notin overlap' => ~Site!Busy(d)
  BY <1>2, SiteTouched
<1>7. /\ acked' \in [Site!Domains -> Site!Runtimes \cup {"any"}] /\ acked'[d] = ack
      /\ \A e \in Site!Domains : e # d => acked'[e] = acked[e]
  BY <1>1, <1>2 DEF SiteShapes
<1> HIDE DEF d
<1>8. SiteReq' /\ JobNames(j)' /\ req'.kind = "none"
  BY DEF SiteReq, JobNames, Site!NoReq
<1>9. RuntimeKept'
  <2>1. Site!RuntimeLostOnlyByOverlap'
    <3> SUFFICES ASSUME NEW e \in Site!Domains \ overlap', acked'[e] # "any"
                 PROVE  \E i \in Site!Ids : rows'.site[i].dom = e /\ rows'.site[i].runtime = acked'[e]
      BY DEF Site!RuntimeLostOnlyByOverlap, Site!SitesOf
    <3>1. CASE e = d
      BY <1>3, <1>5, <1>7, <3>1
    <3>2. CASE e # d
      <4>1. PICK i \in Site!Ids : rows.site[i].dom = e /\ rows.site[i].runtime = acked[e]
        BY <1>6, <1>7, <3>2 DEF SiteInv, RuntimeKept, Site!RuntimeLostOnlyByOverlap, Site!SitesOf
      <4>2. DomOf(i) = e
        BY <4>1, SiteRows
      <4>3. i # id
        BY <3>2, <4>2 DEF d
      <4> QED
        BY <1>5, <1>7, <3>2, <4>1, <4>3
    <3> QED
      BY <3>1, <3>2
  <2>2. ASSUME NEW e \in Site!Domains \ overlap', acked'[e] # "any"
        PROVE  /\ \A k \in jobs' : ~SiteUndoes(k, e)
               /\ worker.pc # "idle" => ~SiteUndoes(worker.job, e)
    <3>1. /\ \A k \in jobs : ~SiteUndoes(k, e)
          /\ worker.pc # "idle" => ~SiteUndoes(worker.job, e)
      <4>1. CASE e = d
        BY <1>2, <1>6, <2>2, <4>1, SiteNotBusy
      <4>2. CASE e # d
        BY <1>6, <1>7, <2>2, <4>2 DEF SiteInv, RuntimeKept
      <4> QED
        BY <4>1, <4>2
    <3>2. ~SiteUndoes(j, e)
      <4>1. j.type = "website.delete" => d = "addon" /\ acked'[d] = "any"
        BY <1>7, SiteIds DEF d
      <4> QED
        BY <2>2, <4>1 DEF SiteUndoes
    <3> QED
      BY <3>1, <3>2
  <2>3. ASSUME worker.pc \in {"apply", "put"}, DomOf(worker.id) \notin overlap', ~Site!ByDomain'
        PROVE  worker.copy = rows'.site[worker.id]
    <3>1. worker.copy = rows.site[worker.id] /\ worker.id \in Site!Ids
      BY <1>6, <2>3 DEF SiteInv, RuntimeKept, SiteStepOfJob, SiteSteps, Site!ByDomain
    <3>2. DomOf(worker.id) # d
      <4>1. SiteWorksOn(DomOf(worker.id))
        BY <2>3 DEF SiteWorksOn, SiteSteps
      <4> QED
        BY <1>6, <2>3, <4>1 DEF SiteInv, OneUntouched, d
    <3> QED
      BY <1>5, <3>1, <3>2 DEF d
  <2> QED
    BY <2>1, <2>2, <2>3 DEF RuntimeKept
<1>10. OneUntouched'
  <2> SUFFICES ASSUME "addon" \notin overlap', NEW i \in Site!Ids \ {1}, NEW k \in Site!Ids \ {1},
                      rows'.site[i] # Site!NoSite, rows'.site[k] # Site!NoSite
               PROVE  i = k
    BY <1>8 DEF OneUntouched
  <2>1. rows.site[i] # Site!NoSite /\ rows.site[k] # Site!NoSite => i = k
    BY <1>6 DEF SiteInv, OneUntouched
  <2>2. CASE d = "addon"
    <3>1. /\ req.id # 0 => rows.site[id] # Site!NoSite
          /\ req.id = 0 => \A n \in Site!Ids \ {1} : rows.site[n] = Site!NoSite
      BY <1>6, <2>2 DEF SiteInv, OneUntouched, d
    <3> QED
      BY <1>5, <2>1, <3>1
  <2>3. CASE d # "addon"
    <3>1. id = 1
      BY <1>2, <2>3, SiteIds DEF d
    <3> QED
      BY <1>5, <2>1, <3>1
  <2> QED
    BY <2>2, <2>3
<1>11. SiteCovered(DomOf(id))' \/ SiteGoes(id)'
  <2>1. j \in jobs'
    OBVIOUS
  <2> QED
    BY <2>1 DEF SiteCovered, SiteGoes, JobCovers
<1>12. \A i \in Site!Ids : \/ rows'.site[i] = rows.site[i]
                           \/ /\ rows'.site[i] \in Site!Site /\ rows'.site[i].dom = DomOf(i)
                              /\ DomOf(i) \in rows'.domain
                              /\ SiteCovered(DomOf(i))' \/ SiteGoes(i)'
  BY <1>3, <1>5, <1>11 DEF d
<1>13. \A i \in Site!Ids : rows.app[i] # "none" => rows'.site[i] # Site!NoSite
  BY <1>3, <1>5 DEF SiteInv, SiteRowsNested
<1> QED
  BY <1>1, <1>5, <1>6, <1>7, <1>8, <1>9, <1>10, <1>12, <1>13, SiteRequests

\* A request that found its domain deleted.
LEMMA SiteRefused ==
    ASSUME SiteInv, req.kind \in {"put", "delete"}, req' = Site!NoReq,
           overlap' = Site!Touched(req.dom), UNCHANGED <<rows, jobs, changes, acked>>,
           UNCHANGED <<host, worker, failures, retired, redeployed, lost>>
    PROVE  SiteInv'
<1>1. SiteShapes /\ req.dom \in {"primary", "addon"}
  BY SiteTyped DEF SiteInv, SiteReq, Site!NoReq
<1>2. overlap \subseteq overlap' /\ overlap' \subseteq Site!Domains
  BY <1>1, SiteTouched
<1>3. SiteReq' /\ req'.kind = "none"
  BY DEF SiteReq, Site!NoReq
<1>4. RuntimeKept' /\ OneUntouched'
  BY <1>2, <1>3, SiteAskedAlone
<1>5. \A i \in Site!Ids : rows.app[i] # "none" => rows.site[i] # Site!NoSite
  BY DEF SiteInv, SiteRowsNested
<1> QED
  BY <1>1, <1>2, <1>3, <1>4, <1>5, SiteRequests DEF SiteShapes

LEMMA SiteUpsert == SiteInv /\ Site!UpsertWebsite => SiteInv'
<1> SUFFICES ASSUME SiteInv, Site!UpsertWebsite PROVE SiteInv'
  OBVIOUS
<1> DEFINE id == IF req.id = 0 THEN changes + 3 ELSE req.id
<1>1. /\ req.kind = "put" /\ req' = Site!NoReq /\ overlap' = Site!Touched(req.dom)
      /\ UNCHANGED <<host, worker, failures, retired, redeployed, lost>>
  BY DEF Site!UpsertWebsite, Site!Host
<1>2. CASE req.dom \notin rows.domain /\ UNCHANGED <<rows, jobs, changes, acked>>
  BY <1>1, <1>2, SiteRefused
<1>3. CASE /\ req.dom \in rows.domain
           /\ rows' = [rows EXCEPT !.site[id] = [dom |-> req.dom, runtime |-> req.runtime]]
           /\ Site!Enqueue(Site!Job("website.provision", id, "none"))
           /\ acked' = [acked EXCEPT ![req.dom] = req.runtime]
  <2>1. changes \in 0..MaxChanges /\ changes < MaxChanges
    BY <1>3, SiteTyped DEF SiteShapes, Site!Enqueue
  <2>2. changes + 1 \in 1..MaxChanges /\ changes + 3 = (changes + 1) + 2
    BY <2>1, Bounds
  <2>3. changes + 3 \in Site!Ids \ {1}
    BY <2>2, SiteIds
  <2>4. /\ req.runtime \in Site!Runtimes /\ req.id \in Site!Ids \cup {0}
        /\ req.dom = IF req.id = 0 THEN "addon" ELSE DomOf(req.id)
    BY <1>1 DEF SiteInv, SiteReq, Site!NoReq
  <2>5. id \in Site!Ids /\ DomOf(id) = req.dom
    BY <2>3, <2>4, SiteIds
  <2> HIDE DEF id
  <2>6. PICK j \in SiteJob : /\ jobs' = jobs \cup {j} /\ j.type = "website.provision" /\ j.ref = id
                             /\ j.attempts = 0 /\ changes' \in 0..MaxChanges
    <3>1. "website.provision" \in Site!Types
      BY DEF Site!Types
    <3> QED
      BY <1>3, <2>5, <3>1, SiteEnqueue
  <2>7. req.id # 0 => id = req.id
    BY DEF id
  <2> QED
    BY <1>1, <1>3, <2>4, <2>5, <2>6, <2>7, SiteWrites
<1> QED
  BY <1>2, <1>3 DEF Site!UpsertWebsite

LEMMA SiteDisable == SiteInv /\ Site!DisableWebsite => SiteInv'
<1> SUFFICES ASSUME SiteInv, Site!DisableWebsite PROVE SiteInv'
  OBVIOUS
<1>1. /\ req.kind = "delete" /\ req' = Site!NoReq /\ overlap' = Site!Touched(req.dom)
      /\ UNCHANGED <<host, worker, failures, retired, redeployed, lost>>
  BY DEF Site!DisableWebsite, Site!Host
<1>2. CASE req.dom \notin rows.domain /\ UNCHANGED <<rows, jobs, changes, acked>>
  BY <1>1, <1>2, SiteRefused
<1>3. CASE /\ req.dom \in rows.domain
           /\ rows' = [rows EXCEPT !.site[req.id] = [dom |-> req.dom, runtime |-> req.runtime]]
           /\ Site!Enqueue(Site!Job("website.delete", req.id, "none"))
           /\ acked' = [acked EXCEPT ![req.dom] = "any"]
  <2>1. /\ req.runtime \in Site!Runtimes /\ req.id \in Site!Ids \ {1} /\ req.dom = "addon"
    BY <1>1 DEF SiteInv, SiteReq, Site!NoReq
  <2>2. DomOf(req.id) = req.dom
    BY <2>1, SiteIds
  <2>3. PICK j \in SiteJob : /\ jobs' = jobs \cup {j} /\ j.type = "website.delete" /\ j.ref = req.id
                             /\ j.attempts = 0 /\ changes' \in 0..MaxChanges
    <3>1. "website.delete" \in Site!Types
      BY DEF Site!Types
    <3> QED
      BY <1>3, <2>1, <3>1, SiteEnqueue
  <2>4. PICK id \in Site!Ids : id = req.id /\ id # 1
    BY <2>1
  <2>5. PICK r \in Site!Runtimes : r = req.runtime
    BY <2>1
  <2> QED
    BY <1>1, <1>3, <2>2, <2>3, <2>4, <2>5, SiteWrites
<1> QED
  BY <1>2, <1>3 DEF Site!DisableWebsite

\* A request that writes an application's row.
LEMMA SiteAppRow ==
    ASSUME SiteInv, NEW i \in Site!Ids, NEW s \in {"provisioning", "retiring"},
           rows' = [rows EXCEPT !.app[i] = s], rows.site[i] # Site!NoSite,
           \/ jobs' = jobs /\ changes' = changes
           \/ Site!Enqueue(Site!Job("application.deploy", i, "none")),
           req' = req \/ req' = [kind |-> "retire", id |-> i],
           UNCHANGED <<acked, overlap, host, worker, failures, retired, redeployed, lost>>
    PROVE  SiteInv'
<1>1. SiteShapes /\ rows \in SiteRow
  BY SiteTyped DEF SiteShapes
<1>2. rows' = [rows EXCEPT !.app = [rows.app EXCEPT ![i] = s]]
  BY <1>1 DEF SiteRow
<1>3. /\ rows' \in SiteRow /\ rows'.site = rows.site /\ rows'.domain = rows.domain
      /\ rows'.app[i] = s /\ \A k \in Site!Ids : k # i => rows'.app[k] = rows.app[k]
  BY <1>1, <1>2 DEF SiteRow, Site!Status
<1>4. \/ jobs' = jobs
      \/ \E j \in SiteJob : /\ jobs' = jobs \cup {j} /\ j.attempts = 0
                            /\ j.type = "application.deploy" /\ j.ref = i
  <2>1. "application.deploy" \in Site!Types
    BY DEF Site!Types
  <2> QED
    BY <2>1, SiteEnqueue
<1>5. changes' \in 0..MaxChanges
  <2>1. "application.deploy" \in Site!Types
    BY DEF Site!Types
  <2> QED
    BY <1>1, <2>1, SiteEnqueue DEF SiteShapes
<1>6. \A j : j.type = "application.deploy" /\ j.ref = i =>
          JobNames(j)' /\ \A d : ~SiteUndoes(j, d)
  BY DEF JobNames, SiteUndoes
<1>7. SiteReq' /\ (req' = req \/ req'.kind = "retire")
  BY DEF SiteInv, SiteReq
<1>8. RuntimeKept' /\ OneUntouched'
  <2>1. \A d \in Site!Domains \ overlap' : acked'[d] \in {acked[d], "any"}
    OBVIOUS
  <2>2. \A j \in jobs' : j \in jobs \/ \A d : ~SiteUndoes(j, d)
    BY <1>4, <1>6
  <2> QED
    BY <1>3, <1>7, <2>1, <2>2, SiteAskedAlone
<1>9. \A k \in Site!Ids : /\ rows.app[k] # "none" => rows'.app[k] # "none"
                          /\ rows'.app[k] # "none" => rows'.site[k] # Site!NoSite
  BY <1>3 DEF SiteInv, SiteRowsNested
<1>10. jobs' = jobs \/ \E j \in SiteJob : jobs' = jobs \cup {j} /\ j.attempts = 0 /\ JobNames(j)'
  BY <1>4, <1>6
<1> QED
  BY <1>1, <1>3, <1>5, <1>7, <1>8, <1>9, <1>10, SiteRequests DEF SiteShapes

LEMMA SiteApps ==
    ASSUME SiteInv, NEW i \in Site!Ids, Site!CreateApp(i) \/ Site!MarkRetiring(i) PROVE SiteInv'
<1>1. CASE Site!CreateApp(i)
  BY <1>1, SiteAppRow DEF Site!CreateApp, Site!Host
<1>2. CASE Site!MarkRetiring(i)
  <2>1. rows.site[i] # Site!NoSite
    BY <1>2 DEF Site!MarkRetiring, SiteInv, SiteRowsNested
  <2> QED
    BY <1>2, <2>1, SiteAppRow DEF Site!MarkRetiring, Site!Host
<1> QED
  BY <1>1, <1>2

LEMMA SiteEnqueueRetire == SiteInv /\ Site!EnqueueRetire => SiteInv'
<1> SUFFICES ASSUME SiteInv, Site!EnqueueRetire PROVE SiteInv'
  OBVIOUS
<1>1. /\ req' = Site!NoReq /\ UNCHANGED <<rows, acked, overlap>>
      /\ UNCHANGED <<host, worker, failures, retired, redeployed, lost>>
      /\ \/ Site!Enqueue(Site!Job("application.retire", req.id, "none"))
         \/ UNCHANGED <<jobs, changes>>
  BY DEF Site!EnqueueRetire, Site!Host
<1>2. SiteShapes /\ req.id \in Site!Ids /\ "application.retire" \in Site!Types
  BY SiteTyped DEF Site!EnqueueRetire, SiteInv, SiteReq, Site!NoReq, Site!Types
<1>3. /\ changes' \in 0..MaxChanges
      /\ \/ jobs' = jobs
         \/ \E j \in SiteJob : /\ jobs' = jobs \cup {j} /\ j.attempts = 0
                               /\ j.type = "application.retire" /\ j.ref = req.id
  BY <1>1, <1>2, SiteEnqueue DEF SiteShapes
<1>4. \A j : j.type = "application.retire" /\ j.ref = req.id =>
          JobNames(j)' /\ \A d : ~SiteUndoes(j, d)
  BY <1>2 DEF JobNames, SiteUndoes
<1>5. SiteReq' /\ req'.kind = "none"
  BY <1>1 DEF SiteReq, Site!NoReq
<1>6. RuntimeKept' /\ OneUntouched'
  <2>1. \A d \in Site!Domains \ overlap' : acked'[d] \in {acked[d], "any"}
    BY <1>1
  <2>2. \A j \in jobs' : j \in jobs \/ \A d : ~SiteUndoes(j, d)
    BY <1>3, <1>4
  <2> QED
    BY <1>1, <1>5, <2>1, <2>2, SiteAskedAlone
<1>7. \A k \in Site!Ids : rows.app[k] # "none" => rows.site[k] # Site!NoSite
  BY DEF SiteInv, SiteRowsNested
<1>8. jobs' = jobs \/ \E j \in SiteJob : jobs' = jobs \cup {j} /\ j.attempts = 0 /\ JobNames(j)'
  BY <1>3, <1>4
<1> QED
  BY <1>1, <1>2, <1>3, <1>5, <1>6, <1>7, <1>8, SiteRequests DEF SiteShapes

LEMMA SiteRequest == SiteInv /\ Site!Request => SiteInv'
<1> SUFFICES ASSUME SiteInv, Site!Request PROVE SiteInv'
  OBVIOUS
<1>1. ASSUME NEW d \in {"addon", "alias"},
             Site!RequestDelete(d) \/ \E r \in Site!Runtimes \cup {"none"} : Site!AddDomain(d, r)
      PROVE  SiteInv'
  BY <1>1, SiteRequestDelete, SiteAddDomain
<1>2. ASSUME NEW d \in {"primary", "addon"}, NEW r \in Site!Runtimes, Site!ReadSites(d, r)
      PROVE  SiteInv'
  BY <1>2, SiteReadSites
<1>3. ASSUME NEW i \in Site!Ids, Site!ReadSite(i) \/ Site!CreateApp(i) \/ Site!MarkRetiring(i)
      PROVE  SiteInv'
  BY <1>3, SiteReadSite, SiteApps
<1> QED
  BY <1>1, <1>2, <1>3, SiteUpsert, SiteDisable, SiteEnqueueRetire DEF Site!Request

-----------------------------------------------------------------------------
(* The worker's steps.                                                     *)

\* What a step leaves of the files, when it loses nothing.
LEMMA SiteStaysApplied ==
    ASSUME SiteInv, jobs' = jobs, lost' = lost,
           \A i \in Site!Ids : rows'.site[i] # Site!NoSite =>
               \/ host'.conf[i] = Site!ConfOf(rows.site[i])'
               \/ WorkerCovers(DomOf(i))' \/ (SiteCollapses(i)' /\ worker'.id # i)
               \/ i = 1 /\ SiteAliasWaits
               \/ /\ rows'.site[i] = rows.site[i] /\ host'.conf[i] = host.conf[i]
                  /\ Site!ConfOf(rows.site[i])' = Site!ConfOf(rows.site[i])
                  /\ ~WorkerCovers(DomOf(i)) /\ ~(SiteCollapses(i) /\ worker.id # i)
                  /\ ~(worker.pc = "retireSite" /\ worker.id = i),
           worker'.pc = "put" \/ (worker'.pc = "runtime" /\ Site!ByDomain') =>
               \/ host'.conf[worker'.id] = Site!ConfOf(worker.copy)'
               \/ worker'.id = 1 /\ SiteAliasWaits,
           \A i, k \in Site!Ids \ {1} :
               rows'.site[i] # Site!NoSite /\ rows'.site[k] # Site!NoSite /\ i # k =>
                   \/ WorkerCovers("addon")' \/ SiteCollapses(i)'
                   \/ /\ rows.site[i] # Site!NoSite /\ rows.site[k] # Site!NoSite
                      /\ ~WorkerCovers("addon") /\ ~SiteCollapses(i)
                      /\ ~(worker.pc = "retireSite" /\ worker.id \in {i, k}),
           \/ host'.served = host'.conf
           \/ worker'.pc \in {"stack", "apply", "reapply", "retireSite", "retireDomain"}
           \/ /\ host'.served = host.served /\ host'.conf = host.conf
              /\ worker.pc \notin {"stack", "apply", "reapply", "retireSite", "retireDomain"}
              /\ rows'.domain = rows.domain
              /\ \A i \in Site!Ids : rows.site[i] # Site!NoSite => rows'.site[i] # Site!NoSite
    PROVE  SitesApplied'
<1> SUFFICES ASSUME ~lost PROVE FilesApplied' /\ SitesCollapse' /\ FilesServed'
  BY DEF SitesApplied
<1>1. FilesApplied /\ SitesCollapse /\ FilesServed
  BY DEF SiteInv, SitesApplied
<1>2. \A d : /\ (\E j \in jobs : JobCovers(j, d)) \/ WorkerCovers(d)' => SiteCovered(d)'
             /\ SiteCovered(d) => (\E j \in jobs : JobCovers(j, d)) \/ WorkerCovers(d)
  BY DEF SiteCovered, JobCovers
<1>3. \A i : SiteGoes(i) => SiteGoes(i)' \/ (worker.pc = "retireSite" /\ worker.id = i)
  BY DEF SiteGoes
<1>4. /\ SiteAliasWaits' <=> SiteAliasWaits
      /\ SiteAliasWaits => \E j \in jobs : JobCovers(j, DomOf(1))
  BY SiteIds DEF SiteAliasWaits, JobCovers
<1>5. FilesApplied'
  <2>1. ASSUME NEW i \in Site!Ids, rows'.site[i] # Site!NoSite
        PROVE  \/ host'.conf[i] = Site!ConfOf(rows.site[i])'
               \/ SiteCovered(DomOf(i))' \/ SiteGoes(i)'
               \/ SiteCollapses(i)' /\ worker'.id # i
    <3>1. rows.site[i] # Site!NoSite =>
              \/ host.conf[i] = Site!ConfOf(rows.site[i]) \/ SiteCovered(DomOf(i)) \/ SiteGoes(i)
              \/ SiteCollapses(i) /\ worker.id # i
      BY <1>1 DEF FilesApplied
    <3> QED
      BY <1>2, <1>3, <1>4, <2>1, <3>1
  <2> QED
    BY <1>4, <2>1 DEF FilesApplied
<1>6. SitesCollapse'
  <2> SUFFICES ASSUME NEW i \in Site!Ids \ {1}, NEW k \in Site!Ids \ {1},
                      rows'.site[i] # Site!NoSite, rows'.site[k] # Site!NoSite, i # k
               PROVE  SiteCovered("addon")' \/ SiteGoes(i)' \/ SiteGoes(k)' \/ SiteCollapses(i)'
    BY DEF SitesCollapse
  <2>1. rows.site[i] # Site!NoSite /\ rows.site[k] # Site!NoSite =>
            SiteCovered("addon") \/ SiteGoes(i) \/ SiteGoes(k) \/ SiteCollapses(i)
    BY <1>1 DEF SitesCollapse
  <2> QED
    BY <1>2, <1>3, <2>1
<1>7. FilesServed'
  <2>1. \A j \in jobs : j.type = "website.delete" => j.ref \in Site!Ids
    BY DEF SiteInv, SiteJobs, JobNames
  <2> QED
    BY <1>1, <2>1 DEF FilesServed, ReloadComes
<1> QED
  BY <1>5, <1>6, <1>7

LEMMA SiteGoto ==
    ASSUME SiteInv, worker.pc # "idle", NEW step \in Site!Steps \ {"idle"},
           worker' = [worker EXCEPT !.pc = step]
    PROVE  /\ worker' \in SiteRunning /\ worker'.pc = step /\ worker'.job = worker.job
           /\ worker'.id = worker.id /\ worker'.copy = worker.copy
<1>1. worker \in SiteRunning
  BY SiteRuns
<1> QED
  BY <1>1 DEF SiteRunning

\* A step that leaves the rows of the sites and the files of nginx alone.
LEMMA SiteElsewhere ==
    ASSUME SiteInv, worker.pc \notin {"idle", "collapse", "retireSite"},
           worker' = [pc |-> "idle"] \/ (worker' \in SiteRunning /\ worker'.job = worker.job),
           UNCHANGED <<req, changes, acked, overlap, jobs, failures, lost>>,
           rows' \in SiteRow, rows'.site = rows.site, rows'.domain = rows.domain,
           \A i \in Site!Ids : rows'.app[i] # "none" => rows.app[i] # "none",
           host' \in SiteHost, host'.conf = host.conf, host'.served = host.served,
           \A i \in Site!Ids :
               "unit" \in host'.app[i] => "unit" \in host.app[i] \/ rows.site[i] # Site!NoSite,
           retired' \subseteq Site!Ids, redeployed' \subseteq Site!Ids,
           SiteStepOfJob', SitesRetired', JournalDone',
           \A d : SiteWorksOn(d)' => SiteWorksOn(d),
           \A d \in {"primary", "addon"} : WorkerCovers(d) => WorkerCovers(d)',
           worker'.pc \notin {"apply", "runtime"},
           worker'.pc = "put" => /\ worker.pc = "runtime" /\ Site!ByDomain
                                 /\ worker'.id = worker.id /\ worker'.copy = worker.copy,
           worker.pc \in {"stack", "apply", "reapply", "retireSite", "retireDomain"} =>
               worker'.pc \in {"stack", "apply", "reapply", "retireSite", "retireDomain"}
    PROVE  SiteInv'
<1>1. SiteShapes
  BY SiteTyped
<1>2. SiteRowsNested'
  BY DEF SiteInv, SiteRowsNested
<1>3. RuntimeKept' /\ OneUntouched'
  <2>1. "addon" \notin overlap =>
            \A i, k \in Site!Ids \ {1} :
                rows.site[i] # Site!NoSite /\ rows.site[k] # Site!NoSite => i = k
    BY DEF SiteInv, OneUntouched
  <2>2. worker'.pc # "idle" => worker'.job = worker.job
    OBVIOUS
  <2>3. jobs' \subseteq jobs \cup {worker.job}
    OBVIOUS
  <2>4. worker'.pc \in {"apply", "put"} => worker.job.type = "domain.provision"
    BY DEF Site!ByDomain
  <2> QED
    BY <2>1, <2>2, <2>3, <2>4, SiteAskedKept
<1>4. SitesApplied'
  <2>1. \A i : Site!ConfOf(rows.site[i])' = Site!ConfOf(rows.site[i])
    BY DEF Site!ConfOf, Site!Aliases
  <2>2. \A i : ~SiteCollapses(i)
    BY DEF SiteCollapses
  <2>3. ASSUME ~lost, worker'.pc = "put"
        PROVE  \/ host.conf[worker'.id] = Site!ConfOf(worker.copy)'
               \/ worker'.id = 1 /\ SiteAliasWaits
    <3>1. \/ host.conf[worker.id] = Site!ConfOf(worker.copy)
          \/ worker.id = 1 /\ SiteAliasWaits
      BY <2>3 DEF SiteInv, SitesApplied, FilesApplied
    <3> QED
      BY <2>3, <3>1 DEF Site!ConfOf, Site!Aliases
  <2>4. \A i \in Site!Ids : DomOf(i) \in {"primary", "addon"}
    BY SiteIds
  <2>5. CASE ~lost
    BY <2>1, <2>2, <2>3, <2>4, <2>5, SiteStaysApplied
  <2> QED
    BY <2>5, <1>1 DEF SitesApplied, SiteShapes
<1> QED
  BY <1>1, <1>2, <1>3, <1>4, SiteGoesOn DEF SiteShapes

\* The files of one application change, and its journal may.
SiteAppTo(id, a, n) == \/ host' = [host EXCEPT !.app[id] = a] /\ n = host.journal[id]
                       \/ host' = [host EXCEPT !.app[id] = a, !.journal[id] = n]
                       \/ host' = [host EXCEPT !.journal[id] = n] /\ a = host.app[id]
LEMMA SiteAppFiles ==
    ASSUME SiteInv, NEW id \in Site!Ids, NEW a \in SUBSET {"unit", "sock", "dir"}, NEW n \in 0..4,
           SiteAppTo(id, a, n)
    PROVE  /\ host' \in SiteHost /\ host'.conf = host.conf /\ host'.served = host.served
           /\ host'.app[id] = a /\ host'.journal[id] = n
           /\ \A i \in Site!Ids :
                 i # id => host'.app[i] = host.app[i] /\ host'.journal[i] = host.journal[i]
<1>1. host \in SiteHost
  BY SiteTyped DEF SiteShapes
<1>2. PICK f \in [Site!Ids -> SUBSET {"unit", "sock", "dir"}] : f = [host.app EXCEPT ![id] = a]
  BY <1>1 DEF SiteHost
<1>3. PICK g \in [Site!Ids -> 0..4] : g = [host.journal EXCEPT ![id] = n]
  BY <1>1 DEF SiteHost
<1>4. \/ host' = [host EXCEPT !.app = f] /\ n = host.journal[id]
      \/ host' = [host EXCEPT !.app = f, !.journal = g]
      \/ host' = [host EXCEPT !.journal = g] /\ a = host.app[id]
  BY <1>1, <1>2, <1>3 DEF SiteHost, SiteAppTo
<1>5. f[id] = a /\ g[id] = n
      /\ \A i \in Site!Ids : i # id => f[i] = host.app[i] /\ g[i] = host.journal[i]
  BY <1>1, <1>2, <1>3 DEF SiteHost
<1> QED
  BY <1>1, <1>4, <1>5 DEF SiteHost

\* A unit is written: the journal of a retirement no longer tells.
LEMMA SiteUnit ==
    ASSUME SiteInv, NEW id \in Site!Ids, NEW dir \in SUBSET {"dir"},
           host' = [host EXCEPT !.app[id] = @ \cup {"unit", "sock"} \cup dir],
           retired' = retired \ {id},
           redeployed' = IF host.journal[id] > 0 THEN redeployed \cup {id} ELSE redeployed
    PROVE  /\ host' \in SiteHost /\ host'.conf = host.conf /\ host'.served = host.served
           /\ \A i \in Site!Ids : i # id => host'.app[i] = host.app[i]
           /\ retired' \subseteq Site!Ids /\ redeployed' \subseteq Site!Ids /\ JournalDone'
<1>1. SiteShapes /\ host \in SiteHost
  BY SiteTyped DEF SiteShapes
<1>2. PICK a \in SUBSET {"unit", "sock", "dir"} : a = host.app[id] \cup {"unit", "sock"} \cup dir
  BY <1>1 DEF SiteHost
<1>3. PICK n \in 0..4 : n = host.journal[id]
  BY <1>1 DEF SiteHost
<1>4. SiteAppTo(id, a, n)
  BY <1>1, <1>2, <1>3 DEF SiteHost, SiteAppTo
<1>5. /\ host' \in SiteHost /\ host'.conf = host.conf /\ host'.served = host.served
      /\ host'.journal[id] = n
      /\ \A i \in Site!Ids :
            i # id => host'.app[i] = host.app[i] /\ host'.journal[i] = host.journal[i]
  BY <1>2, <1>3, <1>4, SiteAppFiles
<1>6. JournalDone'
  <2> SUFFICES ASSUME NEW i \in Site!Ids \ redeployed'
               PROVE  /\ host'.journal[i] >= 2 => "sock" \notin host'.app[i]
                      /\ host'.journal[i] >= 3 => "unit" \notin host'.app[i]
                      /\ host'.journal[i] >= 4 => "dir" \notin host'.app[i]
                      /\ i \in retired' => host'.app[i] = {}
    BY DEF JournalDone
  <2>1. CASE i = id
    BY <1>3, <1>5, <2>1
  <2>2. CASE i # id
    BY <1>5, <2>2 DEF SiteInv, JournalDone
  <2> QED
    BY <2>1, <2>2
<1> QED
  BY <1>1, <1>5, <1>6 DEF SiteShapes

LEMMA SiteDeployApp == SiteInv /\ Site!DeployApp => SiteInv'
<1> SUFFICES ASSUME SiteInv, Site!DeployApp PROVE SiteInv'
  OBVIOUS
<1>1. /\ worker.pc = "deploy" /\ UNCHANGED rows /\ UNCHANGED <<req, changes, acked, overlap>>
      /\ Site!ApplyAppUnit(worker.id, {}, Site!Goto("putApp"))
  BY DEF Site!DeployApp, Site!NoRequest
<1>2. /\ JobNames(worker.job) /\ worker.job.type = "application.deploy"
      /\ worker.id \in Site!Ids /\ rows.app[worker.id] # "none"
      /\ rows.site[worker.id] # Site!NoSite
  BY <1>1 DEF SiteInv, SiteStepOfJob, SiteRowsNested
<1>3. CASE UNCHANGED <<host, retired, redeployed>> /\ Site!Retry
  BY <1>1, <1>3, SiteRetry, SiteEndsAlone
<1>4. CASE /\ host' = [host EXCEPT !.app[worker.id] = @ \cup {"unit", "sock"} \cup {}]
           /\ retired' = retired \ {worker.id}
           /\ redeployed' = IF host.journal[worker.id] > 0 THEN redeployed \cup {worker.id}
                            ELSE redeployed
           /\ Site!Goto("putApp")
  <2>1. /\ host' \in SiteHost /\ host'.conf = host.conf /\ host'.served = host.served
        /\ \A i \in Site!Ids : i # worker.id => host'.app[i] = host.app[i]
        /\ retired' \subseteq Site!Ids /\ redeployed' \subseteq Site!Ids /\ JournalDone'
    <3>1. {} \in SUBSET {"dir"}
      OBVIOUS
    <3> QED
      BY <1>2, <1>4, <3>1, SiteUnit, Zenon
  <2>2. /\ UNCHANGED <<jobs, failures, lost>> /\ worker' \in SiteRunning /\ worker'.pc = "putApp"
        /\ worker'.job = worker.job /\ worker'.id = worker.id
    BY <1>1, <1>4, SiteGoto DEF Site!Goto, Site!Quiet, Site!Steps
  <2>3. SiteStepOfJob' /\ SitesRetired'
    BY <1>1, <1>2, <2>2
       DEF SiteStepOfJob, JobNames, SiteSteps, RetiringSteps, SitesRetired
  <2>4. (\A d : ~SiteWorksOn(d)') /\ \A d : ~WorkerCovers(d)
    BY <1>1, <2>2 DEF SiteWorksOn, WorkerCovers, SiteSteps
  <2> QED
    BY <1>1, <1>2, <2>1, <2>2, <2>3, <2>4, SiteElsewhere, SiteTyped DEF SiteShapes
<1> QED
  BY <1>1, <1>3, <1>4 DEF Site!ApplyAppUnit

LEMMA SitePutApp == SiteInv /\ Site!PutApp => SiteInv'
<1> SUFFICES ASSUME SiteInv, Site!PutApp PROVE SiteInv'
  OBVIOUS
<1>1. /\ worker.pc = "putApp" /\ rows' = [rows EXCEPT !.app[worker.id] = "running"]
      /\ worker' = [pc |-> "idle"] /\ UNCHANGED <<jobs, failures, lost>>
      /\ UNCHANGED <<host, retired, redeployed>> /\ UNCHANGED <<req, changes, acked, overlap>>
  BY DEF Site!PutApp, Site!Done, Site!Quiet, Site!NoRequest
<1>2. SiteShapes /\ rows \in SiteRow /\ worker.id \in Site!Ids /\ rows.app[worker.id] # "none"
  BY <1>1, SiteTyped DEF SiteShapes, SiteInv, SiteStepOfJob
<1>3. rows' = [rows EXCEPT !.app = [rows.app EXCEPT ![worker.id] = "running"]]
  BY <1>1, <1>2 DEF SiteRow
<1>4. /\ rows' \in SiteRow /\ rows'.site = rows.site /\ rows'.domain = rows.domain
      /\ \A i \in Site!Ids : i # worker.id => rows'.app[i] = rows.app[i]
  BY <1>2, <1>3 DEF SiteRow, Site!Status
<1>5. SiteStepOfJob' /\ SitesRetired' /\ JournalDone' /\ worker'.pc = "idle"
  BY <1>1 DEF SiteStepOfJob, SitesRetired, SiteInv, JournalDone
<1>6. (\A d : ~SiteWorksOn(d)') /\ \A d : ~WorkerCovers(d)
  BY <1>1, <1>5 DEF SiteWorksOn, WorkerCovers, SiteSteps
<1> QED
  BY <1>1, <1>2, <1>4, <1>5, <1>6, SiteElsewhere DEF SiteShapes

LEMMA SiteDeleteApps == SiteInv /\ Site!DeleteApps => SiteInv'
<1> SUFFICES ASSUME SiteInv, Site!DeleteApps PROVE SiteInv'
  OBVIOUS
<1> DEFINE f == [i \in Site!Ids |-> IF i \in Site!SitesOf(worker.job.ref) THEN "none"
                                    ELSE rows.app[i]]
<1>1. /\ worker.pc = "delApps" /\ rows' = [rows EXCEPT !.app = f]
      /\ worker' = [worker EXCEPT !.pc = "delSites"] /\ UNCHANGED <<jobs, failures, lost>>
      /\ UNCHANGED <<host, retired, redeployed>> /\ UNCHANGED <<req, changes, acked, overlap>>
  BY DEF Site!DeleteApps, Site!Goto, Site!Quiet, Site!NoRequest
<1>2. SiteShapes /\ rows \in SiteRow
  BY SiteTyped DEF SiteShapes
<1>3. /\ f \in [Site!Ids -> Site!Status]
      /\ \A i \in Site!Ids : f[i] # "none" => rows.app[i] # "none"
  BY <1>2 DEF SiteRow, Site!Status
<1> HIDE DEF f
<1>4. /\ rows' \in SiteRow /\ rows'.site = rows.site /\ rows'.domain = rows.domain
      /\ rows'.app = f
  BY <1>1, <1>2, <1>3 DEF SiteRow
<1>5. worker' \in SiteRunning /\ worker'.pc = "delSites" /\ worker'.job = worker.job
      /\ worker'.id = worker.id
  BY <1>1, SiteGoto DEF Site!Steps
<1>6. SiteStepOfJob'
  BY <1>1, <1>4, <1>5 DEF SiteInv, SiteStepOfJob, JobNames, SiteSteps, RetiringSteps
<1>7. SitesRetired' /\ JournalDone'
  BY <1>1, <1>4, <1>5 DEF SiteInv, SitesRetired, SiteBare, JournalDone
<1>8. (\A d : ~SiteWorksOn(d)') /\ \A d : WorkerCovers(d) => WorkerCovers(d)'
  BY <1>1, <1>5 DEF SiteWorksOn, WorkerCovers, SiteSteps
<1> QED
  BY <1>1, <1>2, <1>3, <1>4, <1>5, <1>6, <1>7, <1>8, SiteElsewhere DEF SiteShapes

LEMMA SiteApplyRuntime == SiteInv /\ Site!ApplySiteRuntime => SiteInv'
<1> SUFFICES ASSUME SiteInv, Site!ApplySiteRuntime PROVE SiteInv'
  OBVIOUS
<1> DEFINE next == IF Site!ByDomain THEN Site!Goto("put") ELSE Site!Done
<1>1. /\ worker.pc = "runtime" /\ UNCHANGED rows /\ UNCHANGED <<req, changes, acked, overlap>>
      /\ IF worker.copy.runtime = "node" THEN Site!ApplyAppUnit(worker.id, {"dir"}, next)
         ELSE (next \/ Site!Retry) /\ UNCHANGED <<host, retired, redeployed>>
  BY DEF Site!ApplySiteRuntime, Site!NoRequest
<1>2. SiteShapes /\ worker.id \in Site!Ids /\ rows.site[worker.id] # Site!NoSite
  BY <1>1, SiteTyped DEF SiteInv, SiteStepOfJob, SiteSteps
<1>3. ASSUME next, host' \in SiteHost, host'.conf = host.conf, host'.served = host.served,
             \A i \in Site!Ids : i # worker.id => host'.app[i] = host.app[i],
             retired' \subseteq Site!Ids, redeployed' \subseteq Site!Ids, JournalDone'
      PROVE  SiteInv'
  <2>1. CASE Site!ByDomain
    <3>1. worker' = [worker EXCEPT !.pc = "put"] /\ UNCHANGED <<jobs, failures, lost>>
      BY <1>3, <2>1 DEF Site!Goto, Site!Quiet
    <3>2. /\ worker' \in SiteRunning /\ worker'.pc = "put" /\ worker'.job = worker.job
          /\ worker'.id = worker.id /\ worker'.copy = worker.copy
      BY <1>1, <3>1, SiteGoto DEF Site!Steps
    <3>3. SiteStepOfJob' /\ SitesRetired'
      BY <1>1, <3>2 DEF SiteInv, SiteStepOfJob, JobNames, SiteSteps, RetiringSteps, SitesRetired,
         Site!ByDomain
    <3>4. worker.id # 1
      BY <1>1, <2>1 DEF SiteInv, SiteStepOfJob, SiteSteps, Site!ByDomain
    <3>5. /\ \A d : SiteWorksOn(d)' => SiteWorksOn(d)
          /\ \A d : WorkerCovers(d) => WorkerCovers(d)'
      BY <1>1, <3>2, <3>4, SiteIds DEF SiteWorksOn, WorkerCovers, SiteSteps
    <3> QED
      BY <1>1, <1>2, <1>3, <2>1, <3>1, <3>2, <3>3, <3>5, SiteElsewhere DEF SiteShapes
  <2>2. CASE ~Site!ByDomain
    <3>1. worker' = [pc |-> "idle"] /\ worker'.pc = "idle" /\ UNCHANGED <<jobs, failures, lost>>
      BY <1>3, <2>2 DEF Site!Done, Site!Quiet
    <3>2. SiteStepOfJob' /\ SitesRetired'
      BY <3>1 DEF SiteStepOfJob, SitesRetired
    <3>3. (\A d : ~SiteWorksOn(d)') /\ \A d : ~WorkerCovers(d)
      BY <1>1, <2>2, <3>1 DEF SiteWorksOn, WorkerCovers, SiteSteps
    <3> QED
      BY <1>1, <1>2, <1>3, <3>1, <3>2, <3>3, SiteElsewhere DEF SiteShapes
  <2> QED
    BY <2>1, <2>2
<1> HIDE DEF next
<1>4. CASE UNCHANGED <<host, retired, redeployed>> /\ Site!Retry
  BY <1>1, <1>4, SiteRetry, SiteEndsAlone
<1>5. CASE UNCHANGED <<host, retired, redeployed>> /\ next
  <2>1. JournalDone'
    BY <1>5 DEF SiteInv, JournalDone
  <2> QED
    BY <1>2, <1>3, <1>5, <2>1 DEF SiteShapes
<1>6. CASE /\ host' = [host EXCEPT !.app[worker.id] = @ \cup {"unit", "sock"} \cup {"dir"}]
           /\ retired' = retired \ {worker.id}
           /\ redeployed' = IF host.journal[worker.id] > 0 THEN redeployed \cup {worker.id}
                            ELSE redeployed
           /\ next
  <2>1. {"dir"} \in SUBSET {"dir"}
    OBVIOUS
  <2>2. /\ host' \in SiteHost /\ host'.conf = host.conf /\ host'.served = host.served
        /\ \A i \in Site!Ids : i # worker.id => host'.app[i] = host.app[i]
        /\ retired' \subseteq Site!Ids /\ redeployed' \subseteq Site!Ids /\ JournalDone'
    BY <1>2, <1>6, <2>1, SiteUnit, Zenon
  <2> QED
    BY <1>3, <1>6, <2>2
<1> QED
  BY <1>1, <1>4, <1>5, <1>6 DEF Site!ApplyAppUnit

LEMMA SiteRetireStep == SiteInv /\ Site!RetireStep => SiteInv'
<1> SUFFICES ASSUME SiteInv, Site!RetireStep PROVE SiteInv'
  OBVIOUS
<1>1. SiteShapes /\ host \in SiteHost /\ Len(Site!RetireSteps) = 4
  BY SiteTyped DEF SiteShapes, Site!RetireSteps
<1> DEFINE id == worker.id
           n == host.journal[id] + 1
           app == host.app[id] \ Site!Removes(Site!RetireSteps[n])
<1>2. /\ worker.pc = "retire" /\ n <= 4
      /\ \/ /\ host' = [host EXCEPT !.app[id] = app, !.journal[id] = n]
            /\ worker' = [worker EXCEPT !.pc = "retire"] /\ UNCHANGED <<jobs, failures, lost>>
         \/ host' = [host EXCEPT !.app[id] = app] /\ Site!Retry
      /\ UNCHANGED <<rows, retired, redeployed>> /\ UNCHANGED <<req, changes, acked, overlap>>
  BY <1>1 DEF Site!RetireStep, Site!Goto, Site!Quiet, Site!NoRequest
<1>3. id \in Site!Ids /\ worker.job.type = "application.retire" /\ JobNames(worker.job)
  BY <1>2 DEF SiteInv, SiteStepOfJob
<1>4. n \in 0..4 /\ n >= 1 /\ host.journal[id] = n - 1 /\ app \in SUBSET {"unit", "sock", "dir"}
      /\ host.journal[id] \in 0..4 /\ app \subseteq host.app[id]
  BY <1>1, <1>2, <1>3 DEF SiteHost
<1>5. /\ n = 2 => "sock" \notin app
      /\ n = 3 => "unit" \notin app
      /\ n = 4 => "dir" \notin app
  BY DEF Site!Removes, Site!RetireSteps
<1> HIDE DEF app, n
<1>6. \/ SiteAppTo(id, app, n) /\ worker' = [worker EXCEPT !.pc = "retire"]
         /\ UNCHANGED <<jobs, failures, lost>>
      \/ SiteAppTo(id, app, host.journal[id]) /\ Site!Retry
  BY <1>2 DEF SiteAppTo
<1> HIDE DEF id
<1>7. ASSUME NEW m \in 0..4, SiteAppTo(id, app, m), m \in {n, host.journal[id]}
      PROVE  /\ host' \in SiteHost /\ host'.conf = host.conf /\ host'.served = host.served
             /\ \A i \in Site!Ids : host'.app[i] \subseteq host.app[i]
             /\ JournalDone'
  <2>1. /\ host' \in SiteHost /\ host'.conf = host.conf /\ host'.served = host.served
        /\ host'.app[id] = app /\ host'.journal[id] = m
        /\ \A i \in Site!Ids :
              i # id => host'.app[i] = host.app[i] /\ host'.journal[i] = host.journal[i]
    BY <1>3, <1>4, <1>7, SiteAppFiles
  <2>2. ASSUME NEW i \in Site!Ids \ redeployed
        PROVE  /\ host'.journal[i] >= 2 => "sock" \notin host'.app[i]
               /\ host'.journal[i] >= 3 => "unit" \notin host'.app[i]
               /\ host'.journal[i] >= 4 => "dir" \notin host'.app[i]
               /\ i \in retired => host'.app[i] = {}
    <3>1. /\ host.journal[i] >= 2 => "sock" \notin host.app[i]
          /\ host.journal[i] >= 3 => "unit" \notin host.app[i]
          /\ host.journal[i] >= 4 => "dir" \notin host.app[i]
          /\ i \in retired => host.app[i] = {}
      BY DEF SiteInv, JournalDone
    <3>2. CASE i = id
      <4>1. /\ m >= 2 => host.journal[id] >= 2 \/ n = 2
            /\ m >= 3 => host.journal[id] >= 3 \/ n = 3
            /\ m >= 4 => host.journal[id] >= 4 \/ n = 4
        BY <1>4, <1>7
      <4>2. /\ m >= 2 => "sock" \notin app
            /\ m >= 3 => "unit" \notin app
            /\ m >= 4 => "dir" \notin app
            /\ i \in retired => app = {}
        BY <1>4, <1>5, <3>1, <3>2, <4>1
      <4> QED
        BY <2>1, <3>2, <4>2
    <3>3. CASE i # id
      BY <2>1, <3>1, <3>3
    <3> QED
      BY <3>2, <3>3
  <2>3. JournalDone'
    BY <1>2, <2>2 DEF JournalDone
  <2> QED
    BY <1>4, <2>1, <2>3
<1>8. CASE /\ SiteAppTo(id, app, n) /\ worker' = [worker EXCEPT !.pc = "retire"]
           /\ UNCHANGED <<jobs, failures, lost>>
  <2>1. /\ worker' \in SiteRunning /\ worker'.pc = "retire" /\ worker'.job = worker.job
        /\ worker'.id = worker.id
    BY <1>2, <1>8, SiteGoto DEF Site!Steps
  <2>2. SiteStepOfJob' /\ SitesRetired'
    BY <1>2, <1>3, <2>1
       DEF SiteInv, SiteStepOfJob, JobNames, SiteSteps, RetiringSteps, SitesRetired
  <2>3. (\A d : ~SiteWorksOn(d)') /\ \A d : ~WorkerCovers(d)
    BY <1>2, <2>1 DEF SiteWorksOn, WorkerCovers, SiteSteps
  <2> QED
    BY <1>1, <1>2, <1>4, <1>7, <1>8, <2>1, <2>2, <2>3, SiteElsewhere DEF SiteShapes
<1>9. CASE SiteAppTo(id, app, host.journal[id]) /\ Site!Retry
  <2>1. /\ worker' = [pc |-> "idle"] /\ failures' \in 0..MaxFailures
        /\ \/ lost' = TRUE /\ jobs' = jobs
           \/ /\ lost' = lost /\ jobs' = jobs \cup {worker.job}
              /\ worker.job.attempts < MaxAttempts
    BY <1>2, <1>9, SiteRetry
  <2>2. \A i \in Site!Ids : host.conf[i] # Site!NoConf =>
                     rows.site[i] # Site!NoSite /\ host.conf[i].dom = DomOf(i)
    BY DEF SiteInv, SiteRowsNested
  <2> QED
    BY <1>2, <1>4, <1>7, <1>9, <2>1, <2>2, SiteEnds
<1> QED
  BY <1>6, <1>8, <1>9

LEMMA SiteRetireEnd == SiteInv /\ Site!RetireEnd => SiteInv'
<1> SUFFICES ASSUME SiteInv, Site!RetireEnd PROVE SiteInv'
  OBVIOUS
<1>1. SiteShapes /\ host \in SiteHost /\ rows \in SiteRow /\ Len(Site!RetireSteps) = 4
  BY SiteTyped DEF SiteShapes, Site!RetireSteps
<1> DEFINE id == worker.id
<1>2. /\ worker.pc = "retire" /\ host.journal[id] = 4
      /\ host' = [host EXCEPT !.journal[id] = 0]
      /\ \/ /\ rows' = [rows EXCEPT !.app[id] = "none"] /\ retired' = retired \cup {id}
            /\ worker' = [pc |-> "idle"] /\ UNCHANGED <<jobs, failures, lost>>
         \/ UNCHANGED <<rows, retired>> /\ Site!Retry
      /\ UNCHANGED redeployed /\ UNCHANGED <<req, changes, acked, overlap>>
  BY <1>1 DEF Site!RetireEnd, Site!Done, Site!Quiet, Site!NoRequest
<1>3. id \in Site!Ids
  BY <1>2 DEF SiteInv, SiteStepOfJob
<1> HIDE DEF id
<1>4. /\ host' \in SiteHost /\ host'.conf = host.conf /\ host'.served = host.served
      /\ host'.app[id] = host.app[id] /\ host'.journal[id] = 0
      /\ \A i \in Site!Ids :
            i # id => host'.app[i] = host.app[i] /\ host'.journal[i] = host.journal[i]
  <2>1. SiteAppTo(id, host.app[id], 0) /\ host.app[id] \in SUBSET {"unit", "sock", "dir"}
    BY <1>1, <1>2, <1>3 DEF SiteAppTo, SiteHost
  <2> QED
    BY <1>3, <2>1, SiteAppFiles
<1>5. JournalDone'
  <2> SUFFICES ASSUME NEW i \in Site!Ids \ redeployed
               PROVE  /\ host'.journal[i] >= 2 => "sock" \notin host'.app[i]
                      /\ host'.journal[i] >= 3 => "unit" \notin host'.app[i]
                      /\ host'.journal[i] >= 4 => "dir" \notin host'.app[i]
                      /\ i \in retired' => host'.app[i] = {}
    BY <1>2 DEF JournalDone
  <2>1. /\ host.journal[i] >= 2 => "sock" \notin host.app[i]
        /\ host.journal[i] >= 3 => "unit" \notin host.app[i]
        /\ host.journal[i] >= 4 => "dir" \notin host.app[i]
        /\ i \in retired => host.app[i] = {}
    BY DEF SiteInv, JournalDone
  <2>2. CASE i = id
    <3>1. host.app[id] \subseteq {"unit", "sock", "dir"}
      BY <1>1, <1>3 DEF SiteHost
    <3>2. host.app[id] = {}
      BY <1>2, <2>1, <2>2, <3>1
    <3> QED
      BY <1>4, <2>2, <3>2
  <2>3. CASE i # id
    BY <1>2, <1>4, <2>1, <2>3
  <2> QED
    BY <2>2, <2>3
<1>6. CASE UNCHANGED <<rows, retired>> /\ Site!Retry
  <2>1. /\ worker' = [pc |-> "idle"] /\ failures' \in 0..MaxFailures
        /\ \/ lost' = TRUE /\ jobs' = jobs
           \/ /\ lost' = lost /\ jobs' = jobs \cup {worker.job}
              /\ worker.job.attempts < MaxAttempts
    BY <1>2, <1>6, SiteRetry
  <2>2. \A i \in Site!Ids : host.conf[i] # Site!NoConf =>
                     rows.site[i] # Site!NoSite /\ host.conf[i].dom = DomOf(i)
    BY DEF SiteInv, SiteRowsNested
  <2> QED
    BY <1>2, <1>4, <1>5, <1>6, <2>1, <2>2, SiteEnds
<1>7. CASE /\ rows' = [rows EXCEPT !.app[id] = "none"] /\ retired' = retired \cup {id}
           /\ worker' = [pc |-> "idle"] /\ UNCHANGED <<jobs, failures, lost>>
  <2>1. rows' = [rows EXCEPT !.app = [rows.app EXCEPT ![id] = "none"]]
    BY <1>1, <1>7 DEF SiteRow
  <2>2. /\ rows' \in SiteRow /\ rows'.site = rows.site /\ rows'.domain = rows.domain
        /\ \A i \in Site!Ids : rows'.app[i] # "none" => rows.app[i] # "none"
    BY <1>1, <2>1 DEF SiteRow, Site!Status
  <2>3. SiteStepOfJob' /\ SitesRetired' /\ worker'.pc = "idle"
    BY <1>7 DEF SiteStepOfJob, SitesRetired
  <2>4. (\A d : ~SiteWorksOn(d)') /\ \A d : ~WorkerCovers(d)
    BY <1>2, <2>3 DEF SiteWorksOn, WorkerCovers, SiteSteps
  <2> QED
    BY <1>1, <1>2, <1>3, <1>4, <1>5, <1>7, <2>2, <2>3, <2>4, SiteElsewhere DEF SiteShapes
<1> QED
  BY <1>2, <1>6, <1>7

LEMMA SiteStack == SiteInv /\ Site!EnsureDomainStack => SiteInv'
<1> SUFFICES ASSUME SiteInv, Site!EnsureDomainStack PROVE SiteInv'
  OBVIOUS
<1> DEFINE d == worker.job.ref
           Or(r) == IF worker.job.runtime = "none" THEN r ELSE worker.job.runtime
           new == [dom |-> d, runtime |-> Or("php")]
<1>1. /\ worker.pc = "stack" /\ UNCHANGED <<host, retired, redeployed>>
      /\ UNCHANGED <<req, changes, acked, overlap>> /\ UNCHANGED <<jobs, failures, lost>>
  BY DEF Site!EnsureDomainStack, Site!Goto, Site!Quiet, Site!NoRequest
<1>2. /\ SiteShapes /\ rows \in SiteRow /\ Site!ByDomain /\ d \in rows.domain
      /\ d \in {"addon", "alias"} /\ JobNames(worker.job)
  BY <1>1, SiteTyped, SiteRuns DEF SiteShapes, SiteInv, SiteStepOfJob, JobNames, Site!ByDomain
<1>3. /\ worker \in SiteRunning /\ worker.job.n + 2 \in Site!Ids \ {1}
      /\ worker.job.runtime \in Site!Runtimes \cup {"none"}
  BY <1>1, SiteRuns, SiteIds
<1>4. JournalDone'
  BY <1>1 DEF SiteInv, JournalDone
<1>5. CASE d = "alias" /\ Site!Goto("reapply") /\ UNCHANGED rows
  <2>1. worker' \in SiteRunning /\ worker'.pc = "reapply" /\ worker'.job = worker.job
    BY <1>1, <1>5, SiteGoto DEF Site!Goto, Site!Steps
  <2>2. SiteStepOfJob' /\ SitesRetired'
    BY <1>2, <1>5, <2>1 DEF SiteStepOfJob, JobNames, SiteSteps, RetiringSteps, SitesRetired,
       Site!ByDomain
  <2>3. /\ \A e : ~SiteWorksOn(e)'
        /\ \A e \in {"primary", "addon"} : WorkerCovers(e) => WorkerCovers(e)'
    BY <1>1, <1>5, <2>1 DEF SiteWorksOn, WorkerCovers, SiteSteps
  <2> QED
    BY <1>1, <1>2, <1>4, <1>5, <2>1, <2>2, <2>3, SiteElsewhere DEF SiteShapes
<1>6. ASSUME d # "alias", NEW id \in Site!Ids \ {1}, NEW copy \in Site!Site, copy.dom = d,
             worker' = [worker EXCEPT !.pc = "apply", !.id = id, !.copy = copy],
             rows' \in SiteRow, rows'.domain = rows.domain, rows'.app = rows.app,
             rows'.site[id] \in Site!Site, rows'.site[id].dom = "addon",
             \A i \in Site!Ids : i # id => rows'.site[i] = rows.site[i],
             \/ rows'.site[id] = rows.site[id]
             \/ \A i \in Site!Ids \ {1} : rows.site[i] = Site!NoSite
      PROVE  SiteInv'
  <2>1. /\ worker' \in SiteRunning /\ worker'.pc = "apply" /\ worker'.job = worker.job
        /\ worker'.id = id /\ worker'.copy = copy /\ DomOf(id) = "addon" /\ d = "addon"
    BY <1>2, <1>3, <1>6, SiteIds DEF SiteRunning, Site!Steps
  <2>2. rows'.site[id] # Site!NoSite
    BY <1>6 DEF Site!NoSite
  <2>3. SiteStepOfJob' /\ SitesRetired'
    BY <1>2, <1>6, <2>1, <2>2 DEF SiteStepOfJob, JobNames, SiteSteps, RetiringSteps, SitesRetired,
       Site!ByDomain
  <2>4. SiteRowsNested'
    <3>1. rows'.site[1] = rows.site[1]
      BY <1>6, SiteIds
    <3> QED
      BY <1>1, <1>2, <1>6, <2>1, <2>2, <3>1 DEF SiteInv, SiteRowsNested
  <2>5. /\ \A e : SiteWorksOn(e)' => SiteWorksOn(e)
        /\ SiteWorksOn("addon") /\ SiteUndoes(worker.job, "addon")
    BY <1>1, <1>2, <2>1 DEF SiteWorksOn, SiteSteps, SiteUndoes, Site!ByDomain
  <2>6. "addon" \notin overlap =>
            \A i, k \in Site!Ids \ {1} :
                rows'.site[i] # Site!NoSite /\ rows'.site[k] # Site!NoSite => i = k
    BY <1>6 DEF SiteInv, OneUntouched
  <2>7. RuntimeKept' /\ OneUntouched'
    <3>1. jobs' \subseteq jobs \cup {worker.job} /\ worker.job.type = "domain.provision"
      BY <1>1, <1>2 DEF Site!ByDomain
    <3>2. \A i \in Site!Ids : rows'.site[i] = rows.site[i] \/ DomOf(i) = "addon"
      BY <1>6, <2>1
    <3> QED
      BY <1>1, <2>1, <2>5, <2>6, <3>1, <3>2, SiteAskedKept
  <2>8. SitesApplied'
    <3>1. WorkerCovers("addon")' /\ ~WorkerCovers("primary") /\ \A i : ~SiteCollapses(i)
      BY <1>1, <2>1 DEF WorkerCovers, SiteCollapses
    <3>2. \A i \in Site!Ids : DomOf(i) # "addon" =>
              /\ rows'.site[i] = rows.site[i] /\ DomOf(i) = "primary"
              /\ Site!ConfOf(rows.site[i])' = Site!ConfOf(rows.site[i])
      BY <1>6, <2>1, SiteIds DEF Site!ConfOf, Site!Aliases
    <3>3. \A i \in Site!Ids : \/ WorkerCovers(DomOf(i))'
                              \/ /\ rows'.site[i] = rows.site[i]
                                 /\ Site!ConfOf(rows.site[i])' = Site!ConfOf(rows.site[i])
                                 /\ ~WorkerCovers(DomOf(i)) /\ ~SiteCollapses(i)
      BY <3>1, <3>2
    <3> QED
      BY <1>1, <2>1, <3>1, <3>3, SiteStaysApplied
  <2> QED
    BY <1>1, <1>2, <1>4, <1>6, <2>1, <2>3, <2>4, <2>7, <2>8, SiteGoesOn DEF SiteShapes
<1>7. ASSUME d # "alias", NEW r \in Site!Runtimes PROVE [dom |-> d, runtime |-> Or(r)] \in Site!Site
  BY <1>2, <1>3, <1>7 DEF Site!Site, Site!Domains
<1>8. CASE /\ d # "alias" /\ Site!FindSite(d) = {}
           /\ rows' = [rows EXCEPT !.site[worker.job.n + 2] = new]
           /\ worker' = [worker EXCEPT !.pc = "apply", !.id = worker.job.n + 2, !.copy = new]
  <2>1. PICK id \in Site!Ids \ {1} : id = worker.job.n + 2
    BY <1>3
  <2>2. PICK copy \in Site!Site : copy = new /\ copy.dom = d
    BY <1>7, <1>8 DEF Site!Runtimes
  <2>3. \A i \in Site!Ids \ {1} : rows.site[i] = Site!NoSite
    <3>1. \A i \in Site!Ids : rows.site[i].dom # "addon"
      BY <1>2, <1>8 DEF Site!FindSite, Site!SitesOf
    <3> QED
      BY <3>1, SiteRows, SiteIds
  <2>4. rows' = [rows EXCEPT !.site = [rows.site EXCEPT ![id] = copy]]
    BY <1>2, <1>8, <2>1, <2>2 DEF SiteRow
  <2>5. worker' = [worker EXCEPT !.pc = "apply", !.id = id, !.copy = copy]
    BY <1>8, <2>1, <2>2
  <2>6. /\ rows' \in SiteRow /\ rows'.domain = rows.domain /\ rows'.app = rows.app
        /\ rows'.site[id] = copy /\ \A i \in Site!Ids : i # id => rows'.site[i] = rows.site[i]
    BY <1>2, <2>1, <2>2, <2>4 DEF SiteRow
  <2> QED
    <3>1. id \in Site!Ids \ {1} /\ copy \in Site!Site /\ copy.dom = d /\ d # "alias" /\ d = "addon"
      BY <1>2, <1>8, <2>1, <2>2
    <3> QED
      BY <1>6, <2>3, <2>5, <2>6, <3>1
<1>9. ASSUME d # "alias", NEW i \in Site!FindSite(d), UNCHANGED rows,
             worker' = [worker EXCEPT !.pc = "apply", !.id = i,
                           !.copy = [dom |-> d, runtime |-> Or(rows.site[i].runtime)]]
      PROVE  SiteInv'
  <2>1. i \in Site!Ids /\ rows.site[i].dom = "addon"
    BY <1>2, <1>9 DEF Site!FindSite, Site!SitesOf
  <2>2. rows.site[i] \in Site!Site /\ i # 1 /\ rows.site[i].runtime \in Site!Runtimes
    BY <2>1, SiteRows, SiteIds DEF Site!Site, Site!Domains
  <2>3. PICK copy \in Site!Site : copy = [dom |-> d, runtime |-> Or(rows.site[i].runtime)]
    BY <1>7, <1>9, <2>2
  <2>4. copy.dom = d /\ worker' = [worker EXCEPT !.pc = "apply", !.id = i, !.copy = copy]
    BY <1>9, <2>3
  <2> QED
    BY <1>2, <1>6, <1>9, <2>1, <2>2, <2>3, <2>4
<1> QED
  BY <1>5, <1>8, <1>9 DEF Site!EnsureDomainStack

\* The files after a site's was written and others of its domain removed.
LEMMA SiteConf ==
    ASSUME SiteInv, NEW id \in Site!Ids, NEW s \in Site!Site, s.dom = DomOf(id), NEW conf,
           rows.site[id] # Site!NoSite,
           conf = Site!RetireOtherSites([host.conf EXCEPT ![id] = Site!ConfOf(s)], id, s.dom)
    PROVE  /\ conf \in [Site!Ids -> Site!Conf \cup {Site!NoConf}]
           /\ conf[id] = Site!ConfOf(s)
           /\ \A i \in Site!Ids : conf[i] = host.conf[i] \/ DomOf(i) = DomOf(id)
           /\ id = 1 => \A i \in Site!Ids : i # 1 => conf[i] = host.conf[i]
           /\ \A i \in Site!Ids : conf[i] # Site!NoConf =>
                 rows.site[i] # Site!NoSite /\ conf[i].dom = DomOf(i)
<1>1. host \in SiteHost
  BY SiteTyped DEF SiteShapes
<1>2. PICK c \in Site!Conf : c = Site!ConfOf(s) /\ c.dom = s.dom
  <2>1. Site!Aliases(s.dom) \in SUBSET {"alias"} /\ s.dom \in Site!Domains
        /\ s.runtime \in Site!Runtimes
    BY DEF Site!Aliases, Site!Site
  <2>2. Site!ConfOf(s) \in Site!Conf /\ Site!ConfOf(s).dom = s.dom
    BY <2>1 DEF Site!ConfOf, Site!Conf
  <2> QED
    BY <2>2
<1>3. PICK f \in [Site!Ids -> Site!Conf \cup {Site!NoConf}] :
          /\ f = [host.conf EXCEPT ![id] = c]
          /\ f[id] = c /\ \A i \in Site!Ids : i # id => f[i] = host.conf[i]
  <2>1. [host.conf EXCEPT ![id] = c] \in [Site!Ids -> Site!Conf \cup {Site!NoConf}]
    BY <1>1, <1>2 DEF SiteHost
  <2>2. PICK f \in [Site!Ids -> Site!Conf \cup {Site!NoConf}] : f = [host.conf EXCEPT ![id] = c]
    BY <2>1
  <2>3. f[id] = c /\ \A i \in Site!Ids : i # id => f[i] = host.conf[i]
    BY <1>1, <2>2 DEF SiteHost
  <2> QED
    BY <2>2, <2>3
<1>4. conf = [i \in Site!Ids |-> IF i # id /\ f[i].dom = s.dom /\ s.dom # "primary"
                                 THEN Site!NoConf ELSE f[i]]
  BY <1>2, <1>3 DEF Site!RetireOtherSites
<1>5. conf \in [Site!Ids -> Site!Conf \cup {Site!NoConf}] /\ conf[id] = c
  BY <1>3, <1>4
<1>6. \A i \in Site!Ids : i # id =>
          \/ conf[i] = host.conf[i]
          \/ conf[i] = Site!NoConf /\ host.conf[i].dom = s.dom /\ s.dom # "primary"
  BY <1>3, <1>4
<1>7. \A i \in Site!Ids : host.conf[i] # Site!NoConf =>
          rows.site[i] # Site!NoSite /\ host.conf[i].dom = DomOf(i)
  BY DEF SiteInv, SiteRowsNested
<1>8. s.dom # "none" /\ Site!NoConf.dom = "none"
  BY DEF Site!Site, Site!NoConf, Site!Domains
<1> QED
  BY <1>2, <1>5, <1>6, <1>7, <1>8, SiteIds

\* The host once files were written, nginx reloaded or not.
LEMMA SiteFiles ==
    ASSUME SiteInv, NEW conf \in [Site!Ids -> Site!Conf \cup {Site!NoConf}],
           \/ host' = [host EXCEPT !.conf = conf, !.served = conf]
           \/ host' = [host EXCEPT !.conf = conf],
           UNCHANGED <<retired, redeployed>>
    PROVE  /\ host' \in SiteHost /\ host'.conf = conf /\ host'.app = host.app
           /\ JournalDone'
<1>1. host \in SiteHost
  BY SiteTyped DEF SiteShapes
<1>2. /\ host' \in SiteHost /\ host'.conf = conf /\ host'.app = host.app
      /\ host'.journal = host.journal
  BY <1>1 DEF SiteHost
<1> QED
  BY <1>2 DEF SiteInv, JournalDone

LEMMA SiteApply == SiteInv /\ Site!Apply => SiteInv'
<1> SUFFICES ASSUME SiteInv, Site!Apply PROVE SiteInv'
  OBVIOUS
<1> DEFINE id == worker.id
           next == IF Site!ByDomain THEN "runtime" ELSE "put"
           conf == Site!RetireOtherSites([host.conf EXCEPT ![id] = Site!ConfOf(worker.copy)], id,
                                         worker.copy.dom)
<1>1. /\ worker.pc = "apply"
      /\ UNCHANGED <<rows, retired, redeployed>> /\ UNCHANGED <<req, changes, acked, overlap>>
      /\ \/ host' = [host EXCEPT !.conf = conf, !.served = conf] /\ Site!Goto(next)
         \/ host' = [host EXCEPT !.conf = conf] /\ Site!Dropped(next)
         \/ host' = [host EXCEPT !.conf = conf] /\ Site!Retry
         \/ UNCHANGED host /\ Site!Retry
  BY DEF Site!Apply, Site!NoRequest, Site!ApplyWebsite
<1>2. /\ SiteShapes /\ host \in SiteHost /\ id \in Site!Ids /\ rows.site[id] # Site!NoSite
      /\ worker.copy \in Site!Site /\ worker.copy.dom = DomOf(id)
      /\ Site!ByDomain => DomOf(id) = "addon"
  BY <1>1, SiteTyped, SiteIds DEF SiteShapes, SiteInv, SiteStepOfJob, SiteSteps, Site!ByDomain
<1>3. /\ conf \in [Site!Ids -> Site!Conf \cup {Site!NoConf}]
      /\ conf[id] = Site!ConfOf(worker.copy)
      /\ \A i \in Site!Ids : conf[i] = host.conf[i] \/ DomOf(i) = DomOf(id)
      /\ \A i \in Site!Ids : conf[i] # Site!NoConf =>
            rows.site[i] # Site!NoSite /\ conf[i].dom = DomOf(i)
  BY <1>2, SiteConf
<1> HIDE DEF conf
<1>4. CASE UNCHANGED host /\ Site!Retry
  BY <1>1, <1>4, SiteRetry, SiteEndsAlone
<1>5. CASE host' = [host EXCEPT !.conf = conf] /\ Site!Retry
  <2>1. WorkerCovers(DomOf(id))
    BY <1>1 DEF WorkerCovers
  <2>2. /\ worker' = [pc |-> "idle"] /\ failures' \in 0..MaxFailures
        /\ \/ lost' = TRUE /\ jobs' = jobs
           \/ /\ lost' = lost /\ jobs' = jobs \cup {worker.job}
              /\ worker.job.attempts < MaxAttempts
    BY <1>1, <1>5, SiteRetry
  <2>3. host' \in SiteHost /\ host'.conf = conf /\ host'.app = host.app /\ JournalDone'
    BY <1>1, <1>3, <1>5, SiteFiles
  <2> QED
    BY <1>1, <1>3, <2>1, <2>2, <2>3, SiteEnds
<1>6. CASE \/ host' = [host EXCEPT !.conf = conf, !.served = conf] /\ Site!Goto(next)
           \/ host' = [host EXCEPT !.conf = conf] /\ Site!Dropped(next)
  <2>1. /\ worker' = [worker EXCEPT !.pc = next] /\ jobs' = jobs /\ failures' \in 0..MaxFailures
        /\ lost' = TRUE \/ (lost' = lost /\ host'.served = conf)
    BY <1>2, <1>6, SiteDropped DEF Site!Goto, Site!Quiet, SiteShapes, SiteHost
  <2>2. /\ worker' \in SiteRunning /\ worker'.pc = next /\ worker'.job = worker.job
        /\ worker'.id = id /\ worker'.copy = worker.copy
    BY <1>1, <2>1, SiteGoto DEF Site!Steps
  <2>3. host' \in SiteHost /\ host'.conf = conf /\ host'.app = host.app /\ JournalDone'
    BY <1>1, <1>3, <1>6, SiteFiles
  <2>4. SiteStepOfJob' /\ SitesRetired'
    BY <1>1, <2>2 DEF SiteInv, SiteStepOfJob, JobNames, SiteSteps, RetiringSteps, SitesRetired,
       Site!ByDomain
  <2>5. SiteRowsNested'
    BY <1>1, <1>3, <2>3 DEF SiteInv, SiteRowsNested
  <2>6. RuntimeKept' /\ OneUntouched'
    <3>1. \A d : SiteWorksOn(d)' => SiteWorksOn(d)
      BY <1>1, <2>2 DEF SiteWorksOn, SiteSteps
    <3>2. jobs' \subseteq jobs \cup {worker.job} /\ rows'.site = rows.site
      BY <1>1, <2>1
    <3>3. "addon" \notin overlap =>
              \A i, k \in Site!Ids \ {1} :
                  rows.site[i] # Site!NoSite /\ rows.site[k] # Site!NoSite => i = k
      BY DEF SiteInv, OneUntouched
    <3> QED
      BY <1>1, <2>2, <3>1, <3>2, <3>3, SiteAskedKept
  <2>7. SitesApplied'
    <3>1. /\ \A d : /\ d = DomOf(id) => WorkerCovers(d)'
                    /\ WorkerCovers(d) => d = DomOf(id)
          /\ \A i : ~SiteCollapses(i)
      BY <1>1, <1>2, <2>2 DEF WorkerCovers, SiteCollapses, Site!ByDomain
    <3>2. \A i : Site!ConfOf(rows.site[i])' = Site!ConfOf(rows.site[i])
      BY <1>1 DEF Site!ConfOf, Site!Aliases
    <3>3. Site!ConfOf(worker.copy)' = conf[id]
      BY <1>1, <1>3, <2>2 DEF Site!ConfOf, Site!Aliases
    <3>4. \A i \in Site!Ids : \/ WorkerCovers(DomOf(i))'
                              \/ /\ host'.conf[i] = host.conf[i]
                                 /\ ~WorkerCovers(DomOf(i)) /\ ~SiteCollapses(i)
      BY <1>3, <2>3, <3>1
    <3>5. CASE lost' = TRUE
      BY <3>5 DEF SitesApplied
    <3>6. CASE lost' = lost /\ host'.served = conf
      BY <1>1, <2>1, <2>2, <2>3, <3>1, <3>2, <3>3, <3>4, <3>6, SiteStaysApplied
    <3> QED
      BY <2>1, <3>5, <3>6
  <2>8. lost' \in BOOLEAN
    BY <1>2, <2>1 DEF SiteShapes
  <2> QED
    BY <1>1, <1>2, <2>1, <2>2, <2>3, <2>4, <2>5, <2>6, <2>7, <2>8, SiteGoesOn DEF SiteShapes
<1> QED
  BY <1>1, <1>4, <1>5, <1>6

LEMMA SiteReapply == SiteInv /\ Site!ReapplyPrimary => SiteInv'
<1> SUFFICES ASSUME SiteInv, Site!ReapplyPrimary PROVE SiteInv'
  OBVIOUS
<1> DEFINE s == rows.site[1]
           conf == Site!RetireOtherSites([host.conf EXCEPT ![1] = Site!ConfOf(s)], 1, s.dom)
           Ends == IF Site!ByDomain THEN Site!Retry ELSE Site!Dropped("idle")
<1>1. /\ SiteShapes /\ host \in SiteHost /\ 1 \in Site!Ids /\ DomOf(1) = "primary"
      /\ s \in Site!Site /\ s.dom = "primary" /\ s # Site!NoSite
  BY SiteTyped, SiteRows, SiteIds DEF SiteShapes
<1>2. /\ worker.pc = "reapply"
      /\ UNCHANGED <<rows, retired, redeployed>> /\ UNCHANGED <<req, changes, acked, overlap>>
      /\ \/ host' = [host EXCEPT !.conf = conf, !.served = conf] /\ Site!Done
         \/ host' = [host EXCEPT !.conf = conf] /\ (Ends \/ Site!Dropped("idle"))
         \/ UNCHANGED host /\ Ends
  <2>1. \A i \in Site!FindSite("primary") : i = 1
    BY SiteRows, SiteIds DEF Site!FindSite, Site!SitesOf, Site!Domains
  <2> QED
    BY <1>1, <2>1 DEF Site!ReapplyPrimary, Site!NoRequest
<1>3. /\ conf \in [Site!Ids -> Site!Conf \cup {Site!NoConf}]
      /\ conf[1] = Site!ConfOf(s)
      /\ \A i \in Site!Ids : i # 1 => conf[i] = host.conf[i]
      /\ \A i \in Site!Ids : conf[i] # Site!NoConf =>
            rows.site[i] # Site!NoSite /\ conf[i].dom = DomOf(i)
  BY <1>1, SiteConf
<1> HIDE DEF conf
<1>4. Ends \/ Site!Dropped("idle") =>
          /\ worker' = [pc |-> "idle"] /\ failures' \in 0..MaxFailures
          /\ \/ lost' = TRUE /\ jobs' = jobs
             \/ /\ lost' = lost /\ jobs' = jobs \cup {worker.job}
                /\ worker.job.attempts < MaxAttempts
          /\ lost' = TRUE \/ worker.job.type = "domain.provision"
  BY <1>2, SiteRetry, SiteDropped DEF Site!ByDomain
<1> HIDE DEF Ends
<1>5. CASE UNCHANGED host /\ Ends
  BY <1>2, <1>4, <1>5, SiteEndsAlone
<1>6. CASE host' = [host EXCEPT !.conf = conf] /\ (Ends \/ Site!Dropped("idle"))
  <2>1. host' \in SiteHost /\ host'.conf = conf /\ host'.app = host.app /\ JournalDone'
    BY <1>2, <1>3, <1>6, SiteFiles
  <2>2. WorkerCovers(DomOf(1))
    BY <1>1, <1>2 DEF WorkerCovers
  <2> QED
    BY <1>2, <1>3, <1>4, <1>6, <2>1, <2>2, SiteEnds
<1>7. CASE host' = [host EXCEPT !.conf = conf, !.served = conf] /\ Site!Done
  <2>1. host' \in SiteHost /\ host'.conf = conf /\ host'.app = host.app /\ JournalDone'
    BY <1>2, <1>3, <1>7, SiteFiles
  <2>2. /\ worker' = [pc |-> "idle"] /\ worker'.pc = "idle" /\ UNCHANGED <<jobs, failures, lost>>
        /\ host'.served = conf
    BY <1>1, <1>7 DEF Site!Done, Site!Quiet, SiteHost
  <2>3. SiteStepOfJob' /\ SitesRetired' /\ SiteRowsNested'
    BY <1>2, <1>3, <2>1, <2>2 DEF SiteStepOfJob, SitesRetired, SiteInv, SiteRowsNested
  <2>4. RuntimeKept' /\ OneUntouched'
    <3>1. \A d : ~SiteWorksOn(d)'
      BY <2>2 DEF SiteWorksOn, SiteSteps
    <3>2. jobs' \subseteq jobs \cup {worker.job} /\ rows'.site = rows.site
      BY <1>2, <2>2
    <3>3. "addon" \notin overlap =>
              \A i, k \in Site!Ids \ {1} :
                  rows.site[i] # Site!NoSite /\ rows.site[k] # Site!NoSite => i = k
      BY DEF SiteInv, OneUntouched
    <3> QED
      BY <1>2, <2>2, <3>1, <3>2, <3>3, SiteAskedKept
  <2>5. SitesApplied'
    <3>1. /\ \A d : WorkerCovers(d) => d = "primary"
          /\ \A i : ~SiteCollapses(i)
      BY <1>2 DEF WorkerCovers, SiteCollapses
    <3>2. \A i : Site!ConfOf(rows.site[i])' = Site!ConfOf(rows.site[i])
      BY <1>2 DEF Site!ConfOf, Site!Aliases
    <3>3. ~WorkerCovers("addon") /\ \A i \in Site!Ids : i # 1 => ~WorkerCovers(DomOf(i))
      BY <3>1, SiteIds
    <3> QED
      BY <1>2, <1>3, <2>1, <2>2, <3>1, <3>2, <3>3, SiteStaysApplied
  <2> QED
    BY <1>1, <1>2, <2>1, <2>2, <2>3, <2>4, <2>5, SiteGoesOn DEF SiteShapes
<1> QED
  BY <1>2, <1>5, <1>6, <1>7

LEMMA SitePut == SiteInv /\ Site!PutWebsite => SiteInv'
<1> SUFFICES ASSUME SiteInv, Site!PutWebsite PROVE SiteInv'
  OBVIOUS
<1> DEFINE id == worker.id
<1>1. /\ worker.pc = "put" /\ rows' = [rows EXCEPT !.site[id] = worker.copy]
      /\ worker' = [worker EXCEPT !.pc = "collapse"] /\ UNCHANGED <<jobs, failures, lost>>
      /\ UNCHANGED <<host, retired, redeployed>> /\ UNCHANGED <<req, changes, acked, overlap>>
  BY DEF Site!PutWebsite, Site!Goto, Site!Quiet, Site!NoRequest
<1>2. /\ SiteShapes /\ rows \in SiteRow /\ id \in Site!Ids /\ rows.site[id] # Site!NoSite
      /\ worker.copy \in Site!Site /\ worker.copy.dom = DomOf(id)
      /\ Site!ByDomain => worker.job.ref = "addon" /\ id # 1
  BY <1>1, SiteTyped DEF SiteShapes, SiteInv, SiteStepOfJob, SiteSteps, Site!ByDomain
<1>3. rows' = [rows EXCEPT !.site = [rows.site EXCEPT ![id] = worker.copy]]
  BY <1>1, <1>2 DEF SiteRow
<1>4. /\ rows' \in SiteRow /\ rows'.domain = rows.domain /\ rows'.app = rows.app
      /\ rows'.site[id] = worker.copy
      /\ \A i \in Site!Ids : i # id => rows'.site[i] = rows.site[i]
  BY <1>2, <1>3 DEF SiteRow
<1>5. /\ worker' \in SiteRunning /\ worker'.pc = "collapse" /\ worker'.job = worker.job
      /\ worker'.id = id /\ worker'.copy = worker.copy /\ worker.copy # Site!NoSite
  BY <1>1, <1>2, SiteGoto DEF Site!Steps, Site!Site, Site!NoSite, Site!Domains
<1>6. SiteStepOfJob' /\ SitesRetired'
  BY <1>1, <1>4, <1>5 DEF SiteInv, SiteStepOfJob, JobNames, SiteSteps, RetiringSteps, SitesRetired,
     Site!ByDomain
<1>7. SiteRowsNested' /\ JournalDone'
  BY <1>1, <1>2, <1>4, <1>5, SiteIds DEF SiteInv, SiteRowsNested, JournalDone
<1>8. RuntimeKept' /\ OneUntouched'
  <2>1. \A d : SiteWorksOn(d)' => SiteWorksOn(d)
    BY <1>1, <1>5 DEF SiteWorksOn, SiteSteps
  <2>2. \A i \in Site!Ids : rows'.site[i] = Site!NoSite <=> rows.site[i] = Site!NoSite
    BY <1>2, <1>4, <1>5
  <2>3. "addon" \notin overlap =>
            \A i, k \in Site!Ids \ {1} :
                rows'.site[i] # Site!NoSite /\ rows'.site[k] # Site!NoSite => i = k
    BY <2>2 DEF SiteInv, OneUntouched
  <2>4. \/ rows'.site[id] = rows.site[id] \/ SiteUndoes(worker.job, DomOf(id))
        \/ DomOf(id) \in overlap
    <3>1. CASE Site!ByDomain
      BY <1>2, <3>1, SiteIds DEF SiteUndoes, Site!ByDomain
    <3>2. CASE ~Site!ByDomain
      BY <1>1, <1>4, <3>2 DEF SiteInv, RuntimeKept
    <3> QED
      BY <3>1, <3>2
  <2>5. \A i \in Site!Ids : \/ rows'.site[i] = rows.site[i]
                            \/ SiteUndoes(worker.job, DomOf(i)) \/ DomOf(i) \in overlap
    BY <1>4, <2>4
  <2>6. jobs' \subseteq jobs \cup {worker.job}
    BY <1>1
  <2> QED
    BY <1>1, <1>5, <2>1, <2>2, <2>3, <2>5, <2>6, SiteAskedKept
<1>9. SitesApplied'
  <2>1. CASE lost
    BY <1>1, <2>1 DEF SitesApplied
  <2>2. CASE ~lost
    <3>1. /\ \A d : WorkerCovers(d) => d = DomOf(id)
          /\ \A i : ~SiteCollapses(i)
          /\ \A i : DomOf(i) = DomOf(id) => SiteCollapses(i)'
      BY <1>1, <1>5 DEF WorkerCovers, SiteCollapses
    <3>2. \A i : rows'.site[i] = rows.site[i] =>
                     Site!ConfOf(rows.site[i])' = Site!ConfOf(rows.site[i])
      BY <1>4 DEF Site!ConfOf, Site!Aliases
    <3>3. host'.conf[id] = Site!ConfOf(rows.site[id])' \/ (id = 1 /\ SiteAliasWaits)
      <4>1. \/ host.conf[id] = Site!ConfOf(worker.copy)
            \/ id = 1 /\ SiteAliasWaits
        BY <1>1, <2>2 DEF SiteInv, SitesApplied, FilesApplied
      <4> QED
        BY <1>1, <1>4, <1>5, <4>1 DEF Site!ConfOf, Site!Aliases
    <3>4. \A i \in Site!Ids \ {id} :
              \/ SiteCollapses(i)' /\ worker'.id # i
              \/ rows'.site[i] = rows.site[i] /\ ~WorkerCovers(DomOf(i))
      BY <1>4, <1>5, <3>1
    <3>5. \A i \in Site!Ids \ {1} : SiteCollapses(i)' \/ ~WorkerCovers("addon")
      BY <3>1, SiteIds
    <3>6. \A i \in Site!Ids : rows'.site[i] # Site!NoSite <=> rows.site[i] # Site!NoSite
      BY <1>2, <1>4, <1>5
    <3>7. \A i \in Site!Ids :
              \/ host'.conf[i] = Site!ConfOf(rows.site[i])' \/ (i = 1 /\ SiteAliasWaits)
              \/ i # id
      BY <1>5, <3>3
    <3> QED
      BY <1>1, <1>4, <1>5, <3>1, <3>2, <3>4, <3>5, <3>6, <3>7, SiteStaysApplied
  <2> QED
    BY <1>2, <2>1, <2>2 DEF SiteShapes
<1> QED
  BY <1>1, <1>2, <1>4, <1>5, <1>6, <1>7, <1>8, <1>9, SiteGoesOn DEF SiteShapes

\* The host without the files and units of some sites.
SiteLess(h, ids, g) ==
    /\ g \in SiteHost /\ g.journal = h.journal
    /\ \A i \in Site!Ids :
          /\ i \in ids => g.conf[i] = Site!NoConf /\ g.app[i] = h.app[i] \cap {"dir"}
          /\ i \notin ids => g.conf[i] = h.conf[i] /\ g.app[i] = h.app[i]
LEMMA SiteUnsited ==
    ASSUME NEW h \in SiteHost, NEW ids
    PROVE  /\ SiteLess(h, ids, Site!Unsited(h, ids))
           /\ SiteLess(h, ids, Site!Reload(Site!Unsited(h, ids)))
           /\ Site!Reload(Site!Unsited(h, ids)).served = Site!Reload(Site!Unsited(h, ids)).conf
<1>1. PICK c \in [Site!Ids -> Site!Conf \cup {Site!NoConf}] :
          c = [i \in Site!Ids |-> IF i \in ids THEN Site!NoConf ELSE h.conf[i]]
  <2>1. [i \in Site!Ids |-> IF i \in ids THEN Site!NoConf ELSE h.conf[i]]
            \in [Site!Ids -> Site!Conf \cup {Site!NoConf}]
    BY DEF SiteHost
  <2> QED
    BY <2>1
<1>2. PICK a \in [Site!Ids -> SUBSET {"unit", "sock", "dir"}] :
          a = [i \in Site!Ids |-> IF i \in ids THEN h.app[i] \cap {"dir"} ELSE h.app[i]]
  <2>1. [i \in Site!Ids |-> IF i \in ids THEN h.app[i] \cap {"dir"} ELSE h.app[i]]
            \in [Site!Ids -> SUBSET {"unit", "sock", "dir"}]
    BY DEF SiteHost
  <2> QED
    BY <2>1
<1>3. PICK u : u = Site!Unsited(h, ids) /\ u = [h EXCEPT !.conf = c, !.app = a]
  BY <1>1, <1>2 DEF Site!Unsited
<1>4. u \in SiteHost /\ u.conf = c /\ u.app = a /\ u.journal = h.journal
  BY <1>1, <1>2, <1>3 DEF SiteHost
<1>5. \A i \in Site!Ids :
          /\ i \in ids => c[i] = Site!NoConf /\ a[i] = h.app[i] \cap {"dir"}
          /\ i \notin ids => c[i] = h.conf[i] /\ a[i] = h.app[i]
  BY <1>1, <1>2
<1>6. SiteLess(h, ids, u)
  BY <1>4, <1>5 DEF SiteLess
<1>7. PICK g : g = Site!Reload(Site!Unsited(h, ids)) /\ g = [u EXCEPT !.served = u.conf]
  BY <1>3 DEF Site!Reload
<1>8. g \in SiteHost /\ g.conf = c /\ g.app = a /\ g.journal = h.journal /\ g.served = c
  BY <1>4, <1>7 DEF SiteHost
<1>9. SiteLess(h, ids, g)
  BY <1>5, <1>8 DEF SiteLess
<1> QED
  BY <1>3, <1>6, <1>7, <1>8, <1>9

LEMMA SiteUnsitedOne ==
    ASSUME SiteInv, NEW i \in Site!Ids,
           \/ host' = Site!Unsited(host, {i})
           \/ host' = Site!Reload(Site!Unsited(host, {i}))
    PROVE  /\ host' \in SiteHost /\ host'.journal = host.journal
           /\ host'.conf[i] = Site!NoConf /\ host'.app[i] = host.app[i] \cap {"dir"}
           /\ \A k \in Site!Ids \ {i} : host'.conf[k] = host.conf[k] /\ host'.app[k] = host.app[k]
           /\ host' = Site!Reload(Site!Unsited(host, {i})) => host'.served = host'.conf
<1>1. host \in SiteHost
  BY SiteTyped DEF SiteShapes
<1> QED
  BY <1>1, SiteUnsited DEF SiteLess

\* Fewer files of applications than before.
LEMMA SiteShrinks ==
    ASSUME SiteInv, \A i \in Site!Ids : host'.app[i] \subseteq host.app[i],
           host'.journal = host.journal, UNCHANGED <<retired, redeployed>>
    PROVE  JournalDone'
<1> SUFFICES ASSUME NEW i \in Site!Ids \ redeployed
             PROVE  /\ host.journal[i] >= 2 => "sock" \notin host'.app[i]
                    /\ host.journal[i] >= 3 => "unit" \notin host'.app[i]
                    /\ host.journal[i] >= 4 => "dir" \notin host'.app[i]
                    /\ i \in retired => host'.app[i] = {}
  BY DEF JournalDone
<1>1. host'.app[i] \subseteq host.app[i]
  OBVIOUS
<1> QED
  BY <1>1 DEF SiteInv, JournalDone

LEMMA SiteDrop ==
    ASSUME SiteInv, NEW ids, NEW r, r = Site!Drop(ids)
    PROVE  /\ r \in SiteRow /\ r.domain = rows.domain
           /\ \A i \in Site!Ids :
                 /\ i \in ids => r.site[i] = Site!NoSite /\ r.app[i] = "none"
                 /\ i \notin ids => r.site[i] = rows.site[i] /\ r.app[i] = rows.app[i]
<1>1. rows \in SiteRow
  BY SiteTyped DEF SiteShapes
<1>2. PICK s \in [Site!Ids -> Site!Site \cup {Site!NoSite}] :
          s = [i \in Site!Ids |-> IF i \in ids THEN Site!NoSite ELSE rows.site[i]]
  <2>1. [i \in Site!Ids |-> IF i \in ids THEN Site!NoSite ELSE rows.site[i]]
            \in [Site!Ids -> Site!Site \cup {Site!NoSite}]
    BY <1>1 DEF SiteRow
  <2> QED
    BY <2>1
<1>3. PICK a \in [Site!Ids -> Site!Status] :
          a = [i \in Site!Ids |-> IF i \in ids THEN "none" ELSE rows.app[i]]
  <2>1. [i \in Site!Ids |-> IF i \in ids THEN "none" ELSE rows.app[i]] \in [Site!Ids -> Site!Status]
    BY <1>1 DEF SiteRow, Site!Status
  <2> QED
    BY <2>1
<1>4. r = [rows EXCEPT !.site = s, !.app = a]
  BY <1>2, <1>3 DEF Site!Drop
<1>5. \A i \in Site!Ids :
          /\ i \in ids => s[i] = Site!NoSite /\ a[i] = "none"
          /\ i \notin ids => s[i] = rows.site[i] /\ a[i] = rows.app[i]
  BY <1>2, <1>3
<1> QED
  BY <1>1, <1>4, <1>5 DEF SiteRow

\* One site goes, with its files, its unit and its application.
LEMMA SiteGone ==
    ASSUME SiteInv, NEW i \in Site!Ids \ {1}, rows' = Site!Drop({i}),
           \/ host' = Site!Unsited(host, {i})
           \/ host' = Site!Reload(Site!Unsited(host, {i})),
           UNCHANGED <<retired, redeployed>>
    PROVE  /\ rows' \in SiteRow /\ host' \in SiteHost /\ SiteRowsNested' /\ JournalDone'
           /\ rows'.domain = rows.domain /\ rows'.site[i] = Site!NoSite
           /\ \A k \in Site!Ids \ {i} : /\ rows'.site[k] = rows.site[k] /\ rows'.app[k] = rows.app[k]
                                        /\ host'.conf[k] = host.conf[k]
           /\ \A k \in Site!Ids : rows'.site[k] = rows.site[k] =>
                 Site!ConfOf(rows.site[k])' = Site!ConfOf(rows.site[k])
           /\ host' = Site!Reload(Site!Unsited(host, {i})) => host'.served = host'.conf
<1>2. /\ host' \in SiteHost /\ host'.journal = host.journal
      /\ host'.conf[i] = Site!NoConf /\ host'.app[i] = host.app[i] \cap {"dir"}
      /\ \A k \in Site!Ids \ {i} : host'.conf[k] = host.conf[k] /\ host'.app[k] = host.app[k]
      /\ host' = Site!Reload(Site!Unsited(host, {i})) => host'.served = host'.conf
  BY SiteUnsitedOne
<1>3. /\ rows' \in SiteRow /\ rows'.domain = rows.domain /\ rows'.site[i] = Site!NoSite
      /\ rows'.app[i] = "none"
      /\ \A k \in Site!Ids \ {i} : rows'.site[k] = rows.site[k] /\ rows'.app[k] = rows.app[k]
  BY SiteDrop
<1>4. JournalDone'
  BY <1>2, SiteShrinks
<1>5. SiteRowsNested'
  <2>1. "unit" \notin host'.app[i] /\ rows'.site[1] = rows.site[1]
    BY <1>2, <1>3, SiteIds
  <2>2. ASSUME NEW k \in Site!Ids
        PROVE  /\ rows'.site[k] # Site!NoSite =>
                     rows'.site[k].dom = DomOf(k) /\ DomOf(k) \in rows'.domain
               /\ rows'.app[k] # "none" => rows'.site[k] # Site!NoSite
               /\ host'.conf[k] # Site!NoConf =>
                     rows'.site[k] # Site!NoSite /\ host'.conf[k].dom = DomOf(k)
               /\ "unit" \in host'.app[k] => rows'.site[k] # Site!NoSite
    <3>1. CASE k = i
      BY <1>2, <1>3, <2>1, <3>1
    <3>2. CASE k # i
      BY <1>2, <1>3, <3>2 DEF SiteInv, SiteRowsNested
    <3> QED
      BY <3>1, <3>2
  <2> QED
    BY <2>1, <2>2 DEF SiteInv, SiteRowsNested
<1>6. \A k \in Site!Ids : rows'.site[k] = rows.site[k] =>
          Site!ConfOf(rows.site[k])' = Site!ConfOf(rows.site[k])
  BY <1>3 DEF Site!ConfOf, Site!Aliases
<1> QED
  BY <1>2, <1>3, <1>4, <1>5, <1>6

LEMMA SiteCollapse == SiteInv /\ Site!CollapseDomainWebsites => SiteInv'
<1> SUFFICES ASSUME SiteInv, Site!CollapseDomainWebsites PROVE SiteInv'
  OBVIOUS
<1> DEFINE id == worker.id
           others == Site!SitesOf(worker.copy.dom) \ {id}
<1>1. /\ worker.pc = "collapse" /\ UNCHANGED <<retired, redeployed>>
      /\ UNCHANGED <<req, changes, acked, overlap>>
      /\ \/ /\ others = {} /\ UNCHANGED <<rows, host>>
            /\ IF Site!ByDomain THEN Site!Done ELSE Site!Goto("runtime")
         \/ \E i \in others :
              /\ rows' = Site!Drop({i})
              /\ \/ host' = Site!Reload(Site!Unsited(host, {i})) /\ Site!Goto("collapse")
                 \/ host' = Site!Unsited(host, {i}) /\ Site!Dropped("collapse")
  BY DEF Site!CollapseDomainWebsites, Site!NoRequest
<1>2. /\ SiteShapes /\ id \in Site!Ids /\ rows.site[id] # Site!NoSite
      /\ worker.copy.dom = DomOf(id)
  BY <1>1, SiteTyped DEF SiteShapes, SiteInv, SiteStepOfJob, SiteSteps
<1>3. \A i \in Site!Ids : i \in others <=> rows.site[i] # Site!NoSite /\ DomOf(i) = DomOf(id) /\ i # id
  BY <1>2, SiteRows, SiteIds DEF Site!SitesOf, Site!Domains
<1>4. /\ \A d : ~WorkerCovers(d)
      /\ \A i : SiteCollapses(i) <=> DomOf(i) = DomOf(id)
  BY <1>1 DEF WorkerCovers, SiteCollapses
<1>5. CASE /\ others = {} /\ UNCHANGED <<rows, host>>
           /\ IF Site!ByDomain THEN Site!Done ELSE Site!Goto("runtime")
  <2>1. /\ UNCHANGED <<jobs, failures, lost>>
        /\ \/ worker' = [pc |-> "idle"]
           \/ worker' = [worker EXCEPT !.pc = "runtime"] /\ ~Site!ByDomain
    BY <1>5 DEF Site!Done, Site!Goto, Site!Quiet
  <2>2. \/ worker' = [pc |-> "idle"] /\ worker'.pc = "idle"
        \/ /\ worker' \in SiteRunning /\ worker'.pc = "runtime" /\ worker'.job = worker.job
           /\ worker'.id = id /\ worker'.copy = worker.copy /\ ~Site!ByDomain'
    BY <1>1, <2>1, SiteGoto DEF Site!Steps, Site!ByDomain
  <2>3. SiteStepOfJob' /\ SitesRetired' /\ SiteRowsNested' /\ JournalDone'
    BY <1>1, <1>5, <2>2 DEF SiteInv, SiteStepOfJob, JobNames, SiteSteps, RetiringSteps,
       SitesRetired, SiteRowsNested, JournalDone, Site!ByDomain
  <2>4. RuntimeKept' /\ OneUntouched'
    <3>1. \A d : SiteWorksOn(d)' => SiteWorksOn(d)
      BY <1>1, <2>2 DEF SiteWorksOn, SiteSteps
    <3>2. jobs' \subseteq jobs \cup {worker.job} /\ rows'.site = rows.site
      BY <1>5, <2>1
    <3>3. "addon" \notin overlap =>
              \A i, k \in Site!Ids \ {1} :
                  rows.site[i] # Site!NoSite /\ rows.site[k] # Site!NoSite => i = k
      BY DEF SiteInv, OneUntouched
    <3> QED
      BY <1>1, <2>2, <3>1, <3>2, <3>3, SiteAskedKept
  <2>5. SitesApplied'
    <3>1. \A i : Site!ConfOf(rows.site[i])' = Site!ConfOf(rows.site[i])
      BY <1>5 DEF Site!ConfOf, Site!Aliases
    <3>2. \A i \in Site!Ids : rows.site[i] # Site!NoSite => ~(SiteCollapses(i) /\ worker.id # i)
      BY <1>3, <1>4, <1>5
    <3>3. \A i, k \in Site!Ids \ {1} :
              rows.site[i] # Site!NoSite /\ rows.site[k] # Site!NoSite /\ i # k => ~SiteCollapses(i)
      BY <1>3, <1>4, <1>5, SiteIds
    <3> QED
      BY <1>1, <1>4, <1>5, <2>1, <2>2, <3>1, <3>2, <3>3, SiteStaysApplied
  <2> QED
    BY <1>1, <1>2, <1>5, <2>1, <2>2, <2>3, <2>4, <2>5, SiteGoesOn DEF SiteShapes
<1>6. ASSUME NEW i \in others, rows' = Site!Drop({i}),
             \/ host' = Site!Reload(Site!Unsited(host, {i})) /\ Site!Goto("collapse")
             \/ host' = Site!Unsited(host, {i}) /\ Site!Dropped("collapse")
      PROVE  SiteInv'
  <2>1. /\ i \in Site!Ids /\ rows.site[i] # Site!NoSite /\ i # id /\ i # 1 /\ id # 1
        /\ DomOf(i) = "addon" /\ DomOf(id) = "addon" /\ "addon" \in overlap
    <3>1. i \in Site!Ids
      BY <1>6 DEF Site!SitesOf
    <3>2. rows.site[i] # Site!NoSite /\ DomOf(i) = DomOf(id) /\ i # id
      BY <1>3, <1>6, <3>1
    <3>3. i # 1 /\ id # 1 /\ DomOf(i) = "addon" /\ DomOf(id) = "addon"
      BY <1>2, <3>1, <3>2, SiteIds
    <3> QED
      BY <1>2, <3>1, <3>2, <3>3 DEF SiteInv, OneUntouched
  <2>2. /\ rows' \in SiteRow /\ host' \in SiteHost /\ SiteRowsNested' /\ JournalDone'
        /\ rows'.domain = rows.domain /\ rows'.site[i] = Site!NoSite
        /\ \A k \in Site!Ids \ {i} : /\ rows'.site[k] = rows.site[k] /\ rows'.app[k] = rows.app[k]
                                     /\ host'.conf[k] = host.conf[k]
        /\ \A k \in Site!Ids : rows'.site[k] = rows.site[k] =>
              Site!ConfOf(rows.site[k])' = Site!ConfOf(rows.site[k])
        /\ host' = Site!Reload(Site!Unsited(host, {i})) => host'.served = host'.conf
    BY <1>1, <1>6, <2>1, SiteGone
  <2>3. /\ worker' = [worker EXCEPT !.pc = "collapse"] /\ jobs' = jobs
        /\ failures' \in 0..MaxFailures
        /\ lost' = TRUE \/ (lost' = lost /\ host'.served = host'.conf)
    BY <1>2, <1>6, <2>2, SiteDropped DEF Site!Goto, Site!Quiet, SiteShapes
  <2>4. /\ worker' \in SiteRunning /\ worker'.pc = "collapse" /\ worker'.job = worker.job
        /\ worker'.id = id /\ worker'.copy = worker.copy
    BY <1>1, <2>3, SiteGoto DEF Site!Steps
  <2>5. SiteStepOfJob' /\ SitesRetired'
    BY <1>1, <1>2, <2>1, <2>2, <2>4 DEF SiteInv, SiteStepOfJob, JobNames, SiteSteps,
       RetiringSteps, SitesRetired, Site!ByDomain
  <2>6. RuntimeKept' /\ OneUntouched'
    <3>1. \A d : SiteWorksOn(d)' => SiteWorksOn(d)
      BY <1>1, <2>4 DEF SiteWorksOn, SiteSteps
    <3>2. jobs' \subseteq jobs \cup {worker.job}
      BY <2>3
    <3>3. \A k \in Site!Ids : rows'.site[k] = rows.site[k] \/ DomOf(k) \in overlap
      BY <2>1, <2>2
    <3> QED
      BY <1>1, <2>1, <2>4, <3>1, <3>2, <3>3, SiteAskedKept
  <2>7. SitesApplied'
    <3>1. \A k : SiteCollapses(k)' <=> DomOf(k) = "addon"
      BY <2>1, <2>4 DEF SiteCollapses
    <3>2. CASE lost' = TRUE
      BY <3>2 DEF SitesApplied
    <3>3. CASE lost' = lost /\ host'.served = host'.conf
      <4>1. \A k \in Site!Ids : rows'.site[k] # Site!NoSite => k # i
        BY <2>2
      <4> QED
        BY <1>1, <1>4, <2>1, <2>2, <2>3, <2>4, <3>1, <3>3, <4>1, SiteIds, SiteStaysApplied
    <3> QED
      BY <2>3, <3>2, <3>3
  <2>8. lost' \in BOOLEAN
    BY <1>2, <2>3 DEF SiteShapes
  <2> QED
    BY <1>1, <1>2, <2>2, <2>3, <2>4, <2>5, <2>6, <2>7, <2>8, SiteGoesOn DEF SiteShapes
<1> QED
  BY <1>1, <1>5, <1>6

LEMMA SiteDeleteWebsite == SiteInv /\ Site!DeleteWebsite => SiteInv'
<1> SUFFICES ASSUME SiteInv, Site!DeleteWebsite PROVE SiteInv'
  OBVIOUS
<1> DEFINE id == worker.id
<1>1. /\ worker.pc = "retireSite" /\ UNCHANGED <<retired, redeployed>>
      /\ UNCHANGED <<req, changes, acked, overlap>>
      /\ \/ /\ host' = Site!Reload(Site!Unsited(host, {id})) /\ rows' = Site!Drop({id})
            /\ Site!Done
         \/ host' = Site!Unsited(host, {id}) /\ Site!Retry /\ UNCHANGED rows
  BY DEF Site!DeleteWebsite, Site!NoRequest
<1>2. /\ SiteShapes /\ host \in SiteHost /\ id \in Site!Ids \ {1}
      /\ worker.job.type = "website.delete"
  BY <1>1, SiteTyped DEF SiteShapes, SiteInv, SiteStepOfJob, JobNames
<1>3. CASE host' = Site!Unsited(host, {id}) /\ Site!Retry /\ UNCHANGED rows
  <2>1. /\ host' \in SiteHost /\ host'.journal = host.journal
        /\ host'.conf[id] = Site!NoConf /\ host'.app[id] = host.app[id] \cap {"dir"}
        /\ \A i \in Site!Ids \ {id} : host'.conf[i] = host.conf[i] /\ host'.app[i] = host.app[i]
    BY <1>2, <1>3, SiteUnsitedOne
  <2>2. JournalDone'
    BY <1>1, <2>1, SiteShrinks
  <2>3. /\ worker' = [pc |-> "idle"] /\ failures' \in 0..MaxFailures
        /\ \/ lost' = TRUE /\ jobs' = jobs
           \/ /\ lost' = lost /\ jobs' = jobs \cup {worker.job}
              /\ worker.job.attempts < MaxAttempts
    BY <1>1, <1>3, SiteRetry
  <2>4. \A i \in Site!Ids :
            /\ host'.conf[i] # Site!NoConf =>
                  rows.site[i] # Site!NoSite /\ host'.conf[i].dom = DomOf(i)
            /\ "unit" \in host'.app[i] => "unit" \in host.app[i]
    BY <2>1 DEF SiteInv, SiteRowsNested
  <2> QED
    BY <1>1, <1>3, <2>1, <2>2, <2>3, <2>4, SiteEnds
<1>4. CASE /\ host' = Site!Reload(Site!Unsited(host, {id})) /\ rows' = Site!Drop({id})
           /\ Site!Done
  <2>1. /\ rows' \in SiteRow /\ host' \in SiteHost /\ SiteRowsNested' /\ JournalDone'
        /\ rows'.domain = rows.domain /\ rows'.site[id] = Site!NoSite
        /\ \A k \in Site!Ids \ {id} : rows'.site[k] = rows.site[k] /\ host'.conf[k] = host.conf[k]
        /\ \A k \in Site!Ids : rows'.site[k] = rows.site[k] =>
              Site!ConfOf(rows.site[k])' = Site!ConfOf(rows.site[k])
        /\ host'.served = host'.conf
    BY <1>1, <1>2, <1>4, SiteGone
  <2>2. worker' = [pc |-> "idle"] /\ worker'.pc = "idle" /\ UNCHANGED <<jobs, failures, lost>>
    BY <1>4 DEF Site!Done, Site!Quiet
  <2>3. SiteStepOfJob' /\ SitesRetired'
    BY <2>2 DEF SiteStepOfJob, SitesRetired
  <2>4. DomOf(id) = "addon" /\ SiteWorksOn("addon") /\ SiteUndoes(worker.job, "addon")
    BY <1>1, <1>2, SiteIds DEF SiteWorksOn, SiteUndoes
  <2>5. RuntimeKept' /\ OneUntouched'
    <3>1. \A d : ~SiteWorksOn(d)'
      BY <2>2 DEF SiteWorksOn, SiteSteps
    <3>2. jobs' \subseteq jobs \cup {worker.job}
      BY <2>2
    <3>3. \A k \in Site!Ids : rows'.site[k] = rows.site[k] \/ DomOf(k) = "addon"
      BY <2>1, <2>4
    <3>4. "addon" \notin overlap =>
              \A i, k \in Site!Ids \ {1} :
                  rows'.site[i] # Site!NoSite /\ rows'.site[k] # Site!NoSite => i = k
      BY <2>1 DEF SiteInv, OneUntouched
    <3> QED
      BY <1>1, <2>2, <2>4, <3>1, <3>2, <3>3, <3>4, SiteAskedKept
  <2>6. SitesApplied'
    <3>1. /\ \A d : ~WorkerCovers(d)
          /\ \A i : ~SiteCollapses(i)
      BY <1>1 DEF WorkerCovers, SiteCollapses
    <3>2. \A k \in Site!Ids : rows'.site[k] # Site!NoSite => k # id
      BY <2>1
    <3> QED
      BY <2>1, <2>2, <3>1, <3>2, SiteStaysApplied
  <2> QED
    BY <1>1, <1>2, <2>1, <2>2, <2>3, <2>5, <2>6, SiteGoesOn DEF SiteShapes
<1> QED
  BY <1>1, <1>3, <1>4

\* RetireDomain stops at a site; those before it were reloaded, or none was.
LEMMA SiteRetiresSome ==
    ASSUME SiteInv, NEW ids \in SUBSET Site!Ids, NEW done \in SUBSET ids,
           host' = Site!Unsited(IF done = {} THEN host ELSE Site!Reload(Site!Unsited(host, done)),
                                ids)
    PROVE  /\ host' \in SiteHost /\ host'.journal = host.journal
           /\ \A i \in Site!Ids : /\ i \in ids => host'.conf[i] = Site!NoConf
                                  /\ i \notin ids => host'.conf[i] = host.conf[i]
                                  /\ host'.app[i] \subseteq host.app[i]
<1>1. host \in SiteHost
  BY SiteTyped DEF SiteShapes
<1>2. PICK u : u = Site!Reload(Site!Unsited(host, done))
  OBVIOUS
<1>3. /\ u \in SiteHost /\ u.journal = host.journal
      /\ \A i \in Site!Ids :
            /\ i \in done => u.conf[i] = Site!NoConf /\ u.app[i] = host.app[i] \cap {"dir"}
            /\ i \notin done => u.conf[i] = host.conf[i] /\ u.app[i] = host.app[i]
  BY <1>1, <1>2, SiteUnsited DEF SiteLess
<1>4. PICK h : h = (IF done = {} THEN host ELSE u) /\ host' = Site!Unsited(h, ids)
  BY <1>2
<1>5. /\ h \in SiteHost /\ h.journal = host.journal
      /\ \A i \in Site!Ids : /\ i \notin done => h.conf[i] = host.conf[i]
                             /\ h.app[i] \subseteq host.app[i]
  BY <1>1, <1>3, <1>4
<1>6. SiteLess(h, ids, host')
  BY <1>4, <1>5, SiteUnsited
<1> QED
  BY <1>5, <1>6 DEF SiteLess

LEMMA SiteRetireDomain == SiteInv /\ Site!RetireDomain => SiteInv'
<1> SUFFICES ASSUME SiteInv, Site!RetireDomain PROVE SiteInv'
  OBVIOUS
<1>1. /\ worker.pc = "retireDomain"
      /\ UNCHANGED <<rows, retired, redeployed>> /\ UNCHANGED <<req, changes, acked, overlap>>
      /\ \/ /\ host' = Site!Reload(Site!Unsited(host, worker.id))
            /\ worker' = [worker EXCEPT !.pc = "delApps"] /\ UNCHANGED <<jobs, failures, lost>>
         \/ /\ \E ids \in SUBSET worker.id : \E done \in SUBSET ids :
                  host' = Site!Unsited(IF done = {} THEN host
                                       ELSE Site!Reload(Site!Unsited(host, done)), ids)
            /\ Site!Retry
  BY DEF Site!RetireDomain, Site!Goto, Site!Quiet, Site!NoRequest
<1>2. /\ SiteShapes /\ host \in SiteHost /\ worker.id \subseteq Site!Ids \ {1}
      /\ worker.id # {} => worker.job.ref = "addon"
  BY <1>1, SiteTyped DEF SiteShapes, SiteInv, SiteStepOfJob, RetiringSteps
<1>3. \A i \in worker.id : DomOf(i) = "addon" /\ worker.job.ref = "addon" /\ WorkerCovers(DomOf(i))
  <2>1. \A i \in worker.id : DomOf(i) = "addon" /\ worker.job.ref = "addon"
    BY <1>2, SiteIds
  <2> QED
    BY <1>1, <2>1 DEF WorkerCovers
<1>4. CASE /\ \E ids \in SUBSET worker.id : \E done \in SUBSET ids :
                 host' = Site!Unsited(IF done = {} THEN host
                                      ELSE Site!Reload(Site!Unsited(host, done)), ids)
           /\ Site!Retry
  <2>1. PICK ids \in SUBSET worker.id :
            \E done \in SUBSET ids :
                host' = Site!Unsited(IF done = {} THEN host
                                     ELSE Site!Reload(Site!Unsited(host, done)), ids)
    BY <1>4
  <2>2. /\ host' \in SiteHost /\ host'.journal = host.journal
        /\ \A i \in Site!Ids : /\ i \in ids => host'.conf[i] = Site!NoConf
                               /\ i \notin ids => host'.conf[i] = host.conf[i]
                               /\ host'.app[i] \subseteq host.app[i]
    BY <1>2, <2>1, SiteRetiresSome
  <2>3. JournalDone'
    BY <1>1, <2>2, SiteShrinks
  <2>4. /\ worker' = [pc |-> "idle"] /\ failures' \in 0..MaxFailures
        /\ \/ lost' = TRUE /\ jobs' = jobs
           \/ /\ lost' = lost /\ jobs' = jobs \cup {worker.job}
              /\ worker.job.attempts < MaxAttempts
    BY <1>1, <1>4, SiteRetry
  <2>5. \A i \in Site!Ids :
            /\ host'.conf[i] # Site!NoConf =>
                  rows.site[i] # Site!NoSite /\ host'.conf[i].dom = DomOf(i)
            /\ "unit" \in host'.app[i] => "unit" \in host.app[i]
    BY <2>2 DEF SiteInv, SiteRowsNested
  <2>6. \A i \in Site!Ids : host'.conf[i] = host.conf[i] \/ WorkerCovers(DomOf(i))
    BY <1>3, <2>1, <2>2
  <2> QED
    BY <1>1, <2>2, <2>3, <2>4, <2>5, <2>6, SiteEnds
<1>5. CASE /\ host' = Site!Reload(Site!Unsited(host, worker.id))
           /\ worker' = [worker EXCEPT !.pc = "delApps"] /\ UNCHANGED <<jobs, failures, lost>>
  <2>1. SiteLess(host, worker.id, host') /\ host'.served = host'.conf
    BY <1>2, <1>5, SiteUnsited
  <2>2. /\ host' \in SiteHost /\ host'.journal = host.journal /\ host'.served = host'.conf
        /\ \A i \in Site!Ids :
              /\ i \in worker.id => host'.conf[i] = Site!NoConf /\ "unit" \notin host'.app[i]
              /\ i \notin worker.id => host'.conf[i] = host.conf[i] /\ host'.app[i] = host.app[i]
              /\ host'.app[i] \subseteq host.app[i]
    BY <2>1 DEF SiteLess
  <2>3. /\ worker' \in SiteRunning /\ worker'.pc = "delApps" /\ worker'.job = worker.job
        /\ worker'.id = worker.id
    BY <1>1, <1>5, SiteGoto DEF Site!Steps
  <2>4. JournalDone'
    BY <1>1, <2>2, SiteShrinks
  <2>5. SiteStepOfJob'
    BY <1>1, <2>3 DEF SiteInv, SiteStepOfJob, JobNames, SiteSteps, RetiringSteps
  <2>6. SitesRetired'
    <3>1. \A i \in Site!Ids : rows.site[i].dom = worker.job.ref => SiteBare(i)'
      BY <1>1, <2>2 DEF SiteInv, SitesRetired, SiteBare
    <3> QED
      BY <1>1, <2>2, <2>3, <3>1 DEF SitesRetired
  <2>7. SiteRowsNested'
    <3>1. \A i \in Site!Ids :
              /\ host'.conf[i] # Site!NoConf => host'.conf[i] = host.conf[i]
              /\ "unit" \in host'.app[i] => "unit" \in host.app[i]
      BY <2>2
    <3> QED
      BY <1>1, <3>1 DEF SiteInv, SiteRowsNested
  <2>8. RuntimeKept' /\ OneUntouched'
    <3>1. \A d : ~SiteWorksOn(d)'
      BY <2>3 DEF SiteWorksOn, SiteSteps
    <3>2. jobs' \subseteq jobs \cup {worker.job} /\ rows'.site = rows.site
      BY <1>1, <1>5
    <3>3. "addon" \notin overlap =>
              \A i, k \in Site!Ids \ {1} :
                  rows.site[i] # Site!NoSite /\ rows.site[k] # Site!NoSite => i = k
      BY DEF SiteInv, OneUntouched
    <3> QED
      BY <1>1, <2>3, <3>1, <3>2, <3>3, SiteAskedKept
  <2>9. SitesApplied'
    <3>1. /\ \A d : WorkerCovers(d) => WorkerCovers(d)'
          /\ \A i : ~SiteCollapses(i)
      BY <1>1, <2>3 DEF WorkerCovers, SiteCollapses
    <3>2. \A i : Site!ConfOf(rows.site[i])' = Site!ConfOf(rows.site[i])
      BY <1>1 DEF Site!ConfOf, Site!Aliases
    <3>3. \A i \in Site!Ids : \/ WorkerCovers(DomOf(i))'
                              \/ host'.conf[i] = host.conf[i] /\ ~WorkerCovers(DomOf(i))
      BY <1>3, <2>2, <3>1
    <3> QED
      BY <1>1, <1>5, <2>2, <2>3, <3>1, <3>2, <3>3, SiteStaysApplied
  <2> QED
    BY <1>1, <1>2, <1>5, <2>2, <2>3, <2>4, <2>5, <2>6, <2>7, <2>8, <2>9, SiteGoesOn
       DEF SiteShapes
<1> QED
  BY <1>1, <1>4, <1>5

LEMMA SiteDeleteSites == SiteInv /\ Site!DeleteSites => SiteInv'
<1> SUFFICES ASSUME SiteInv, Site!DeleteSites PROVE SiteInv'
  OBVIOUS
<1> DEFINE d == worker.job.ref
           ids == Site!SitesOf(d)
           kept == \E i \in ids : rows.app[i] # "none"
<1>1. /\ worker.pc = "delSites" /\ worker' = [worker EXCEPT !.pc = "delDomain"]
      /\ rows' = (IF kept THEN rows ELSE Site!Drop(ids)) /\ lost' = (lost \/ kept)
      /\ UNCHANGED <<jobs, failures>> /\ UNCHANGED <<host, retired, redeployed>>
      /\ UNCHANGED <<req, changes, acked, overlap>>
  BY DEF Site!DeleteSites, Site!NoRequest
<1>2. /\ SiteShapes /\ rows \in SiteRow /\ worker.job.type = "domain.delete" /\ d \in rows.domain
      /\ d \in {"addon", "alias"} /\ d \in overlap
  BY <1>1, SiteTyped DEF SiteShapes, SiteInv, SiteStepOfJob, RetiringSteps, JobNames
<1>3. /\ worker' \in SiteRunning /\ worker'.pc = "delDomain" /\ worker'.job = worker.job
      /\ worker'.id = worker.id
  BY <1>1, SiteGoto DEF Site!Steps
<1>4. /\ \A i \in Site!Ids : i \in ids <=> rows.site[i] # Site!NoSite /\ DomOf(i) = d
      /\ 1 \notin ids
      /\ \A i \in ids : i \in Site!Ids /\ SiteBare(i)
  <2>1. \A i \in Site!Ids : i \in ids <=> rows.site[i] # Site!NoSite /\ DomOf(i) = d
    BY <1>2, SiteRows DEF Site!SitesOf, Site!Domains
  <2>2. \A i \in ids : i \in Site!Ids /\ SiteBare(i)
    BY <1>1 DEF SiteInv, SitesRetired, Site!SitesOf
  <2> QED
    BY <1>2, <2>1, <2>2, SiteIds
<1>5. /\ rows' \in SiteRow /\ rows'.domain = rows.domain
      /\ kept => rows' = rows
      /\ ~kept => \A i \in Site!Ids :
             /\ i \in ids => rows'.site[i] = Site!NoSite /\ rows'.app[i] = "none"
             /\ i \notin ids => rows'.site[i] = rows.site[i] /\ rows'.app[i] = rows.app[i]
  <2>1. CASE kept
    BY <1>1, <1>2, <2>1
  <2>2. CASE ~kept
    <3>1. PICK s : s = ids
      OBVIOUS
    <3>2. PICK r : r = rows' /\ r = Site!Drop(s)
      BY <1>1, <2>2, <3>1
    <3>3. /\ r \in SiteRow /\ r.domain = rows.domain
          /\ \A i \in Site!Ids :
                /\ i \in s => r.site[i] = Site!NoSite /\ r.app[i] = "none"
                /\ i \notin s => r.site[i] = rows.site[i] /\ r.app[i] = rows.app[i]
      BY <3>2, SiteDrop
    <3> QED
      BY <2>2, <3>1, <3>2, <3>3
  <2> QED
    BY <2>1, <2>2
<1> HIDE DEF ids, kept
<1>6. \A i \in Site!Ids : /\ i \notin ids => rows'.site[i] = rows.site[i] /\ rows'.app[i] = rows.app[i]
                          /\ i \in ids => \/ rows'.site[i] = Site!NoSite /\ rows'.app[i] = "none"
                                          \/ /\ rows'.site[i] = rows.site[i] /\ kept
                                             /\ rows'.app[i] = rows.app[i]
  BY <1>5
<1>7. SiteStepOfJob'
  BY <1>1, <1>2, <1>3, <1>5 DEF SiteInv, SiteStepOfJob, JobNames, SiteSteps, RetiringSteps
<1>8. SitesRetired' /\ JournalDone' /\ host.served = host.conf
  BY <1>1, <1>3 DEF SiteInv, SitesRetired, JournalDone
<1>9. SiteRowsNested'
  <2>1. rows'.site[1] = rows.site[1]
    BY <1>4, <1>6, SiteIds
  <2>2. ASSUME NEW i \in Site!Ids
        PROVE  /\ rows'.site[i] # Site!NoSite =>
                     rows'.site[i].dom = DomOf(i) /\ DomOf(i) \in rows.domain
               /\ rows'.app[i] # "none" => rows'.site[i] # Site!NoSite
               /\ host.conf[i] # Site!NoConf =>
                     rows'.site[i] # Site!NoSite /\ host.conf[i].dom = DomOf(i)
               /\ "unit" \in host.app[i] => rows'.site[i] # Site!NoSite
    <3>1. CASE i \in ids /\ rows'.site[i] = Site!NoSite /\ rows'.app[i] = "none"
      BY <1>4, <3>1 DEF SiteBare
    <3>2. CASE rows'.site[i] = rows.site[i] /\ rows'.app[i] = rows.app[i]
      BY <3>2 DEF SiteInv, SiteRowsNested
    <3> QED
      BY <1>6, <3>1, <3>2
  <2> QED
    BY <1>1, <1>5, <2>1, <2>2 DEF SiteInv, SiteRowsNested
<1>10. RuntimeKept' /\ OneUntouched'
  <2>1. \A e : ~SiteWorksOn(e)'
    BY <1>3 DEF SiteWorksOn, SiteSteps
  <2>2. jobs' \subseteq jobs \cup {worker.job}
    BY <1>1
  <2>3. \A i \in Site!Ids : rows'.site[i] = rows.site[i] \/ DomOf(i) \in overlap
    BY <1>2, <1>4, <1>6
  <2>4. "addon" \notin overlap =>
            \A i, k \in Site!Ids \ {1} :
                rows'.site[i] # Site!NoSite /\ rows'.site[k] # Site!NoSite => i = k
    BY <1>6 DEF SiteInv, OneUntouched
  <2> QED
    BY <1>1, <1>3, <2>1, <2>2, <2>3, <2>4, SiteAskedKept
<1>11. SitesApplied'
  <2>1. CASE lost'
    BY <2>1 DEF SitesApplied
  <2>2. CASE ~lost'
    <3>1. ~lost /\ lost' = lost /\ ~kept
      BY <1>1, <1>2, <2>2 DEF SiteShapes, kept
    <3>2. /\ \A e : WorkerCovers(e) => e = d
          /\ \A i : ~SiteCollapses(i)
      BY <1>1 DEF WorkerCovers, SiteCollapses
    <3>3. \A i \in Site!Ids : rows'.site[i] # Site!NoSite =>
              /\ rows'.site[i] = rows.site[i] /\ ~WorkerCovers(DomOf(i))
      BY <1>4, <1>6, <3>1, <3>2
    <3>4. \A i : rows'.site[i] = rows.site[i] =>
                     Site!ConfOf(rows.site[i])' = Site!ConfOf(rows.site[i])
      BY <1>5 DEF Site!ConfOf, Site!Aliases
    <3>5. \A i \in Site!Ids \ {1} : DomOf(i) = "addon"
      BY SiteIds
    <3> QED
      BY <1>1, <1>3, <1>8, <3>1, <3>2, <3>3, <3>4, <3>5, SiteStaysApplied
  <2> QED
    BY <2>1, <2>2
<1>12. lost' \in BOOLEAN
  BY <1>1, <1>2 DEF SiteShapes, kept
<1> QED
  BY <1>1, <1>2, <1>3, <1>5, <1>7, <1>8, <1>9, <1>10, <1>11, <1>12, SiteGoesOn DEF SiteShapes

LEMMA SiteDeleteDomain == SiteInv /\ Site!DeleteDomain => SiteInv'
<1> SUFFICES ASSUME SiteInv, Site!DeleteDomain PROVE SiteInv'
  OBVIOUS
<1> DEFINE d == worker.job.ref
           kept == Site!SitesOf(d) # {}
<1>1. /\ worker.pc = "delDomain"
      /\ rows' = (IF kept THEN rows ELSE [rows EXCEPT !.domain = @ \ {d}])
      /\ lost' = (lost \/ kept)
      /\ worker' = IF d = "alias" THEN [worker EXCEPT !.pc = "reapply"] ELSE [pc |-> "idle"]
      /\ UNCHANGED <<jobs, failures>> /\ UNCHANGED <<host, retired, redeployed>>
      /\ UNCHANGED <<req, changes, acked, overlap>>
  BY DEF Site!DeleteDomain, Site!NoRequest
<1>2. /\ SiteShapes /\ rows \in SiteRow /\ worker.job.type = "domain.delete"
      /\ d \in {"addon", "alias"} /\ JobNames(worker.job) /\ host.served = host.conf
  BY <1>1, SiteTyped DEF SiteShapes, SiteInv, SiteStepOfJob, RetiringSteps, JobNames, SitesRetired
<1>3. /\ rows' \in SiteRow /\ rows'.site = rows.site /\ rows'.app = rows.app
      /\ rows'.domain = IF kept THEN rows.domain ELSE rows.domain \ {d}
  BY <1>1, <1>2 DEF SiteRow
<1>4. \/ d = "addon" /\ worker' = [pc |-> "idle"] /\ worker'.pc = "idle"
      \/ /\ d = "alias" /\ worker' \in SiteRunning /\ worker'.pc = "reapply"
         /\ worker'.job = worker.job
  BY <1>1, <1>2, SiteGoto DEF Site!Steps
<1>5. SiteStepOfJob' /\ SitesRetired' /\ JournalDone'
  BY <1>1, <1>2, <1>4 DEF SiteStepOfJob, JobNames, SiteSteps, RetiringSteps, SitesRetired,
     SiteInv, JournalDone
<1>6. SiteRowsNested'
  <2>1. \A i \in Site!Ids : rows.site[i] # Site!NoSite => DomOf(i) \in rows'.domain
    <3>1. CASE kept
      BY <1>3, <3>1, SiteRows
    <3>2. CASE ~kept
      <4>1. \A i \in Site!Ids : rows.site[i].dom # d
        BY <3>2 DEF Site!SitesOf
      <4> QED
        BY <1>3, <3>2, <4>1, SiteRows
    <3> QED
      BY <3>1, <3>2
  <2> QED
    BY <1>1, <1>3, <2>1 DEF SiteInv, SiteRowsNested
<1>7. RuntimeKept' /\ OneUntouched'
  <2>1. \A e : ~SiteWorksOn(e)'
    BY <1>4 DEF SiteWorksOn, SiteSteps
  <2>2. jobs' \subseteq jobs \cup {worker.job}
    BY <1>1
  <2>3. "addon" \notin overlap =>
            \A i, k \in Site!Ids \ {1} :
                rows.site[i] # Site!NoSite /\ rows.site[k] # Site!NoSite => i = k
    BY DEF SiteInv, OneUntouched
  <2> QED
    BY <1>1, <1>3, <1>4, <2>1, <2>2, <2>3, SiteAskedKept
<1> HIDE DEF kept
<1>8. SitesApplied'
  <2>1. CASE lost'
    BY <2>1 DEF SitesApplied
  <2>2. CASE ~lost'
    <3>1. lost' = lost
      BY <1>1, <1>2, <2>2 DEF SiteShapes, kept
    <3>2. /\ \A e : ~WorkerCovers(e)
          /\ \A i : ~SiteCollapses(i)
      BY <1>1 DEF WorkerCovers, SiteCollapses
    <3>3. \A i \in Site!Ids : rows.site[i] # Site!NoSite =>
              \/ Site!ConfOf(rows.site[i])' = Site!ConfOf(rows.site[i])
              \/ WorkerCovers(DomOf(i))'
      <4>1. CASE d = "alias"
        <5>1. WorkerCovers("primary")' /\ worker'.pc = "reapply"
          BY <1>4, <4>1 DEF WorkerCovers
        <5>2. \A i \in Site!Ids : rows.site[i] # Site!NoSite =>
                  DomOf(i) = "primary" \/ rows.site[i].dom # "primary"
          BY SiteRows
        <5>3. \A i \in Site!Ids : rows.site[i].dom # "primary" =>
                  Site!ConfOf(rows.site[i])' = Site!ConfOf(rows.site[i])
          BY <1>3 DEF Site!ConfOf, Site!Aliases
        <5> QED
          BY <5>1, <5>2, <5>3
      <4>2. CASE d # "alias"
        <5>1. rows'.domain \cap {"alias"} = rows.domain \cap {"alias"}
          BY <1>3, <4>2
        <5> QED
          BY <1>3, <5>1 DEF Site!ConfOf, Site!Aliases
      <4> QED
        BY <4>1, <4>2
    <3> QED
      BY <1>1, <1>2, <1>3, <1>4, <3>1, <3>2, <3>3, SiteStaysApplied
  <2> QED
    BY <2>1, <2>2
<1>9. lost' \in BOOLEAN
  BY <1>1, <1>2 DEF SiteShapes, kept
<1> QED
  BY <1>1, <1>2, <1>3, <1>4, <1>5, <1>6, <1>7, <1>8, <1>9, SiteGoesOn DEF SiteShapes

LEMMA SiteInitially == Site!Init => SiteInv
<1> SUFFICES ASSUME Site!Init PROVE SiteInv
  OBVIOUS
<1>1. PICK ds \in {{"primary"}, {"primary", "addon"}} :
        LET made == [i \in Site!Ids |->
                        IF i = 1 THEN [dom |-> "primary", runtime |-> "php"]
                        ELSE IF i = 2 /\ "addon" \in ds
                        THEN [dom |-> "addon", runtime |-> "node"] ELSE Site!NoSite]
            conf == [i \in Site!Ids |->
                        IF made[i] = Site!NoSite THEN Site!NoConf
                        ELSE [dom |-> made[i].dom, runtime |-> made[i].runtime, aliases |-> {}]]
        IN /\ rows = [domain |-> ds, site |-> made, app |-> [i \in Site!Ids |-> "none"]]
           /\ host = [conf |-> conf, served |-> conf,
                      app |-> [i \in Site!Ids |-> IF made[i].runtime = "node"
                                                  THEN {"unit", "sock", "dir"} ELSE {}],
                      journal |-> [i \in Site!Ids |-> 0]]
  BY DEF Site!Init
<1> DEFINE made == [i \in Site!Ids |->
                       IF i = 1 THEN [dom |-> "primary", runtime |-> "php"]
                       ELSE IF i = 2 /\ "addon" \in ds
                       THEN [dom |-> "addon", runtime |-> "node"] ELSE Site!NoSite]
           conf == [i \in Site!Ids |->
                       IF made[i] = Site!NoSite THEN Site!NoConf
                       ELSE [dom |-> made[i].dom, runtime |-> made[i].runtime, aliases |-> {}]]
           units == [i \in Site!Ids |-> IF made[i].runtime = "node"
                                        THEN {"unit", "sock", "dir"} ELSE {}]
<1>2. /\ rows = [domain |-> ds, site |-> made, app |-> [i \in Site!Ids |-> "none"]]
      /\ host = [conf |-> conf, served |-> conf, app |-> units,
                 journal |-> [i \in Site!Ids |-> 0]]
  BY <1>1
<1>3. /\ req = Site!NoReq /\ jobs = {} /\ worker = [pc |-> "idle"] /\ worker.pc = "idle"
      /\ changes = 0 /\ failures = 0 /\ acked = [d \in Site!Domains |-> "any"]
      /\ overlap = {} /\ retired = {} /\ redeployed = {} /\ lost = FALSE
  BY DEF Site!Init
<1>4. ASSUME NEW i \in Site!Ids
      PROVE  /\ made[i] \in Site!Site \cup {Site!NoSite}
             /\ made[i] # Site!NoSite => made[i].dom = DomOf(i) /\ DomOf(i) \in ds
             /\ made[i] # Site!NoSite /\ i # 1 => i = 2
             /\ made[i] = Site!NoSite => made[i].runtime = "none"
             /\ i = 1 => made[i] # Site!NoSite
  BY <1>4 DEF Site!Site, Site!NoSite, Site!Domains, Site!Runtimes, DomOf
<1>5. made \in [Site!Ids -> Site!Site \cup {Site!NoSite}]
  BY <1>4
<1> HIDE DEF made
<1>6. ASSUME NEW i \in Site!Ids
      PROVE  /\ conf[i] \in Site!Conf \cup {Site!NoConf}
             /\ made[i] # Site!NoSite =>
                   conf[i] = [dom |-> made[i].dom, runtime |-> made[i].runtime, aliases |-> {}]
             /\ conf[i] # Site!NoConf => made[i] # Site!NoSite /\ conf[i].dom = made[i].dom
             /\ units[i] \in SUBSET {"unit", "sock", "dir"}
             /\ "unit" \in units[i] => made[i] # Site!NoSite
  <2>1. CASE made[i] = Site!NoSite
    BY <1>4, <1>6, <2>1
  <2>2. CASE made[i] # Site!NoSite
    <3>1. made[i].dom \in Site!Domains /\ made[i].runtime \in Site!Runtimes
      BY <1>4, <1>6, <2>2 DEF Site!Site
    <3> QED
      BY <1>6, <2>2, <3>1 DEF Site!Conf
  <2> QED
    BY <2>1, <2>2
<1>7. /\ conf \in [Site!Ids -> Site!Conf \cup {Site!NoConf}]
      /\ units \in [Site!Ids -> SUBSET {"unit", "sock", "dir"}]
  BY <1>6
<1> HIDE DEF conf, units
<1>8. /\ rows.domain = ds /\ rows.site = made /\ host.conf = conf /\ host.served = conf
      /\ host.app = units /\ (\A i \in Site!Ids : rows.app[i] = "none" /\ host.journal[i] = 0)
      /\ req.kind = "none" /\ \A d \in Site!Domains : acked[d] = "any"
  BY <1>2, <1>3 DEF Site!NoReq
<1>9. SiteShapes
  <2>1. rows \in SiteRow
    BY <1>2, <1>5 DEF SiteRow, Site!Domains, Site!Status
  <2>2. host \in SiteHost
    BY <1>2, <1>7 DEF SiteHost
  <2>3. acked \in [Site!Domains -> Site!Runtimes \cup {"any"}]
    BY <1>3
  <2>4. changes \in 0..MaxChanges /\ failures \in 0..MaxFailures
    BY <1>3, Bounds
  <2>5. SiteWorker /\ jobs \subseteq SiteJob /\ lost \in BOOLEAN
    BY <1>3 DEF SiteWorker
  <2>6. overlap \subseteq Site!Domains /\ retired \subseteq Site!Ids /\ redeployed \subseteq Site!Ids
    BY <1>3
  <2> QED
    BY <2>1, <2>2, <2>3, <2>4, <2>5, <2>6 DEF SiteShapes
<1>10. SiteJobs /\ SiteReq /\ SiteStepOfJob /\ SitesRetired
  BY <1>3 DEF SiteJobs, SiteReq, SiteStepOfJob, SitesRetired
<1>11. SiteRowsNested
  <2>1. rows.site[1] # Site!NoSite
    BY <1>4, <1>8, SiteIds
  <2>2. ASSUME NEW i \in Site!Ids
        PROVE  /\ made[i] # Site!NoSite => made[i].dom = DomOf(i) /\ DomOf(i) \in ds
               /\ conf[i] # Site!NoConf => made[i] # Site!NoSite /\ conf[i].dom = DomOf(i)
               /\ "unit" \in units[i] => made[i] # Site!NoSite
    BY <1>4, <1>6, <2>2
  <2> QED
    BY <1>8, <2>1, <2>2 DEF SiteRowsNested
<1>12. JournalDone
  BY <1>3, <1>8 DEF JournalDone
<1>13. RuntimeKept
  BY <1>3, <1>8 DEF RuntimeKept, Site!RuntimeLostOnlyByOverlap
<1>14. OneUntouched
  BY <1>4, <1>8 DEF OneUntouched
<1>15. SitesApplied
  <2>1. ASSUME NEW i \in Site!Ids, rows.site[i] # Site!NoSite
        PROVE  host.conf[i] = Site!ConfOf(rows.site[i])
    <3>1. Site!Aliases(made[i].dom) = {}
      BY <1>8 DEF Site!Aliases
    <3> QED
      BY <1>6, <1>8, <2>1, <3>1 DEF Site!ConfOf
  <2>2. FilesApplied
    BY <1>3, <2>1 DEF FilesApplied
  <2>3. SitesCollapse
    BY <1>4, <1>8 DEF SitesCollapse
  <2>4. FilesServed
    BY <1>8 DEF FilesServed
  <2> QED
    BY <2>2, <2>3, <2>4 DEF SitesApplied
<1> QED
  BY <1>9, <1>10, <1>11, <1>12, <1>13, <1>14, <1>15, SiteTyped DEF SiteInv

\* Every step of the sites keeps their invariant.
LEMMA SiteStep == SiteInv /\ (Site!Next \/ UNCHANGED Site!vars) => SiteInv'
<1>1. ASSUME SiteInv, UNCHANGED Site!vars PROVE SiteInv'
  <2>1. UNCHANGED <<rows, host, req, jobs, worker, changes, failures, acked, overlap, retired,
                    redeployed, lost>>
    BY <1>1 DEF Site!vars
  <2>2. SiteShapes
    BY <1>1, SiteTyped
  <2>3. SiteReq' /\ RuntimeKept' /\ OneUntouched'
    <3>1. \A d \in Site!Domains \ overlap' : acked'[d] \in {acked[d], "any"}
      BY <2>1
    <3>2. RuntimeKept' /\ OneUntouched'
      BY <1>1, <2>1, <3>1, SiteAskedAlone
    <3> QED
      BY <1>1, <2>1, <3>2 DEF SiteInv, SiteReq
  <2>4. \A i \in Site!Ids : rows.app[i] # "none" => rows.site[i] # Site!NoSite
    BY <1>1 DEF SiteInv, SiteRowsNested
  <2> QED
    BY <1>1, <2>1, <2>2, <2>3, <2>4, SiteRequests DEF SiteShapes
<1>2. ASSUME SiteInv, Site!Work PROVE SiteInv'
  BY <1>2, SiteStack, SiteApply, SiteApplyRuntime, SitePut, SiteCollapse, SiteDeleteWebsite,
     SiteReapply, SiteRetireDomain, SiteDeleteApps, SiteDeleteSites, SiteDeleteDomain,
     SiteDeployApp, SitePutApp, SiteRetireStep, SiteRetireEnd DEF Site!Work
<1> QED
  BY <1>1, <1>2, SiteRequest, SiteClaim, SiteCrash DEF Site!Next

LEMMA SiteCardinality == \A S : Site!Cardinality(S) = Cardinality(S)
  BY Zenon DEF Site!Cardinality, Cardinality

\* What the invariant says of the sites.
LEMMA SiteHolds ==
    SiteInv => /\ Site!SitesAgreeWhenSettled /\ Site!OneSitePerDomain
               /\ Site!RuntimeLostOnlyByOverlap /\ Site!RetirementIsWhole /\ Site!NoOrphanUnits
<1> SUFFICES ASSUME SiteInv
             PROVE  /\ Site!SitesAgreeWhenSettled /\ Site!OneSitePerDomain
                    /\ Site!RuntimeLostOnlyByOverlap /\ Site!RetirementIsWhole
                    /\ Site!NoOrphanUnits
  OBVIOUS
<1>1. Site!RuntimeLostOnlyByOverlap
  BY DEF SiteInv, RuntimeKept
<1>2. Site!RetirementIsWhole
  BY SiteTyped DEF SiteInv, SiteShapes, JournalDone, Site!RetirementIsWhole
<1>3. Site!NoOrphanUnits
  BY DEF SiteInv, SiteRowsNested, Site!NoOrphanUnits
<1>4. ASSUME Site!Settled
      PROVE  /\ \A i \in Site!Ids : rows.site[i] # Site!NoSite =>
                    host.conf[i] = Site!ConfOf(rows.site[i])
             /\ \A i, k \in Site!Ids \ {1} :
                    rows.site[i] # Site!NoSite /\ rows.site[k] # Site!NoSite => i = k
             /\ host.served = host.conf
  <2>1. worker.pc = "idle" /\ jobs = {} /\ ~lost
    BY <1>4 DEF Site!Settled
  <2>2. /\ \A d : ~SiteCovered(d)
        /\ \A i : ~SiteGoes(i) /\ ~SiteCollapses(i)
        /\ ~ReloadComes
    BY <2>1 DEF SiteCovered, WorkerCovers, SiteGoes, SiteCollapses, ReloadComes
  <2>3. FilesApplied /\ SitesCollapse /\ FilesServed
    BY <2>1 DEF SiteInv, SitesApplied
  <2> QED
    BY <2>2, <2>3 DEF FilesApplied, SitesCollapse, FilesServed
<1>5. Site!SitesAgreeWhenSettled
  BY <1>4, SiteRows DEF Site!SitesAgreeWhenSettled, SiteBare
<1>6. Site!OneSitePerDomain
  <2> SUFFICES ASSUME Site!Settled, NEW d \in Site!Domains
               PROVE  Site!Cardinality(Site!SitesOf(d)) <= 1
    BY DEF Site!OneSitePerDomain
  <2>1. \A i, k \in Site!SitesOf(d) : i = k
    <3>1. \A i \in Site!SitesOf(d) : i \in Site!Ids /\ rows.site[i] # Site!NoSite /\ DomOf(i) = d
      BY SiteRows DEF Site!SitesOf
    <3> QED
      BY <1>4, <3>1, SiteIds
  <2>2. Site!SitesOf(d) = {} \/ \E i : Site!SitesOf(d) = {i}
    BY <2>1
  <2>3. Cardinality(Site!SitesOf(d)) <= 1
    <3>1. CASE Site!SitesOf(d) = {}
      <4>1. Cardinality(Site!SitesOf(d)) = 0
        BY <3>1, FS_EmptySet
      <4> QED
        BY <4>1
    <3>2. ASSUME NEW i, Site!SitesOf(d) = {i} PROVE Cardinality(Site!SitesOf(d)) <= 1
      <4>1. Cardinality(Site!SitesOf(d)) = 1
        BY <3>2, FS_Singleton
      <4> QED
        BY <4>1
    <3> QED
      BY <2>2, <3>1, <3>2
  <2> QED
    BY <2>3, SiteCardinality
<1> QED
  BY <1>1, <1>2, <1>3, <1>5, <1>6
=============================================================================
