----------------------------- MODULE MailHosting -----------------------------
(***************************************************************************)
(* The mail of the hosted domains: the rows requests change, the worker's  *)
(* applyMailStack (internal/job/worker.go), which renders the mail maps of *)
(* the whole host from a snapshot of the rows (internal/mail/maps.go), and *)
(* the agent's files (agent/operations/stack.go, dkim.go, retire.go).      *)
(*                                                                         *)
(* One worker process runs, as deployed.  Requests commit their row and    *)
(* their job in one transaction (module ResourceRequests) between any two  *)
(* of its steps.  A domain has at most one mailbox, one alias, which leads *)
(* to it, and one catch-all address.  The accounts are in service:         *)
(* AccountReconcile has their termination.                                 *)
(***************************************************************************)
EXTENDS Integers, Sequences, FiniteSets

CONSTANTS Domains,       \* domains that are not the primary one
          Owner,         \* Owner[d]: the account of domain d
          MaxChanges,    \* bound: requests
          MaxAttempts,   \* max_attempts of a job (5 in the code)
          MaxFailures    \* bound: failed calls and crashes

VARIABLES rows,      \* the tables
          host,      \* the files of the mail services
          jobs,      \* jobs that wait, the one that runs left out
          worker,    \* where the attempt is
          changes,   \* bound: requests so far; numbers jobs and mailboxes
          failures,  \* bound: failed calls and crashes so far
          acked,     \* history: the mailbox the last request asked for
          overlap,   \* history: domains with a mailbox request inside an
                     \* attempt that works on that mailbox or that domain
          retired,   \* history: domains whose files RetireDomain removed
          lost       \* history: a job failed for good, or deleteDomain
                     \* ended without having applied the maps

vars == <<rows, host, jobs, worker, changes, failures, acked, overlap, retired,
          lost>>

Box == [id : Nat, hash : Nat, status : {"none", "provisioning", "active"}]
NoBox == [id |-> 0, hash |-> 0, status |-> "none"]

\* The maps in the order applyMailMaps renames them, and the ones Postfix
\* reads in the form postmap compiles.
MapFiles == <<"virtual", "vdomains", "passwd", "uids", "gids", "limits",
              "aliases", "senders">>
Compiled == <<"virtual", "vdomains", "uids", "gids", "aliases", "senders">>
FirstOf(seq, n) == {seq[i] : i \in 1..n}
MapNames == FirstOf(MapFiles, Len(MapFiles))
Entry == Domains \X {"box", "all", "alias"} \X Nat
Maps == [MapNames -> SUBSET Entry]

Types == {"mailbox.provision", "mailbox.delete", "mail.alias", "mail.maps",
          "domain.delete"}
Job == [n : Nat, type : Types, dom : Domains, box : Nat, attempts : Nat]
Steps == {"idle", "retire", "delAliases", "delBoxes", "delMailDomain",
          "delZone", "delDomain", "snapDomains", "snapBoxes", "homes",
          "catchall", "maps", "postmap", "dkim", "publish", "sign", "put"}

Recipients(snap) == {d \in snap.domains : snap.box[d].id # 0}

TypeOK ==
    /\ rows \in [domain : SUBSET Domains, mail : SUBSET Domains,
                 zone : SUBSET Domains, catchall : SUBSET Domains,
                 alias : SUBSET Domains, box : [Domains -> Box]]
    /\ host \in [homes : SUBSET (Domains \X {"box", "all"}),
                 files : Maps, db : Maps,
                 key : [Domains -> Nat], served : [Domains -> Nat],
                 signing : SUBSET Domains]
    /\ jobs \subseteq Job
    /\ worker.pc \in Steps
    /\ worker.pc # "idle" => worker.job \in Job
    /\ changes \in 0..MaxChanges /\ failures \in 0..MaxFailures
    /\ acked \in [Domains -> Box]
    /\ overlap \subseteq Domains /\ retired \subseteq Domains
    /\ lost \in BOOLEAN

NoMaps == [f \in MapNames |-> {}]
NoSnap == [domains |-> {}, catchall |-> {}, alias |-> {},
           box |-> [d \in Domains |-> NoBox]]

\* The domains are provisioned, without a mailbox, and their maps applied.
Init ==
    /\ rows = [domain |-> Domains, mail |-> Domains, zone |-> Domains,
               catchall |-> {}, alias |-> {},
               box |-> [d \in Domains |-> NoBox]]
    /\ host = [homes |-> {},
               files |-> [NoMaps EXCEPT !["vdomains"] =
                              {<<d, "box", 0>> : d \in Domains}],
               db |-> [NoMaps EXCEPT !["vdomains"] =
                              {<<d, "box", 0>> : d \in Domains}],
               key |-> [d \in Domains |-> 0],
               served |-> [d \in Domains |-> 0], signing |-> {}]
    /\ jobs = {}
    /\ worker = [pc |-> "idle"]
    /\ changes = 0 /\ failures = 0
    /\ acked = [d \in Domains |-> NoBox]
    /\ overlap = {} /\ retired = {}
    /\ lost = FALSE

-----------------------------------------------------------------------------
(* Requests: a row and its job in one transaction.                         *)

Enqueue(type, d, id) ==
    /\ changes < MaxChanges
    /\ changes' = changes + 1
    /\ jobs' = jobs \cup {[n |-> changes + 1, type |-> type, dom |-> d,
                           box |-> id, attempts |-> 0]}

\* The attempt that runs has the mailbox or the domain in its hands.
Touched(d) ==
    IF worker.pc # "idle" /\ worker.job.dom = d
       /\ worker.job.type \in {"mailbox.provision", "domain.delete"}
    THEN overlap \cup {d} ELSE overlap

\* A mailbox is created, or an existing one gets another password.  The
\* request needs the mail domain and does not look at the domain's status.
PutBox(d) ==
    /\ d \in rows.mail
    /\ LET old == rows.box[d]
           new == [id |-> IF old.id = 0 THEN changes + 1 ELSE old.id,
                   hash |-> changes + 1, status |-> "provisioning"]
       IN /\ Enqueue("mailbox.provision", d, new.id)
          /\ rows' = [rows EXCEPT !.box[d] = new]
          /\ acked' = [acked EXCEPT ![d] = new]
    /\ overlap' = Touched(d)
    /\ UNCHANGED <<host, worker, failures, retired, lost>>

\* A mailbox that an alias leads to is not deleted.
DeleteBox(d) ==
    /\ rows.box[d].id # 0 /\ d \notin rows.alias
    /\ Enqueue("mailbox.delete", d, rows.box[d].id)
    /\ rows' = [rows EXCEPT !.box[d] = NoBox]
    /\ acked' = [acked EXCEPT ![d] = NoBox]
    /\ overlap' = Touched(d)
    /\ UNCHANGED <<host, worker, failures, retired, lost>>

PutAlias(d) ==
    /\ d \in rows.mail \ rows.alias /\ rows.box[d].id # 0
    /\ Enqueue("mail.alias", d, 0)
    /\ rows' = [rows EXCEPT !.alias = @ \cup {d}]
    /\ overlap' = Touched(d)
    /\ UNCHANGED <<host, worker, failures, acked, retired, lost>>

DeleteAlias(d) ==
    /\ d \in rows.alias
    /\ Enqueue("mail.alias", d, 0)
    /\ rows' = [rows EXCEPT !.alias = @ \ {d}]
    /\ UNCHANGED <<host, worker, failures, acked, overlap, retired, lost>>

SetCatchall(d) ==
    /\ d \in rows.mail
    /\ Enqueue("mail.maps", d, 0)
    /\ rows' = [rows EXCEPT !.catchall =
                    IF d \in @ THEN @ \ {d} ELSE @ \cup {d}]
    /\ UNCHANGED <<host, worker, failures, acked, overlap, retired, lost>>

RequestDelete(d) ==
    /\ d \in rows.domain
    /\ Enqueue("domain.delete", d, 0)
    /\ UNCHANGED <<rows, host, worker, failures, acked, overlap, retired, lost>>

Request == \E d \in Domains :
    \/ PutBox(d) \/ DeleteBox(d) \/ PutAlias(d) \/ DeleteAlias(d)
    \/ SetCatchall(d) \/ RequestDelete(d)

-----------------------------------------------------------------------------
(* How an attempt ends.                                                    *)

Settle ==
    /\ worker' = [pc |-> "idle"]
    /\ UNCHANGED <<jobs, failures, lost>>

Fails == failures < MaxFailures /\ failures' = failures + 1

\* execute: the job is tried again unless its attempts are used up.
Retry ==
    /\ Fails
    /\ worker' = [pc |-> "idle"]
    /\ IF worker.job.attempts >= MaxAttempts
       THEN lost' = TRUE /\ UNCHANGED jobs
       ELSE jobs' = jobs \cup {worker.job} /\ UNCHANGED lost

\* The attempt is the last: execute takes an error that says "missing" for
\* final, and deleteDomain drops the errors of applyMailStack.
Ends ==
    /\ worker' = [pc |-> "idle"]
    /\ lost' = TRUE
    /\ UNCHANGED jobs

\* A call of applyMailStack fails.
StackFails == IF worker.job.type = "domain.delete" THEN Fails /\ Ends ELSE Retry

Goto(step) == /\ worker' = [worker EXCEPT !.pc = step]
              /\ UNCHANGED <<jobs, failures, lost>>
NoRequest == UNCHANGED <<changes, acked, overlap>>

\* Mutant: provisionMailbox works on the row its request wrote.
ClaimAsRequested ==
    /\ worker.pc = "idle"
    /\ \E j \in jobs :
        /\ j.type = "mailbox.provision" /\ rows.box[j.dom].id = j.box
        /\ worker' = [pc |-> "snapDomains", snap |-> NoSnap, left |-> {},
                      job |-> [j EXCEPT !.attempts = @ + 1], dom |-> j.dom,
                      copy |-> [id |-> j.box, hash |-> j.n,
                                status |-> "provisioning"]]
        /\ jobs' = jobs \ {j}
    /\ UNCHANGED <<rows, host, retired, lost, failures>> /\ NoRequest

\* handle: the attempt starts and provisionMailbox reads its row.
Claim ==
    /\ worker.pc = "idle"
    /\ \E j \in jobs :
        LET job == [j EXCEPT !.attempts = @ + 1]
            Start(step) ==
                worker' = [pc |-> step, job |-> job, snap |-> NoSnap,
                           copy |-> rows.box[j.dom], left |-> {},
                           dom |-> j.dom]
        IN \/ /\ j.type \in {"mailbox.delete", "mail.alias", "mail.maps"}
              /\ Start("snapDomains") /\ jobs' = jobs \ {j} /\ UNCHANGED lost
           \/ /\ j.type = "mailbox.provision" /\ rows.box[j.dom].id = j.box
              /\ Start("snapDomains") /\ jobs' = jobs \ {j} /\ UNCHANGED lost
           \/ /\ j.type = "mailbox.provision" /\ rows.box[j.dom].id # j.box
              /\ lost' = TRUE /\ jobs' = jobs \ {j} /\ UNCHANGED worker
           \/ /\ j.type = "domain.delete" /\ j.dom \in rows.domain
              /\ Start("retire") /\ jobs' = jobs \ {j} /\ UNCHANGED lost
           \/ /\ j.type = "domain.delete" /\ j.dom \notin rows.domain
              /\ jobs' = jobs \ {j} /\ UNCHANGED <<worker, lost>>
    /\ UNCHANGED <<rows, host, retired, failures>> /\ NoRequest

\* The worker or the host stops: the lease runs out and the job is retried.
\* A domain.delete that had removed its row finds nothing to do then, and the
\* maps keep the domain until another job writes them.
Crash ==
    /\ worker.pc # "idle"
    /\ IF worker.job.type = "domain.delete" /\ worker.job.dom \notin rows.domain
       THEN StackFails ELSE Retry
    /\ UNCHANGED <<rows, host, retired>> /\ NoRequest

-----------------------------------------------------------------------------
(* deleteDomain: the host first, then the rows, one statement at a time.   *)

\* RetireDomain removes the files, unless a site could not be retired before,
\* and may then report that nginx did not reload.
RetireDomain ==
    /\ worker.pc = "retire"
    /\ LET d == worker.dom IN
       \/ /\ host' = [host EXCEPT !.homes = {h \in @ : h[1] # d},
                                  !.key[d] = 0, !.served[d] = 0]
          /\ retired' = retired \cup {d}
          /\ Goto("delAliases") \/ Retry
       \/ UNCHANGED <<host, retired>> /\ Retry
    /\ UNCHANGED rows /\ NoRequest

\* Mutant: the zone goes before the mailboxes.
ZoneFirst ==
    /\ worker.pc = "delAliases"
    /\ rows' = [rows EXCEPT !.zone = @ \ {worker.dom}, !.alias = @ \ {worker.dom}]
    /\ Goto("delBoxes")
    /\ UNCHANGED <<host, retired>> /\ NoRequest

DeleteAliases ==
    /\ worker.pc = "delAliases"
    /\ rows' = [rows EXCEPT !.alias = @ \ {worker.dom}]
    /\ Goto("delBoxes")
    /\ UNCHANGED <<host, retired>> /\ NoRequest

DeleteBoxes ==
    /\ worker.pc = "delBoxes"
    /\ rows' = [rows EXCEPT !.box[worker.dom] = NoBox]
    /\ acked' = [acked EXCEPT ![worker.dom] = NoBox]
    /\ Goto("delMailDomain")
    /\ UNCHANGED <<host, retired, changes, overlap>>

\* A foreign key refuses the statement, and the error is dropped.
DeleteMailDomain ==
    /\ worker.pc = "delMailDomain"
    /\ LET d == worker.dom IN
       rows' = IF rows.box[d].id = 0 /\ d \notin rows.alias
               THEN [rows EXCEPT !.mail = @ \ {d}, !.catchall = @ \ {d}]
               ELSE rows
    /\ Goto("delZone")
    /\ UNCHANGED <<host, retired>> /\ NoRequest

DeleteZone ==
    /\ worker.pc = "delZone"
    /\ rows' = [rows EXCEPT !.zone = @ \ {worker.dom}]
    /\ Goto("delDomain")
    /\ UNCHANGED <<host, retired>> /\ NoRequest

DeleteDomainRow ==
    /\ worker.pc = "delDomain"
    /\ LET d == worker.dom IN
       rows' = IF d \notin rows.mail
               THEN [rows EXCEPT !.domain = @ \ {d}] ELSE rows
    /\ Goto("snapDomains")
    /\ UNCHANGED <<host, retired>> /\ NoRequest

DeleteDomain == \/ RetireDomain \/ DeleteAliases \/ DeleteBoxes
                \/ DeleteMailDomain \/ DeleteZone \/ DeleteDomainRow

-----------------------------------------------------------------------------
(* applyMailStack.                                                         *)

\* SnapshotHost reads the domains and the mail domains of every account ...
SnapDomains ==
    /\ worker.pc = "snapDomains"
    /\ worker' = [worker EXCEPT !.pc = "snapBoxes",
                     !.snap.domains = rows.domain \cap rows.mail,
                     !.snap.catchall = rows.catchall \cap rows.domain]
    /\ UNCHANGED <<rows, host, jobs, retired, lost, failures>> /\ NoRequest

\* Mutant: only the mailboxes of the job's account are rendered.
SnapOwnBoxes ==
    /\ worker.pc = "snapBoxes"
    /\ worker' = [worker EXCEPT !.pc = "homes",
                     !.snap.box = [d \in Domains |->
                         IF Owner[d] = Owner[worker.job.dom] THEN rows.box[d]
                         ELSE NoBox],
                     !.snap.alias = rows.alias \cap worker.snap.domains]
    /\ UNCHANGED <<rows, host, jobs, retired, lost, failures>> /\ NoRequest

\* ... and then their mailboxes and aliases.
SnapBoxes ==
    /\ worker.pc = "snapBoxes"
    /\ worker' = [worker EXCEPT !.pc = "homes", !.snap.box = rows.box,
                     !.snap.alias = rows.alias \cap worker.snap.domains]
    /\ UNCHANGED <<rows, host, jobs, retired, lost, failures>> /\ NoRequest

\* Calls of the agent create homes one after the other, up to the first that
\* fails.
CreateMailboxHomes(todo, next) ==
    /\ \E done \in SUBSET todo :
        /\ host' = [host EXCEPT !.homes = @ \cup done]
        /\ \/ done = todo /\ Goto(next)
           \/ done # todo /\ StackFails
    /\ UNCHANGED <<rows, retired>> /\ NoRequest

\* Mutant: a home that cannot be created does not stop the attempt.
ApplyHomesAnyway ==
    /\ worker.pc = "homes"
    /\ Goto("catchall")
    /\ UNCHANGED <<rows, host, retired>> /\ NoRequest

\* The homes of this account's recipients, not of the others'.
ApplyHomes ==
    /\ worker.pc = "homes"
    /\ CreateMailboxHomes({<<d, "box">> : d \in
            {e \in Recipients(worker.snap) : Owner[e] = Owner[worker.job.dom]}},
            "catchall")

\* ensureCatchallHomes reads the policies of every account again.
EnsureCatchallHomes ==
    /\ worker.pc = "catchall"
    /\ CreateMailboxHomes({<<d, "all">> : d \in rows.catchall \cap rows.domain},
                          "maps")

\* What the maps say of a snapshot.
Render(snap) ==
    LET recs == Recipients(snap)
        plain == {<<d, "box", 0>> : d \in recs}
        aliases == {<<d, "alias", 0>> : d \in snap.alias}
    IN [virtual |-> plain \cup {<<d, "all", 0>> : d \in snap.catchall},
        vdomains |-> {<<d, "box", 0>> : d \in snap.domains},
        passwd |-> {<<d, "box", snap.box[d].hash>> : d \in recs},
        uids |-> plain, gids |-> plain, limits |-> plain,
        aliases |-> aliases, senders |-> plain \cup aliases]

\* applyMailMaps leaves an empty uids or gids alone (send-limits too, but it
\* has a header and is never empty).
LeftAlone(maps) == {f \in {"uids", "gids"} : maps[f] = {}}

\* Every map is staged; nothing changes when one is not.  Then they are
\* renamed in order, up to the first that fails.
ApplyMailMaps ==
    /\ worker.pc = "maps"
    /\ LET maps == Render(worker.snap) IN
       \E n \in 0..Len(MapFiles) :
            /\ host' = [host EXCEPT !.files =
                    [f \in MapNames |->
                        IF f \in FirstOf(MapFiles, n) \ LeftAlone(maps)
                        THEN maps[f] ELSE @[f]]]
            /\ \/ n = Len(MapFiles) /\ Goto("postmap")
               \/ n < Len(MapFiles) /\ StackFails
    /\ UNCHANGED <<rows, retired>> /\ NoRequest

\* postmap compiles the maps of Postfix in order, up to the first failure.
Postmap ==
    /\ worker.pc = "postmap"
    /\ \E n \in 0..Len(Compiled) :
        /\ host' = [host EXCEPT !.db =
                [f \in MapNames |-> IF f \in FirstOf(Compiled, n)
                                   THEN host.files[f] ELSE @[f]]]
        /\ \/ /\ n = Len(Compiled)
              /\ worker' = [worker EXCEPT !.pc = "dkim",
                                !.left = Recipients(worker.snap)]
              /\ UNCHANGED <<jobs, lost, failures>>
           \/ n < Len(Compiled) /\ StackFails
    /\ UNCHANGED <<rows, retired>> /\ NoRequest

\* Mutant: a domain that is listed is given a new key each time.
KeyAnew(d) == changes + 1

\* A new key is told from the earlier ones by the number of the last request.
NewKey == changes + 1
KeyOf(d) == IF host.key[d] = 0 THEN NewKey ELSE host.key[d]

\* EnsureDKIM for one domain of the snapshot, or the end of the list.
EnsureDKIM ==
    /\ worker.pc = "dkim"
    /\ \/ /\ worker.left = {} /\ Goto("sign") /\ UNCHANGED host
       \/ \E d \in worker.left :
            /\ host' = [host EXCEPT !.key[d] = KeyOf(d)]
            /\ worker' = [worker EXCEPT !.pc = "publish", !.dom = d,
                                        !.left = @ \ {d}]
            /\ UNCHANGED <<jobs, lost, failures>>
       \/ worker.left # {} /\ StackFails /\ UNCHANGED host
    /\ UNCHANGED <<rows, retired>> /\ NoRequest

\* publishDKIMTXT: without the domain or its zone, an error that is final.
PublishDKIMTXT ==
    /\ worker.pc = "publish"
    /\ LET d == worker.dom IN
       \/ /\ d \in rows.domain \cap rows.zone
          /\ host' = [host EXCEPT !.served[d] = host.key[d]]
          /\ Goto("dkim")
       \/ d \in rows.domain \cap rows.zone /\ StackFails /\ UNCHANGED host
       \/ d \notin rows.domain \cap rows.zone /\ Ends /\ UNCHANGED <<host, failures>>
    /\ UNCHANGED <<rows, retired>> /\ NoRequest

ApplyDKIMSigning ==
    /\ worker.pc = "sign"
    /\ \/ /\ host' = [host EXCEPT
                        !.key = [d \in Domains |->
                                    IF d \in Recipients(worker.snap)
                                    THEN KeyOf(d) ELSE @[d]],
                        !.signing = Recipients(worker.snap)]
          /\ IF worker.job.type = "mailbox.provision" THEN Goto("put") ELSE Settle
       \/ StackFails /\ UNCHANGED host
    /\ UNCHANGED <<rows, retired>> /\ NoRequest

\* Mutant: the mailbox ends in a status the panel does not know.
PutMailboxReady ==
    /\ worker.pc = "put"
    /\ rows' = [rows EXCEPT !.box[worker.job.dom] =
                    [worker.copy EXCEPT !.status = "ready"]]
    /\ Settle
    /\ UNCHANGED <<host, retired>> /\ NoRequest

\* provisionMailbox writes back the row it read at the start: an upsert, which
\* brings back a mailbox that was deleted meanwhile, unless its mail domain
\* is gone or another mailbox has the name.
PutMailbox ==
    /\ worker.pc = "put"
    /\ LET d == worker.job.dom
           copy == [worker.copy EXCEPT !.status = "active"]
       IN rows' = IF d \in rows.mail /\ rows.box[d].id \in {0, copy.id}
                  THEN [rows EXCEPT !.box[d] = copy] ELSE rows
    /\ Settle
    /\ UNCHANGED <<host, retired>> /\ NoRequest

ApplyMailStack == \/ SnapDomains \/ SnapBoxes \/ ApplyHomes
                  \/ EnsureCatchallHomes \/ ApplyMailMaps \/ Postmap
                  \/ EnsureDKIM \/ PublishDKIMTXT \/ ApplyDKIMSigning

Next == Request \/ Claim \/ Crash \/ DeleteDomain \/ ApplyMailStack \/ PutMailbox

Spec == Init /\ [][Next]_vars

-----------------------------------------------------------------------------
\* The rows as a snapshot taken now would have them.
Now == [domains |-> rows.domain \cap rows.mail, catchall |-> rows.catchall,
        alias |-> rows.alias, box |-> rows.box]
InForce(f) == IF f \in FirstOf(Compiled, Len(Compiled)) THEN host.db[f] ELSE host.files[f]

\* Once every job has succeeded, the services route and authenticate by the
\* rows as they are, whatever happened on the way (worker.go, applyMailStack).
\* Only the two maps an empty body leaves alone may list mailboxes of the past,
\* and that only on a host without any mailbox.
MapsAgreeWhenSettled ==
    worker.pc = "idle" /\ jobs = {} /\ ~lost =>
        \A f \in MapNames :
            \/ InForce(f) = Render(Now)[f]
            \/ f \in {"uids", "gids"} /\ Recipients(Now) = {}

\* Postfix is told of a mailbox without a home only while a mail job of its
\* account, which makes the home, waits or runs: another account's job may list it first, and a failure or
\* a crash between the calls leaves homes without maps, not the reverse.
Outstanding == jobs \cup (IF worker.pc = "idle" THEN {} ELSE {worker.job})
HomeBeforeMap ==
    \A d \in Domains \ retired :
        <<d, "box", 0>> \in host.files["virtual"] =>
            \/ <<d, "box">> \in host.homes
            \/ \E j \in Outstanding : Owner[j.dom] = Owner[d]
            \/ lost

\* A password, a new mailbox or a deletion that a request acknowledged is
\* undone by provisionMailbox's write of an old copy only when the request
\* came while that attempt ran.
ChangeLostOnlyByOverlap ==
    \A d \in Domains \ overlap :
        /\ rows.box[d].id = acked[d].id
        /\ rows.box[d].hash = acked[d].hash

\* A zone outlives the mailboxes of its domain, so the "missing" that fails
\* every account's mail jobs for good never comes from a deletion that was
\* interrupted, only from a mailbox created in the middle of one.
ZoneOutlivesMailboxes ==
    \A d \in Domains \ overlap : rows.box[d].id # 0 => d \in rows.zone

\* Mail is signed only with a key whose public half the zone serves.
SignedWithServedKey ==
    \A d \in host.signing \ retired :
        host.key[d] # 0 /\ host.served[d] = host.key[d]
=============================================================================
