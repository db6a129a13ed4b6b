----------------------- MODULE ResourceRequestsProofs -----------------------
(***************************************************************************)
(* Proofs about ResourceRequests, for any number of clients, accounts,     *)
(* names and requests: a step only changes rows of an account its user may *)
(* act on, a request commits as a whole and once, the rows keep apart what *)
(* the handlers and the store keep apart, and a package is exceeded by no  *)
(* more than the requests that overlap.                                    *)
(*                                                                         *)
(* The actions are first brought to a few forms (a request passes its      *)
(* checks, a row is put or removed, a request ends); the invariant is then *)
(* proved in layers, each for these forms only: types and ids, the checks  *)
(* of requests that are not stale, requests as a whole (CoreInv), the rows *)
(* apart and the keys (RowsInv), the limits (LimitsInv).                   *)
(***************************************************************************)
EXTENDS ResourceRequests, FiniteSetTheorems, TLAPS

(***************************************************************************)
(* Types.                                                                  *)
(***************************************************************************)

Row == Domain \cup Website \cup Application \cup HostedDatabase \cup MailDomain
       \cup Mailbox \cup MailAlias \cup CronJob \cup FTPAccount

TypedRow(k, x) ==
    /\ k = "domain" => x \in Domain
    /\ k = "website" => x \in Website
    /\ k = "app" => x \in Application
    /\ k = "db" => x \in HostedDatabase
    /\ k = "maildomain" => x \in MailDomain
    /\ k = "mailbox" => x \in Mailbox
    /\ k = "alias" => x \in MailAlias
    /\ k \in {"cron", "dbuser"} => x \in CronJob
    /\ k \in {"ftp", "ssh"} => x \in FTPAccount

Hows == {"create", "createWithUser", "update", "upsert", "retire", "terminate",
         "delete", "put", "drop", "write", "erase", "enqueue"}

Request == [step : {"commit", "enqueue", "list", "apply"}, acc : Accounts,
            kind : Tables \cup {"disk", "php"},
            how : Hows,
            row : Row \cup [acc : Accounts] \cup SUBSET (Names \cup Accounts),
            key : Keys \cup {NoKey}, stale : BOOLEAN]

\* A request that has a row for table k, and the row.
Holds(c, k) == req[c] # Idle /\ req[c].step = "commit" /\ req[c].kind = k

TypedRequest(c) ==
    req[c] # Idle =>
        /\ req[c] \in Request
        /\ req[c].acc \in Access[c]
        /\ \A k \in Tables : Holds(c, k) =>
              /\ TypedRow(k, req[c].row)
              /\ req[c].row.acc = req[c].acc
              /\ k = "db" /\ req[c].how # "terminate" => req[c].row.status = "provisioning"
        /\ req[c].step = "apply" => req[c].row \in SUBSET (Names \cup Accounts)

Typed ==
    /\ backend \in {"pg", "memory"}
    /\ rows \in [Tables -> SUBSET Row]
    /\ \A k \in Tables : \A x \in rows[k] : TypedRow(k, x)
    /\ req \in [Clients -> Request \cup {Idle}]
    /\ \A c \in Clients : TypedRequest(c)
    /\ served \in 0 .. MaxRequests
    /\ raced \in BOOLEAN /\ faulted \in BOOLEAN
    /\ disk \in [Accounts -> Nat]
    /\ authorized \in [Accounts -> SUBSET (Names \cup Accounts)]

(***************************************************************************)
(* An id stands for one row, of one account, whichever versions of the row *)
(* the table and the requests have.                                        *)
(***************************************************************************)

\* The row is of table k, in the store or in a request that will put it there.
Version(k, x) == x \in rows[k] \/ \E c \in Clients : Holds(c, k) /\ req[c].row = x

\* Two versions of one row: what no handler changes is the same.
SameRow(k, x, y) ==
    /\ x.id = y.id /\ x.acc = y.acc
    /\ k = "domain" => x.name = y.name /\ x.type = y.type
    /\ k = "db" => x.name = y.name
    /\ k \in {"website", "mailbox", "alias"} => x.of = y.of
    /\ k \in {"mailbox", "alias"} => x.name = y.name

Taken(id) == id \in InitialIds \/ id \in 1 .. served

\* The tables the requests name; dbuser has no requests of its own.
Named == Tables \ {"dbuser"}

IdsStand ==
    /\ \A k \in Named : \A x, y : Version(k, x) /\ Version(k, y) /\ x.id = y.id => SameRow(k, x, y)
    /\ \A k \in Named : \A x : Version(k, x) => Taken(x.id)
    /\ \A u \in rows["dbuser"] : Taken(u.id) /\ \A x : Version("db", x) /\ x.id = u.id => x.acc = u.acc

UniqueIds == \A k \in Tables : \A x, y \in rows[k] : x.id = y.id => x = y

(***************************************************************************)
(* What a request has checked, as long as no other has changed anything.   *)
(***************************************************************************)

Counted == {"website", "app", "db", "mailbox", "cron", "ftp"}

\* What a handler has checked of a row that is new.
NewChecked(a, k, x) ==
    /\ k \in Counted => WithinLimit(Cardinality(Of(a, k)), k)
    /\ k = "domain" => EnforceDomainLimit(a, x.type)
    /\ k \in {"mailbox", "alias"} => LocalPartFree(a, x.of, x.name)
    /\ k = "website" => \/ \A w \in Of(a, "website") : w.of # x.of
                        \/ \E d \in rows["domain"] : d.id = x.of /\ d.acc # a

\* The row is a version of one of the table, or it is new and passed the checks.
Checked(a, k, how, x) ==
    /\ k \in Named => (\E y \in rows[k] : SameRow(k, y, x)) \/ NewChecked(a, k, x)
    /\ how = "createWithUser" => Of(a, "dbuser") = {} /\ EnforceCountLimit(a, "dbuser")
    /\ k = "disk" /\ how = "write" => EnforceDiskQuota(a, 1)

ChecksHold ==
    \A c \in Clients : req[c] # Idle /\ req[c].step = "commit" /\ ~req[c].stale =>
        Checked(req[c].acc, req[c].kind, req[c].how, req[c].row)

(***************************************************************************)
(* The other layers.                                                       *)
(***************************************************************************)

\* An application that a request retires is an initial one or has its job.
RetiredHasJob ==
    \A c \in Clients : Holds(c, "app") /\ req[c].how = "retire" =>
        \/ req[c].row.id \in InitialIds
        \/ \E j \in jobs : j.kind = "app" /\ j.res = req[c].row.id /\ j.acc = req[c].row.acc

\* Mailboxes and aliases are of a mail domain of their account.
MailOwned ==
    \A k \in {"mailbox", "alias"} : \A x : Version(k, x) =>
        \E md \in rows["maildomain"] : md.id = x.of /\ md.acc = x.acc

\* A change of the keys that the host has not got is in the hands of a request.
KeysOf(a) == {s.name : s \in Of(a, "ssh")}
KeysOnTheirWay ==
    ~raced /\ ~faulted =>
        /\ \A a \in Accounts : authorized[a] = KeysOf(a) \/
              \E c \in Clients : req[c] # Idle /\ req[c].acc = a /\ req[c].step \in {"list", "apply"}
        /\ \A c \in Clients : req[c] # Idle /\ req[c].step = "apply" /\ ~req[c].stale =>
              req[c].row = KeysOf(req[c].acc)

(***************************************************************************)
(* The forms the actions are brought to.                                   *)
(***************************************************************************)

\* What a handler has made sure of when its request passes: the row is a version
\* of one in the table, or a new one with a new id.
Passed(a, k, how, x) ==
    /\ a \in Accounts /\ k \in Named \cup {"disk", "php"} /\ how \in Hows
    /\ k = "disk" => x = [acc |-> a] /\ (how = "write" => EnforceDiskQuota(a, 1))
    /\ k = "php" => x = [id |-> New, acc |-> a]
    /\ k \in Named =>
          /\ TypedRow(k, x) /\ x.acc = a
          /\ \/ \E y \in rows[k] : SameRow(k, y, x)
             \/ /\ x.id = New /\ how # "retire" /\ NewChecked(a, k, x)
                /\ k \in {"mailbox", "alias"} =>
                      \E md \in rows["maildomain"] : md.id = x.of /\ md.acc = a
    /\ k = "db" /\ how # "terminate" => x.status = "provisioning"
    /\ how = "createWithUser" => k = "db" /\ Of(a, "dbuser") = {} /\ EnforceCountLimit(a, "dbuser")

Accepts(c) == \E a, k, how, x : \E key \in Keys \cup {NoKey} :
    Passed(a, k, how, x) /\ Accept(c, a, k, how, x, key)

JobsGrow(c) ==
    /\ ~JobReplay(req[c].key)
    /\ jobs' = jobs \cup {NewJob(req[c])}
    /\ audits' = audits \cup {NewJob(req[c]).n}
JobsSame == jobs' = jobs /\ audits' = audits

\* The constraints of the tables, and what the functions of the store check.
StoreAccepts(k, x) ==
    /\ k = "website" => \E d \in rows["domain"] : d.id = x.of /\ d.acc = x.acc
    /\ k = "ftp" => FTPNameFree(x)
    /\ PG => /\ k = "domain" => (\A d \in rows["domain"] : d.name # x.name)
                                \/ \E d \in rows["domain"] : d.id = x.id
             /\ k = "db" => (\A d \in rows["db"] : d.name # x.name \/ d.acc # x.acc)
                            \/ \E d \in rows["db"] : d.id = x.id
             /\ k = "mailbox" => PgUpsertMailbox(x)
             /\ k = "ssh" => \A s \in rows["ssh"] : s.name # x.name

\* The request puts row x into table k (with a user for a database).
Stores(c, k, x, users) ==
    /\ k \in Named /\ Holds(c, k) /\ req[c].how # "delete"
    /\ TypedRow(k, x) /\ SameRow(k, x, req[c].row) /\ StoreAccepts(k, x)
    /\ k \in {"domain", "website"} => x = req[c].row
    /\ k = "db" /\ x.status = "terminating" => req[c].how = "terminate"
    /\ \/ users = {}
       \/ /\ users = {[id |-> x.id, acc |-> x.acc]} /\ k = "db" /\ req[c].how = "createWithUser"
          /\ PG => Of(x.acc, "dbuser") = {}
    /\ rows' = [Put(k, x) EXCEPT !["dbuser"] = @ \cup users]
    /\ \/ k # "ssh" /\ JobsGrow(c) /\ Over(c)
       \/ k = "app" /\ req[c].how = "retire" /\ JobsSame /\ Continue(c, [req[c] EXCEPT !.step = "enqueue"])
       \/ k = "ssh" /\ JobsSame /\ Continue(c, [req[c] EXCEPT !.step = "list"])
    /\ UNCHANGED <<backend, disk, authorized, served, faulted>>

\* The request takes its row out of table k.
Drops(c, k) ==
    /\ k \in {"mailbox", "alias", "cron", "ftp", "ssh"} /\ Holds(c, k)
    /\ rows' = Remove(k, req[c].row)
    /\ \/ k # "ssh" /\ JobsGrow(c) /\ Over(c)
       \/ k = "ssh" /\ JobsSame /\ Continue(c, [req[c] EXCEPT !.step = "list"])
    /\ UNCHANGED <<backend, disk, authorized, served, faulted>>

\* The request ends without a change of the rows, or with a known key.
Ends(c) ==
    /\ req[c] # Idle /\ req[c].step \in {"commit", "enqueue"}
    /\ rows' = rows
    /\ \/ JobsGrow(c) /\ Over(c)
       \/ JobsSame /\ Over(c)
       \/ JobsSame /\ req[c].step = "commit" /\ req[c].kind = "ssh"
          /\ Continue(c, [req[c] EXCEPT !.step = "list"])
    /\ UNCHANGED <<backend, disk, authorized, served, faulted>>

(***************************************************************************)
(* How the requests in progress move.                                      *)
(***************************************************************************)

\* A step of another client leaves a request what it is.
Kept(d) ==
    /\ req[d] = Idle => req'[d] = Idle
    /\ req[d] # Idle => /\ req'[d] # Idle /\ req'[d] \in Request
                        /\ req'[d].step = req[d].step /\ req'[d].acc = req[d].acc
                        /\ req'[d].kind = req[d].kind /\ req'[d].how = req[d].how
                        /\ req'[d].row = req[d].row /\ req'[d].key = req[d].key

\* The request of c has done what it held a row for.
MovedOn(c) ==
    /\ req[c] # Idle
    /\ req' \in [Clients -> Request \cup {Idle}]
    /\ \A d \in Clients \ {c} : Kept(d)
    /\ req'[c] # Idle =>
          /\ req'[c] \in Request /\ req'[c].step # "commit"
          /\ req'[c].acc = req[c].acc
          /\ req'[c].step = "apply" => req'[c].row \in SUBSET (Names \cup Accounts)

\* No request looks idle.
LEMMA IdleIsNoRequest == \A r \in Request : r # Idle /\ r.step # "idle"
BY DEF Request, Idle

\* Marking a request as stale changes nothing else of it.
LEMMA MarkedStale ==
    ASSUME NEW r \in Request
    PROVE  /\ [r EXCEPT !.stale = TRUE] \in Request
           /\ [r EXCEPT !.stale = TRUE].stale = TRUE
           /\ [r EXCEPT !.stale = TRUE].step = r.step
           /\ [r EXCEPT !.stale = TRUE].acc = r.acc
           /\ [r EXCEPT !.stale = TRUE].kind = r.kind
           /\ [r EXCEPT !.stale = TRUE].how = r.how
           /\ [r EXCEPT !.stale = TRUE].row = r.row
           /\ [r EXCEPT !.stale = TRUE].key = r.key
BY DEF Request

\* When a request moves on, all others become stale.
LEMMA ContinueKeeps ==
    ASSUME Typed, NEW c \in Clients, NEW next \in Request \cup {Idle}, Continue(c, next)
    PROVE  /\ req' \in [Clients -> Request \cup {Idle}]
           /\ req'[c] = next
           /\ \A d \in Clients \ {c} : Kept(d) /\ (req'[d] # Idle => req'[d].stale)
<1> DEFINE nr == [d \in Clients |-> IF d = c THEN next ELSE IF req[d] = Idle THEN Idle
                                    ELSE [req[d] EXCEPT !.stale = TRUE]]
<1>1. req' = nr  BY DEF Continue
<1>2. req \in [Clients -> Request \cup {Idle}]  BY DEF Typed
<1>3. ASSUME NEW d \in Clients, req[d] # Idle  PROVE req[d] \in Request  BY <1>2, <1>3
<1>4. ASSUME NEW d \in Clients, d # c
      PROVE  /\ req'[d] \in Request \cup {Idle} /\ Kept(d)
             /\ req'[d] # Idle => req'[d].stale
  <2>1. CASE req[d] = Idle  BY <1>1, <1>4, <2>1 DEF Kept
  <2>2. CASE req[d] # Idle
    <3>1. req'[d] = [req[d] EXCEPT !.stale = TRUE]  BY <1>1, <1>4, <2>2
    <3>2. req[d] \in Request  BY <1>3, <2>2
    <3> HIDE DEF nr
    <3> QED  BY <3>1, <3>2, <2>2, MarkedStale, IdleIsNoRequest DEF Kept
  <2> QED  BY <2>1, <2>2
<1>5. req'[c] = next  BY <1>1
<1>6. \A d \in Clients : req'[d] \in Request \cup {Idle}  BY <1>4, <1>5
<1> QED  BY <1>1, <1>4, <1>5, <1>6

\* The same request at a later step.
LEMMA StepMoves ==
    ASSUME NEW r \in Request, NEW s \in {"enqueue", "list"}
    PROVE  /\ [r EXCEPT !.step = s] \in Request
           /\ [r EXCEPT !.step = s].step = s /\ [r EXCEPT !.step = s].acc = r.acc
           /\ [r EXCEPT !.step = s].stale = r.stale
BY DEF Request

\* The request that lists the keys has them for its row.
LEMMA ListMoves ==
    ASSUME NEW r \in Request, NEW keys \in SUBSET (Names \cup Accounts)
    PROVE  /\ [r EXCEPT !.step = "apply", !.row = keys] \in Request
           /\ [r EXCEPT !.step = "apply", !.row = keys].step = "apply"
           /\ [r EXCEPT !.step = "apply", !.row = keys].acc = r.acc
           /\ [r EXCEPT !.step = "apply", !.row = keys].row = keys
           /\ [r EXCEPT !.step = "apply", !.row = keys].stale = r.stale
BY DEF Request

\* A step that is not an acceptance moves its request on.
Leaves(c) ==
    \/ (\E k, x, users : Stores(c, k, x, users)) \/ (\E k : Drops(c, k))
    \/ Ends(c) \/ ListSSH(c) \/ ApplyAuthorizedKeys(c) \/ StoreFile(c)

\* The names of the keys of an account are names.
LEMMA KeysAreNames ==
    ASSUME Typed, NEW a \in Accounts
    PROVE  KeysOf(a) \in SUBSET (Names \cup Accounts)
<1>1. \A s \in rows["ssh"] : s \in FTPAccount  BY DEF Typed, TypedRow, Tables
<1> QED  BY <1>1 DEF KeysOf, Of, FTPAccount

\* A step that is not an acceptance is a Continue, and its request is over or past its commit.
LEMMA LeavesMovesOn ==
    ASSUME Typed, NEW c \in Clients, Leaves(c)
    PROVE  /\ req[c] # Idle /\ req[c] \in Request
           /\ \E next \in Request \cup {Idle} : Continue(c, next)
                 /\ (next = Idle \/ (next \in Request /\ next.step # "commit" /\ next.acc = req[c].acc
                                     /\ (next.step = "apply" => next.row \in SUBSET (Names \cup Accounts))))
<1>1. req[c] # Idle
  BY DEF Leaves, Stores, Drops, Ends, ListSSH, ApplyAuthorizedKeys, StoreFile, Holds, Commits
<1>2. req[c] \in Request  BY <1>1 DEF Typed
<1>3. req[c].acc \in Accounts  BY <1>2 DEF Request
<1>4. \/ Over(c)
      \/ Continue(c, [req[c] EXCEPT !.step = "enqueue"])
      \/ Continue(c, [req[c] EXCEPT !.step = "list"])
      \/ Continue(c, [req[c] EXCEPT !.step = "apply", !.row = KeysOf(req[c].acc)])
  BY DEF Leaves, Stores, Drops, Ends, ListSSH, ApplyAuthorizedKeys, StoreFile, KeysOf
<1>5. KeysOf(req[c].acc) \in SUBSET (Names \cup Accounts)  BY <1>3, KeysAreNames
<1>6. CASE Over(c)  BY <1>1, <1>2, <1>6 DEF Over
<1>7. CASE Continue(c, [req[c] EXCEPT !.step = "enqueue"])
  <2> DEFINE next == [req[c] EXCEPT !.step = "enqueue"]
  <2>1. next \in Request /\ next.step = "enqueue" /\ next.acc = req[c].acc  BY <1>2, StepMoves
  <2> HIDE DEF next
  <2> QED  BY <1>1, <1>2, <1>7, <2>1 DEF next
<1>8. CASE Continue(c, [req[c] EXCEPT !.step = "list"])
  <2> DEFINE next == [req[c] EXCEPT !.step = "list"]
  <2>1. next \in Request /\ next.step = "list" /\ next.acc = req[c].acc  BY <1>2, StepMoves
  <2> HIDE DEF next
  <2> QED  BY <1>1, <1>2, <1>8, <2>1 DEF next
<1>9. CASE Continue(c, [req[c] EXCEPT !.step = "apply", !.row = KeysOf(req[c].acc)])
  <2> DEFINE next == [req[c] EXCEPT !.step = "apply", !.row = KeysOf(req[c].acc)]
  <2>1. next \in Request /\ next.step = "apply" /\ next.acc = req[c].acc /\ next.row = KeysOf(req[c].acc)
    BY <1>2, <1>5, ListMoves
  <2> HIDE DEF next
  <2> QED  BY <1>1, <1>2, <1>5, <1>9, <2>1 DEF next
<1> QED  BY <1>4, <1>6, <1>7, <1>8, <1>9

\* So does one that fails, and then nothing else moves.
LEMMA AllMoveOn ==
    ASSUME Typed, NEW c \in Clients, Leaves(c) \/ Fail(c)
    PROVE  MovedOn(c)
<1>1. CASE Leaves(c)
  <2>1. PICK next \in Request \cup {Idle} : Continue(c, next)
                 /\ (next = Idle \/ (next \in Request /\ next.step # "commit" /\ next.acc = req[c].acc
                                     /\ (next.step = "apply" => next.row \in SUBSET (Names \cup Accounts))))
    BY <1>1, LeavesMovesOn
  <2>2. req' \in [Clients -> Request \cup {Idle}] /\ req'[c] = next /\ \A d \in Clients \ {c} : Kept(d)
    BY <2>1, ContinueKeeps
  <2> QED  BY <1>1, <2>1, <2>2, LeavesMovesOn DEF MovedOn
<1>2. CASE Fail(c)
  <2>1. req' = [req EXCEPT ![c] = Idle]  BY <1>2 DEF Fail
  <2>2. req \in [Clients -> Request \cup {Idle}]  BY DEF Typed
  <2>3. req' \in [Clients -> Request \cup {Idle}]  BY <2>1, <2>2
  <2>4. req'[c] = Idle /\ \A d \in Clients \ {c} : req'[d] = req[d]  BY <2>1, <2>2
  <2>5. \A d \in Clients \ {c} : Kept(d)  BY <2>2, <2>4 DEF Kept
  <2> QED  BY <1>2, <2>3, <2>4, <2>5 DEF MovedOn, Fail
<1> QED  BY <1>1, <1>2

\* What a request holds after c has moved on.
LEMMA HoldsAfter ==
    ASSUME NEW c \in Clients, MovedOn(c)
    PROVE  \A d \in Clients, k \in Tables : Holds(d, k)' =>
              d # c /\ Holds(d, k) /\ req'[d].row = req[d].row /\ req'[d].acc = req[d].acc
              /\ req'[d].how = req[d].how
<1>1. ASSUME NEW d \in Clients, NEW k \in Tables, Holds(d, k)'
      PROVE  d # c /\ Holds(d, k) /\ req'[d].row = req[d].row /\ req'[d].acc = req[d].acc
             /\ req'[d].how = req[d].how
  <2>1. d # c  BY <1>1 DEF MovedOn, Holds
  <2>2. Kept(d)  BY <2>1 DEF MovedOn
  <2>3. req[d] # Idle  BY <2>2, <1>1 DEF Kept, Holds
  <2> QED  BY <1>1, <2>1, <2>2, <2>3 DEF Kept, Holds
<1> QED  BY <1>1

(***************************************************************************)
(* How the tables move.                                                    *)
(***************************************************************************)

\* What a put does to the tables.
LEMMA StoresRows ==
    ASSUME Typed, NEW c \in Clients, NEW k, NEW x, NEW users, Stores(c, k, x, users)
    PROVE  /\ k \in Tables /\ k # "dbuser"
           /\ rows' = [t \in Tables |-> rows'[t]]
           /\ rows'[k] = {y \in rows[k] : y.id # x.id} \cup {x}
           /\ rows'["dbuser"] = rows["dbuser"] \cup users
           /\ \A t \in Tables \ {k, "dbuser"} : rows'[t] = rows[t]
<1>1. rows \in [Tables -> SUBSET Row]  BY DEF Typed
<1>2. k \in Tables /\ k # "dbuser" /\ "dbuser" \in Tables  BY DEF Stores, Named, Tables
<1>3. rows' = [[rows EXCEPT ![k] = {y \in @ : y.id # x.id} \cup {x}] EXCEPT !["dbuser"] = @ \cup users]
  BY DEF Stores, Put
<1> QED  BY <1>1, <1>2, <1>3

\* What a removal does to the tables.
LEMMA DropsRows ==
    ASSUME Typed, NEW c \in Clients, NEW k, Drops(c, k)
    PROVE  /\ k \in Tables /\ k # "dbuser"
           /\ rows' = [t \in Tables |-> rows'[t]]
           /\ rows'[k] = {y \in rows[k] : y.id # req[c].row.id}
           /\ \A t \in Tables \ {k} : rows'[t] = rows[t]
<1>1. rows \in [Tables -> SUBSET Row]  BY DEF Typed
<1>2. k \in Tables /\ k # "dbuser"  BY DEF Drops, Tables
<1>3. rows' = [rows EXCEPT ![k] = {y \in @ : y.id # req[c].row.id}]  BY DEF Drops, Remove
<1> QED  BY <1>1, <1>2, <1>3

\* A row of a table is a row.
LEMMA TypedRowIsRow ==
    ASSUME NEW k \in Tables, NEW x, TypedRow(k, x)
    PROVE  x \in Row
BY DEF Tables, TypedRow, Row

\* A row has an id and an account.
LEMMA RowFields ==
    ASSUME NEW x \in Row
    PROVE  x.id \in Ids /\ x.acc \in Accounts
BY DEF Row, Domain, Website, Application, HostedDatabase, MailDomain, Mailbox, MailAlias,
       CronJob, FTPAccount

\* SameRow is symmetric.
LEMMA SameRowSymmetric ==
    ASSUME NEW k, NEW x, NEW y, SameRow(k, x, y)
    PROVE  SameRow(k, y, x)
BY DEF SameRow

\* SameRow is transitive.
LEMMA SameRowTransitive ==
    ASSUME NEW k, NEW x, NEW y, NEW z, SameRow(k, x, y), SameRow(k, y, z)
    PROVE  SameRow(k, x, z)
BY DEF SameRow

(***************************************************************************)
(* Layer 1: types, and an id stands for one row.                           *)
(***************************************************************************)

\* Types hold when the tables keep theirs and the requests move on.
LEMMA TypedOn ==
    ASSUME Typed, NEW c \in Clients, MovedOn(c),
           rows' = [t \in Tables |-> rows'[t]],
           \A k \in Tables : \A x \in rows'[k] : TypedRow(k, x),
           backend' = backend, served' = served, raced' \in BOOLEAN, faulted' \in BOOLEAN,
           disk' \in [Accounts -> Nat], authorized' \in [Accounts -> SUBSET (Names \cup Accounts)]
    PROVE  Typed'
<1>1. \A k \in Tables : rows'[k] \in SUBSET Row  BY TypedRowIsRow
<1>2. rows' \in [Tables -> SUBSET Row]  BY <1>1
<1>3. ASSUME NEW d \in Clients  PROVE TypedRequest(d)'
  <2>1. SUFFICES ASSUME req'[d] # Idle
                 PROVE  /\ req'[d] \in Request
                        /\ req'[d].acc \in Access[d]
                        /\ \A k \in Tables : Holds(d, k)' =>
                              /\ TypedRow(k, req'[d].row)
                              /\ req'[d].row.acc = req'[d].acc
                              /\ k = "db" /\ req'[d].how # "terminate" => req'[d].row.status = "provisioning"
                        /\ req'[d].step = "apply" => req'[d].row \in SUBSET (Names \cup Accounts)
    BY DEF TypedRequest, TypedRow, Domain, Website, Application, HostedDatabase, MailDomain, Mailbox,
           MailAlias, CronJob, FTPAccount
  <2>2. req'[d] \in Request  BY <2>1 DEF MovedOn
  <2>3. TypedRequest(d) /\ TypedRequest(c)  BY DEF Typed
  <2>4. req[d] # Idle
    BY <2>1, <2>2, IdleIsNoRequest DEF MovedOn, Kept
  <2>5. req'[d].acc = req[d].acc  BY <2>1, <2>4 DEF MovedOn, Kept
  <2>6. req'[d].step = "apply" => req'[d].row \in SUBSET (Names \cup Accounts)
    BY <2>1, <2>3, <2>4 DEF MovedOn, Kept, TypedRequest
  <2>7. ASSUME NEW k \in Tables, Holds(d, k)'
        PROVE  /\ TypedRow(k, req'[d].row)
               /\ req'[d].row.acc = req'[d].acc
               /\ k = "db" /\ req'[d].how # "terminate" => req'[d].row.status = "provisioning"
    <3>1. Holds(d, k) /\ req'[d].row = req[d].row /\ req'[d].acc = req[d].acc /\ req'[d].how = req[d].how
      BY <2>7, HoldsAfter
    <3> QED  BY <3>1, <2>3, <2>4 DEF TypedRequest
  <2> QED  BY <2>2, <2>3, <2>4, <2>5, <2>6, <2>7 DEF TypedRequest
<1> QED  BY <1>2, <1>3 DEF Typed, MovedOn, TypedRow, Domain, Website, Application, HostedDatabase,
                          MailDomain, Mailbox, MailAlias, CronJob, FTPAccount

\* Rows that are versions of earlier ones keep what the ids stand for.
LEMMA IdsOn ==
    ASSUME IdsStand, \A i : Taken(i) => Taken(i)',
           \A k \in Named : \A x : Version(k, x)' => \E v : Version(k, v) /\ SameRow(k, x, v),
           \A u \in rows'["dbuser"] : \/ u \in rows["dbuser"]
                                      \/ \E v : Version("db", v) /\ v.id = u.id /\ v.acc = u.acc
    PROVE  IdsStand'
<1>1. ASSUME NEW k \in Named, NEW x, NEW y, Version(k, x)', Version(k, y)', x.id = y.id
      PROVE  SameRow(k, x, y)
  <2>1. PICK v : Version(k, v) /\ SameRow(k, x, v)  BY <1>1
  <2>2. PICK w : Version(k, w) /\ SameRow(k, y, w)  BY <1>1
  <2>3. v.id = w.id  BY <1>1, <2>1, <2>2 DEF SameRow
  <2>4. SameRow(k, v, w)  BY <2>1, <2>2, <2>3 DEF IdsStand
  <2> QED  BY <2>1, <2>2, <2>4, SameRowSymmetric, SameRowTransitive
<1>2. ASSUME NEW k \in Named, NEW x, Version(k, x)'  PROVE Taken(x.id)'
  <2>1. PICK v : Version(k, v) /\ SameRow(k, x, v)  BY <1>2
  <2>2. Taken(v.id) /\ v.id = x.id  BY <2>1 DEF IdsStand, SameRow
  <2> QED  BY <2>2
<1>3. ASSUME NEW u \in rows'["dbuser"]
      PROVE  Taken(u.id)' /\ \A x : Version("db", x)' /\ x.id = u.id => x.acc = u.acc
  <2>0. "db" \in Named  BY DEF Named, Tables
  <2>1. Taken(u.id)
    <3>1. CASE u \in rows["dbuser"]  BY <3>1 DEF IdsStand
    <3>2. CASE \E v : Version("db", v) /\ v.id = u.id /\ v.acc = u.acc  BY <2>0, <3>2 DEF IdsStand
    <3> QED  BY <3>1, <3>2, <1>3
  <2>2. ASSUME NEW x, Version("db", x)', x.id = u.id  PROVE x.acc = u.acc
    <3>1. PICK v : Version("db", v) /\ SameRow("db", x, v)  BY <2>0, <2>2
    <3>2. v.id = u.id /\ v.acc = x.acc  BY <3>1, <2>2 DEF SameRow
    <3>3. CASE u \in rows["dbuser"]  BY <3>1, <3>2, <3>3 DEF IdsStand
    <3>4. CASE \E w : Version("db", w) /\ w.id = u.id /\ w.acc = u.acc
      <4>1. PICK w : Version("db", w) /\ w.id = u.id /\ w.acc = u.acc  BY <3>4
      <4>2. SameRow("db", w, v)  BY <2>0, <3>1, <3>2, <4>1 DEF IdsStand
      <4> QED  BY <3>2, <4>1, <4>2 DEF SameRow
    <3> QED  BY <1>3, <3>3, <3>4
  <2> QED  BY <2>1, <2>2
<1> QED  BY <1>1, <1>2, <1>3 DEF IdsStand, SameRow

\* A new row has an id that nothing had.
LEMMA NewIdFree ==
    ASSUME Typed
    PROVE  ~Taken(served + 1)
BY RequestsAssumption DEF Typed, Taken, InitialIds

\* Ids still stand for one row when a request passes with a new one.
LEMMA IdsOnNew ==
    ASSUME Typed, IdsStand, served' = served + 1, rows' = rows,
           NEW t, NEW r, r.id = served + 1,
           \A k \in Named : \A x : Version(k, x)' => Version(k, x) \/ (k = t /\ x = r)
    PROVE  IdsStand'
<1>0. served \in Nat  BY DEF Typed
<1>1. ~Taken(r.id) /\ Taken(r.id)'
  <2>1. ~Taken(served + 1)  BY NewIdFree
  <2>2. served + 1 \in 1 .. served'  BY <1>0
  <2> QED  BY <2>1, <2>2 DEF Taken
<1>2. \A i : Taken(i) => Taken(i)'
  <2>1. 1 .. served \subseteq 1 .. served'  BY <1>0
  <2> QED  BY <2>1 DEF Taken
<1>3. ASSUME NEW k \in Named, NEW x, NEW y, Version(k, x)', Version(k, y)', x.id = y.id
      PROVE  SameRow(k, x, y)
  <2>1. CASE Version(k, x) /\ Version(k, y)  BY <1>3, <2>1 DEF IdsStand
  <2>2. CASE x = r /\ y = r  BY <2>2 DEF SameRow
  <2>3. CASE Version(k, x) /\ y = r  BY <1>1, <1>3, <2>3 DEF IdsStand
  <2>4. CASE Version(k, y) /\ x = r  BY <1>1, <1>3, <2>4 DEF IdsStand
  <2> QED  BY <1>3, <2>1, <2>2, <2>3, <2>4
<1>4. ASSUME NEW k \in Named, NEW x, Version(k, x)'  PROVE Taken(x.id)'
  <2>1. CASE Version(k, x)  BY <1>2, <2>1 DEF IdsStand
  <2>2. CASE x = r  BY <1>1, <2>2
  <2> QED  BY <1>4, <2>1, <2>2
<1>5. ASSUME NEW u \in rows["dbuser"]
      PROVE  Taken(u.id)' /\ \A x : Version("db", x)' /\ x.id = u.id => x.acc = u.acc
  <2>0. "db" \in Named  BY DEF Named, Tables
  <2>1. Taken(u.id)  BY DEF IdsStand
  <2>2. ASSUME NEW x, Version("db", x)', x.id = u.id  PROVE x.acc = u.acc
    <3>1. x # r  BY <1>1, <2>1, <2>2
    <3>2. Version("db", x)  BY <2>0, <2>2, <3>1
    <3> QED  BY <2>2, <3>2 DEF IdsStand
  <2> QED  BY <1>2, <2>1, <2>2
<1> QED  BY <1>3, <1>4, <1>5 DEF IdsStand, SameRow

Base == Typed /\ IdsStand /\ UniqueIds

\* Whether a request was stale is a truth value, so raced is one.
LEMMA RacedTyped ==
    ASSUME Typed, NEW c \in Clients, req[c] # Idle, NEW next, Continue(c, next)
    PROVE  raced' \in BOOLEAN
<1>1. req[c] \in Request  BY DEF Typed
<1>2. req[c].stale \in BOOLEAN  BY <1>1 DEF Request
<1>3. raced \in BOOLEAN  BY DEF Typed
<1> QED  BY <1>2, <1>3 DEF Continue

\* What a request holds is typed and of its account.
LEMMA HeldRow ==
    ASSUME Typed, NEW c \in Clients, NEW k \in Tables, Holds(c, k)
    PROVE  /\ Version(k, req[c].row) /\ TypedRow(k, req[c].row)
           /\ req[c].row.acc = req[c].acc /\ req[c].acc \in Access[c]
           /\ req[c] # Idle /\ req[c] \in Request
           /\ req[c].row \in Row
<1>1. TypedRequest(c)  BY DEF Typed
<1>2. req[c] # Idle  BY DEF Holds
<1>3. TypedRow(k, req[c].row)  BY <1>1, <1>2 DEF TypedRequest
<1> QED  BY <1>1, <1>2, <1>3, TypedRowIsRow DEF TypedRequest, Version

\* A put keeps types and ids.
LEMMA StoresBase ==
    ASSUME Base, NEW c \in Clients, NEW k, NEW x, NEW users, Stores(c, k, x, users)
    PROVE  Base'
<1>0. Typed /\ IdsStand /\ UniqueIds  BY DEF Base
<1>1. /\ k \in Tables /\ k # "dbuser" /\ k \in Named
      /\ rows' = [t \in Tables |-> rows'[t]]
      /\ rows'[k] = {y \in rows[k] : y.id # x.id} \cup {x}
      /\ rows'["dbuser"] = rows["dbuser"] \cup users
      /\ \A t \in Tables \ {k, "dbuser"} : rows'[t] = rows[t]
  BY <1>0, StoresRows DEF Stores
<1>2. Holds(c, k) /\ TypedRow(k, x) /\ SameRow(k, x, req[c].row)  BY DEF Stores
<1>3. /\ Version(k, req[c].row) /\ req[c] # Idle  BY <1>0, <1>1, <1>2, HeldRow
<1>4. Leaves(c) /\ MovedOn(c)  BY <1>0, AllMoveOn DEF Leaves
<1>5. raced' \in BOOLEAN
  <2>1. \E next : Continue(c, next)  BY <1>0, <1>4, LeavesMovesOn
  <2> QED  BY <1>0, <1>3, <2>1, RacedTyped
<1>6. x.id \in Ids /\ x.acc \in Accounts  BY <1>1, <1>2, TypedRowIsRow, RowFields
<1>7. users = {} \/ (users = {[id |-> x.id, acc |-> x.acc]} /\ k = "db")  BY DEF Stores
<1>8. \A u \in users : u \in CronJob /\ u.id = x.id /\ u.acc = x.acc  BY <1>6, <1>7 DEF CronJob
<1>9. Typed'
  <2>1. ASSUME NEW t \in Tables, NEW y \in rows'[t]  PROVE TypedRow(t, y)
    <3>1. y \in rows[t] => TypedRow(t, y)  BY <1>0 DEF Typed
    <3>2. CASE t = k  BY <1>1, <1>2, <2>1, <3>1, <3>2
    <3>3. CASE t = "dbuser"
      <4>1. y \in rows["dbuser"] \/ y \in CronJob  BY <1>1, <1>8, <2>1, <3>3
      <4> QED  BY <3>1, <3>3, <4>1 DEF TypedRow
    <3>4. CASE t \notin {k, "dbuser"}  BY <1>1, <2>1, <3>1, <3>4
    <3> QED  BY <3>2, <3>3, <3>4
  <2>2. UNCHANGED <<backend, disk, authorized, served, faulted>>  BY DEF Stores
  <2>3. faulted' \in BOOLEAN /\ disk' \in [Accounts -> Nat]
        /\ authorized' \in [Accounts -> SUBSET (Names \cup Accounts)]
    BY <1>0, <2>2 DEF Typed
  <2> QED  BY <1>0, <1>1, <1>4, <1>5, <2>1, <2>2, <2>3, TypedOn
<1>10. IdsStand'
  <2>1. ASSUME NEW t \in Named, NEW y, Version(t, y)'  PROVE \E v : Version(t, v) /\ SameRow(t, y, v)
    <3>1. t \in Tables /\ t # "dbuser"  BY DEF Named
    <3>2. CASE Version(t, y)  BY <3>2 DEF SameRow
    <3>3. CASE \E d \in Clients : Holds(d, t)' /\ req'[d].row = y
      <4>1. PICK d \in Clients : Holds(d, t)' /\ req'[d].row = y  BY <3>3
      <4>2. Holds(d, t) /\ req[d].row = y  BY <1>4, <3>1, <4>1, HoldsAfter
      <4> QED  BY <3>2, <4>2 DEF Version
    <3>4. CASE y \in rows'[t]
      <4>1. y \in rows[t] \/ (t = k /\ y = x)  BY <1>1, <3>1, <3>4
      <4> QED  BY <1>2, <1>3, <3>2, <4>1 DEF Version
    <3> QED  BY <2>1, <3>3, <3>4 DEF Version
  <2>2. ASSUME NEW u \in rows'["dbuser"]
        PROVE  \/ u \in rows["dbuser"]
               \/ \E v : Version("db", v) /\ v.id = u.id /\ v.acc = u.acc
    BY <1>1, <1>2, <1>3, <1>7, <1>8, <2>2 DEF SameRow
  <2>3. \A i : Taken(i) => Taken(i)'  BY DEF Stores, Taken
  <2> QED  BY <1>0, <2>1, <2>2, <2>3, IdsOn
<1>11. UniqueIds'
  <2>1. ASSUME NEW t \in Tables, NEW y \in rows'[t], NEW z \in rows'[t], y.id = z.id  PROVE y = z
    <3>1. y \in rows[t] /\ z \in rows[t] => y = z  BY <1>0, <2>1 DEF UniqueIds
    <3>2. CASE t = k  BY <1>1, <2>1, <3>1, <3>2
    <3>3. CASE t = "dbuser" /\ users # {}
      <4>1. \A u \in users : u = [id |-> x.id, acc |-> x.acc]  BY <1>7
      <4>2. ASSUME NEW u \in rows["dbuser"], u.id = x.id  PROVE u = [id |-> x.id, acc |-> x.acc]
        <5>1. u \in CronJob  BY <1>0 DEF Typed, TypedRow, Tables
        <5>2. Version("db", req[c].row) /\ req[c].row.id = x.id /\ req[c].row.acc = x.acc
          BY <1>2, <1>3, <1>7, <3>3 DEF SameRow
        <5>3. u.acc = x.acc  BY <1>0, <4>2, <5>2 DEF IdsStand
        <5> QED  BY <4>2, <5>1, <5>3 DEF CronJob
      <4>3. y \in rows["dbuser"] \cup users /\ z \in rows["dbuser"] \cup users  BY <1>1, <2>1, <3>3
      <4>4. CASE y \in users  BY <1>8, <2>1, <4>1, <4>2, <4>3, <4>4
      <4>5. CASE z \in users  BY <1>8, <2>1, <4>1, <4>2, <4>3, <4>5
      <4> QED  BY <3>1, <3>3, <4>3, <4>4, <4>5
    <3>4. CASE t \notin {k} /\ (t # "dbuser" \/ users = {})  BY <1>1, <2>1, <3>1, <3>4
    <3> QED  BY <3>2, <3>3, <3>4
  <2> QED  BY <2>1 DEF UniqueIds
<1> QED  BY <1>9, <1>10, <1>11 DEF Base

\* Steps that only take rows away, or leave the tables alone.
LEMMA ShrinkBase ==
    ASSUME Base, NEW c \in Clients, Leaves(c) \/ Fail(c),
           rows' = [t \in Tables |-> rows'[t]], \A t \in Tables : rows'[t] \subseteq rows[t],
           backend' = backend, served' = served, raced' \in BOOLEAN, faulted' \in BOOLEAN,
           disk' \in [Accounts -> Nat], authorized' \in [Accounts -> SUBSET (Names \cup Accounts)]
    PROVE  Base'
<1>0. Typed /\ IdsStand /\ UniqueIds  BY DEF Base
<1>1. MovedOn(c)  BY <1>0, AllMoveOn
<1>2. \A t \in Tables : \A y \in rows'[t] : TypedRow(t, y)  BY <1>0 DEF Typed
<1>3. Typed'  BY <1>0, <1>1, <1>2, TypedOn
<1>4. ASSUME NEW t \in Named, NEW y, Version(t, y)'  PROVE \E v : Version(t, v) /\ SameRow(t, y, v)
  <2>1. t \in Tables  BY DEF Named
  <2>2. y \in rows'[t] => y \in rows[t]  BY <2>1
  <2>3. \A d \in Clients : Holds(d, t)' => Holds(d, t) /\ req'[d].row = req[d].row
    BY <1>1, <2>1, HoldsAfter
  <2>4. Version(t, y)  BY <1>4, <2>2, <2>3 DEF Version
  <2> QED  BY <2>4 DEF SameRow
<1>5. \A u \in rows'["dbuser"] : u \in rows["dbuser"]  BY DEF Tables
<1>6. IdsStand'
  <2>1. \A i : Taken(i) => Taken(i)'  BY DEF Taken
  <2> QED  BY <1>0, <1>4, <1>5, <2>1, IdsOn
<1>7. UniqueIds'  BY <1>0 DEF UniqueIds
<1> QED  BY <1>3, <1>6, <1>7 DEF Base

\* The steps that leave the tables alone, or take a row away.
LEMMA OthersBase ==
    ASSUME Base, NEW c \in Clients,
           (\E k : Drops(c, k)) \/ Ends(c) \/ ListSSH(c) \/ ApplyAuthorizedKeys(c) \/ StoreFile(c) \/ Fail(c)
    PROVE  Base'
<1>0. Typed  BY DEF Base
<1>1. rows \in [Tables -> SUBSET Row]  BY <1>0 DEF Typed
<1>2. Leaves(c) \/ Fail(c)  BY DEF Leaves
<1>3. req[c] # Idle /\ req[c] \in Request  BY <1>0, <1>2, LeavesMovesOn DEF Fail, Typed
<1>4. req[c].acc \in Accounts  BY <1>3 DEF Request
<1>5. rows' = [t \in Tables |-> rows'[t]] /\ \A t \in Tables : rows'[t] \subseteq rows[t]
  <2>1. CASE \E k : Drops(c, k)
    <3>1. PICK k : Drops(c, k)  BY <2>1
    <3> QED  BY <1>0, <3>1, DropsRows
  <2>2. CASE rows' = rows  BY <1>1, <2>2
  <2> QED  BY <2>1, <2>2 DEF Ends, ListSSH, ApplyAuthorizedKeys, StoreFile, Fail
<1>6. backend' = backend /\ served' = served
  BY DEF Drops, Ends, ListSSH, ApplyAuthorizedKeys, StoreFile, Fail
<1>7. raced' \in BOOLEAN
  <2>1. CASE Leaves(c)
    <3>1. \E next : Continue(c, next)  BY <1>0, <2>1, LeavesMovesOn
    <3> QED  BY <1>0, <1>3, <3>1, RacedTyped
  <2>2. CASE Fail(c)  BY <1>0, <2>2 DEF Fail, Typed
  <2> QED  BY <1>2, <2>1, <2>2
<1>8. faulted' \in BOOLEAN
  <2>1. faulted' = faulted \/ faulted' = TRUE
    BY DEF Drops, Ends, ListSSH, ApplyAuthorizedKeys, StoreFile, Fail
  <2> QED  BY <1>0, <2>1 DEF Typed
<1>9. disk' \in [Accounts -> Nat]
  <2>1. disk \in [Accounts -> Nat]  BY <1>0 DEF Typed
  <2>2. CASE StoreFile(c)
    <3> DEFINE n == IF req[c].how = "write" THEN disk[req[c].acc] + 1
                    ELSE IF disk[req[c].acc] = 0 THEN 0 ELSE disk[req[c].acc] - 1
    <3>1. disk[req[c].acc] \in Nat  BY <1>4, <2>1
    <3>2. n \in Nat  BY <3>1
    <3>3. disk' = [disk EXCEPT ![req[c].acc] = n]  BY <2>2 DEF StoreFile
    <3> HIDE DEF n
    <3> QED  BY <2>1, <3>2, <3>3
  <2>3. CASE disk' = disk  BY <2>1, <2>3
  <2> QED  BY <2>2, <2>3 DEF Drops, Ends, ListSSH, ApplyAuthorizedKeys, Fail
<1>10. authorized' \in [Accounts -> SUBSET (Names \cup Accounts)]
  <2>1. authorized \in [Accounts -> SUBSET (Names \cup Accounts)]  BY <1>0 DEF Typed
  <2>2. CASE ApplyAuthorizedKeys(c)
    <3>1. req[c].step = "apply" /\ authorized' = [authorized EXCEPT ![req[c].acc] = req[c].row]
      BY <2>2 DEF ApplyAuthorizedKeys
    <3>2. TypedRequest(c)  BY <1>0 DEF Typed
    <3>3. req[c].row \in SUBSET (Names \cup Accounts)  BY <1>3, <3>1, <3>2 DEF TypedRequest
    <3> QED  BY <2>1, <3>1, <3>3
  <2>3. CASE authorized' = authorized  BY <2>1, <2>3
  <2> QED  BY <2>2, <2>3 DEF Drops, Ends, ListSSH, StoreFile, Fail
<1> QED  BY <1>2, <1>5, <1>6, <1>7, <1>8, <1>9, <1>10, ShrinkBase

\* An accepted request is one more, and nothing else changes.
LEMMA AcceptedRequest ==
    ASSUME Typed, NEW c \in Clients, NEW a, NEW k, NEW how, NEW x, NEW key \in Keys \cup {NoKey},
           Passed(a, k, how, x), Accept(c, a, k, how, x, key)
    PROVE  /\ req[c] = Idle /\ req'[c] # Idle /\ req'[c] \in Request
           /\ req'[c].step = "commit" /\ req'[c].acc = a /\ req'[c].kind = k /\ req'[c].how = how
           /\ req'[c].row = x /\ req'[c].key = key /\ req'[c].stale = FALSE
           /\ a \in Access[c]
           /\ \A d \in Clients \ {c} : req'[d] = req[d]
           /\ req' \in [Clients -> Request \cup {Idle}]
           /\ served' = served + 1 /\ served' \in 0 .. MaxRequests
           /\ UNCHANGED <<backend, rows, jobs, audits, disk, authorized, raced, faulted>>
<1> DEFINE r == [step |-> "commit", acc |-> a, kind |-> k, how |-> how, row |-> x, key |-> key,
                 stale |-> FALSE]
<1>1. req \in [Clients -> Request \cup {Idle}]  BY DEF Typed
<1>2. x \in Row \cup [acc : Accounts]
  <2>1. k \in Named => x \in Row  BY TypedRowIsRow DEF Passed, Named
  <2>2. k = "disk" => x \in [acc : Accounts]  BY DEF Passed
  <2>3. k = "php" => x \in Row
    <3>1. served + 1 \in 1 .. MaxRequests  BY RequestsAssumption DEF Typed, Accept
    <3> QED  BY <3>1 DEF Passed, New, Row, CronJob, Ids
  <2> QED  BY <2>1, <2>2, <2>3 DEF Passed
<1>3. r \in Request
  <2>1. k \in Tables \cup {"disk", "php"} /\ a \in Accounts /\ how \in Hows  BY DEF Passed, Named
  <2> QED  BY <1>2, <2>1 DEF Request
<1>4. r # Idle  BY <1>3, IdleIsNoRequest
<1>5. req' = [req EXCEPT ![c] = r] /\ req[c] = Idle  BY DEF Accept
<1>6. /\ r.step = "commit" /\ r.acc = a /\ r.kind = k /\ r.how = how
      /\ r.row = x /\ r.key = key /\ r.stale = FALSE
  OBVIOUS
<1>7. served' = served + 1 /\ served' \in 0 .. MaxRequests
  BY RequestsAssumption DEF Accept, Typed
<1> HIDE DEF r
<1>8. req'[c] = r /\ (\A d \in Clients \ {c} : req'[d] = req[d]) /\ req' \in [Clients -> Request \cup {Idle}]
  BY <1>1, <1>3, <1>5
<1> QED  BY <1>3, <1>4, <1>5, <1>6, <1>7, <1>8 DEF Accept, RequireAccount

\* So does a request that passes.
LEMMA AcceptsBase ==
    ASSUME Base, NEW c \in Clients, Accepts(c)
    PROVE  Base'
<1>0. Typed /\ IdsStand /\ UniqueIds  BY DEF Base
<1>1. PICK a, k, how, x : \E key \in Keys \cup {NoKey} : Passed(a, k, how, x) /\ Accept(c, a, k, how, x, key)
  BY DEF Accepts
<1>2. PICK key \in Keys \cup {NoKey} : Accept(c, a, k, how, x, key)  BY <1>1
<1>3. Passed(a, k, how, x)  BY <1>1
<1>4. /\ req[c] = Idle /\ req'[c] # Idle /\ req'[c] \in Request
      /\ req'[c].step = "commit" /\ req'[c].acc = a /\ req'[c].kind = k /\ req'[c].how = how
      /\ req'[c].row = x
      /\ a \in Access[c]
      /\ \A d \in Clients \ {c} : req'[d] = req[d]
      /\ req' \in [Clients -> Request \cup {Idle}]
      /\ served' = served + 1 /\ served' \in 0 .. MaxRequests
      /\ UNCHANGED <<backend, rows, disk, authorized, raced, faulted>>
  BY <1>0, <1>2, <1>3, AcceptedRequest
<1>5. ASSUME NEW d \in Clients, NEW t \in Tables
      PROVE  Holds(d, t)' <=> (IF d = c THEN t = k ELSE Holds(d, t))
  BY <1>4 DEF Holds
<1>6. k \in Tables => k \in Named /\ TypedRow(k, x) /\ x.acc = a  BY <1>3 DEF Passed, Tables, Named
<1>7. Typed'
  <2>1. ASSUME NEW d \in Clients  PROVE TypedRequest(d)'
    <3>1. SUFFICES ASSUME req'[d] # Idle
                   PROVE  /\ req'[d] \in Request
                          /\ req'[d].acc \in Access[d]
                          /\ \A t \in Tables : Holds(d, t)' =>
                                /\ TypedRow(t, req'[d].row)
                                /\ req'[d].row.acc = req'[d].acc
                                /\ t = "db" /\ req'[d].how # "terminate" => req'[d].row.status = "provisioning"
                          /\ req'[d].step = "apply" => req'[d].row \in SUBSET (Names \cup Accounts)
      BY DEF TypedRequest, TypedRow, Domain, Website, Application, HostedDatabase, MailDomain, Mailbox,
             MailAlias, CronJob, FTPAccount
    <3>2. CASE d = c
      <4>1. k = "db" /\ how # "terminate" => x.status = "provisioning"  BY <1>3 DEF Passed
      <4> QED  BY <1>4, <1>5, <1>6, <3>2, <4>1
    <3>3. CASE d # c
      <4>1. req'[d] = req[d]  BY <1>4, <3>3
      <4>2. TypedRequest(d)  BY <1>0 DEF Typed
      <4> QED  BY <1>5, <3>1, <3>3, <4>1, <4>2 DEF TypedRequest
    <3> QED  BY <3>2, <3>3
  <2> QED  BY <1>0, <1>4, <2>1 DEF Typed, TypedRow, Domain, Website, Application, HostedDatabase,
                          MailDomain, Mailbox, MailAlias, CronJob, FTPAccount
<1>8. ASSUME NEW t \in Named, NEW y, Version(t, y)'
      PROVE  Version(t, y) \/ (t = k /\ y = x)
  <2>1. t \in Tables  BY DEF Named
  <2>2. y \in rows[t] \/ \E d \in Clients : Holds(d, t)' /\ req'[d].row = y
    BY <1>4, <1>8 DEF Version
  <2>3. ASSUME NEW d \in Clients, Holds(d, t)', req'[d].row = y  PROVE Version(t, y) \/ (t = k /\ y = x)
    <3>1. CASE d = c  BY <1>4, <1>5, <2>1, <2>3, <3>1
    <3>2. CASE d # c  BY <1>4, <1>5, <2>1, <2>3, <3>2 DEF Version
    <3> QED  BY <3>1, <3>2
  <2> QED  BY <2>2, <2>3 DEF Version
<1>9. IdsStand'
  <2>1. CASE k \notin Named
    <3>1. \A t \in Named : \A y : Version(t, y)' => Version(t, y)  BY <1>8, <2>1
    <3>2. 1 .. served \subseteq 1 .. served'  BY <1>0, <1>4 DEF Typed
    <3>3. \A i : Taken(i) => Taken(i)'  BY <3>2 DEF Taken
    <3>4. "db" \in Named  BY DEF Named, Tables
    <3>5. ASSUME NEW u \in rows["dbuser"]
          PROVE  Taken(u.id)' /\ \A y : Version("db", y)' /\ y.id = u.id => y.acc = u.acc
      BY <1>0, <3>1, <3>3, <3>4 DEF IdsStand
    <3>6. \A t \in Named : \A y : Version(t, y)' => Taken(y.id)'  BY <1>0, <3>1, <3>3 DEF IdsStand
    <3>7. \A t \in Named : \A y, z : Version(t, y)' /\ Version(t, z)' /\ y.id = z.id => SameRow(t, y, z)
      BY <1>0, <3>1 DEF IdsStand
    <3> QED  BY <1>4, <3>5, <3>6, <3>7 DEF IdsStand, SameRow
  <2>2. CASE k \in Named /\ x.id = New
    BY <1>0, <1>4, <1>8, <2>2, IdsOnNew DEF New
  <2>3. CASE k \in Named /\ \E y \in rows[k] : SameRow(k, y, x)
    <3>1. PICK y \in rows[k] : SameRow(k, y, x)  BY <2>3
    <3>2. Version(k, y) /\ SameRow(k, x, y)  BY <3>1, SameRowSymmetric DEF Version
    <3>3. \A t \in Named : \A z : Version(t, z)' => \E v : Version(t, v) /\ SameRow(t, z, v)
      <4>1. \A t \in Named : \A z : SameRow(t, z, z)  BY DEF SameRow
      <4> QED  BY <1>8, <3>2, <4>1
    <3>4. 1 .. served \subseteq 1 .. served'  BY <1>0, <1>4 DEF Typed
    <3>5. \A i : Taken(i) => Taken(i)'  BY <3>4 DEF Taken
    <3> QED  BY <1>0, <1>4, <3>3, <3>5, IdsOn
  <2> QED  BY <1>3, <2>1, <2>2, <2>3 DEF Passed
<1>10. UniqueIds'  BY <1>0, <1>4 DEF UniqueIds
<1> QED  BY <1>7, <1>9, <1>10 DEF Base

(***************************************************************************)
(* Layer 2: what a request has checked stands until another commits.       *)
(***************************************************************************)

\* After a step of c that is not an acceptance, the others are stale.
LEMMA OthersStale ==
    ASSUME Typed, NEW c \in Clients, Leaves(c), NEW d \in Clients, req'[d] # Idle, req'[d].step = "commit"
    PROVE  d # c /\ req'[d].stale
<1>1. PICK next \in Request \cup {Idle} : Continue(c, next)
                 /\ (next = Idle \/ (next \in Request /\ next.step # "commit"))
  BY LeavesMovesOn
<1>2. req'[c] = next /\ \A e \in Clients \ {c} : req'[e] # Idle => req'[e].stale
  BY <1>1, ContinueKeeps
<1> QED  BY <1>1, <1>2

\* A check depends on the rows and the disk only.
LEMMA SameChecks ==
    ASSUME rows' = rows, disk' = disk, NEW a, NEW k, NEW how, NEW x, Checked(a, k, how, x)
    PROVE  Checked(a, k, how, x)'
BY DEF Checked, NewChecked, Of, LocalPartFree, EnforceDomainLimit, CountDomains, EnforceCountLimit,
       EnforceDiskQuota, SameRow, WithinLimit, DomainKind

\* What a request that is not stale has checked still holds: a step that changes rows makes all others stale.
LEMMA ChecksOn ==
    ASSUME Typed, ChecksHold, NEW c \in Clients, Accepts(c) \/ Leaves(c) \/ Fail(c)
    PROVE  ChecksHold'
<1>1. CASE Leaves(c)
  <2>1. \A d \in Clients : req'[d] # Idle /\ req'[d].step = "commit" => req'[d].stale
    BY <1>1, OthersStale
  <2> QED  BY <2>1 DEF ChecksHold
<1>2. ASSUME NEW d \in Clients, req'[d] = req[d], rows' = rows, disk' = disk, req'[d] # Idle,
             req'[d].step = "commit", ~req'[d].stale
      PROVE  Checked(req[d].acc, req[d].kind, req[d].how, req[d].row)'
  <2>1. Checked(req[d].acc, req[d].kind, req[d].how, req[d].row)  BY <1>2 DEF ChecksHold
  <2>2. PICK r : r = req[d]  OBVIOUS
  <2>3. Checked(r.acc, r.kind, r.how, r.row)  BY <2>1, <2>2
  <2>4. Checked(r.acc, r.kind, r.how, r.row)'  BY <1>2, <2>3, SameChecks
  <2>5. r = req'[d]  BY <1>2, <2>2
  <2> QED  BY <2>4, <2>5
<1>3. CASE Fail(c)
  <2>1. rows' = rows /\ disk' = disk /\ req' = [req EXCEPT ![c] = Idle]  BY <1>3 DEF Fail
  <2>2. req \in [Clients -> Request \cup {Idle}]  BY DEF Typed
  <2>3. \A d \in Clients : req'[d] # Idle => req'[d] = req[d]  BY <2>1, <2>2
  <2> QED  BY <1>2, <2>1, <2>3 DEF ChecksHold
<1>4. CASE Accepts(c)
  <2>1. PICK a, k, how, x : \E key \in Keys \cup {NoKey} : Passed(a, k, how, x) /\ Accept(c, a, k, how, x, key)
    BY <1>4 DEF Accepts
  <2>2. PICK key \in Keys \cup {NoKey} : Accept(c, a, k, how, x, key)  BY <2>1
  <2>3. /\ req'[c].acc = a /\ req'[c].kind = k /\ req'[c].how = how /\ req'[c].row = x
        /\ \A d \in Clients \ {c} : req'[d] = req[d]
        /\ rows' = rows /\ disk' = disk
    BY <2>1, <2>2, AcceptedRequest
  <2>4. Checked(a, k, how, x)  BY <2>1 DEF Passed, Checked
  <2>5. Checked(a, k, how, x)'  BY <2>3, <2>4, SameChecks
  <2>6. Checked(req[c].acc, req[c].kind, req[c].how, req[c].row)'  BY <2>3, <2>5
  <2>7. ASSUME NEW d \in Clients, req'[d] # Idle, req'[d].step = "commit", ~req'[d].stale
        PROVE  Checked(req[d].acc, req[d].kind, req[d].how, req[d].row)'
    <3>1. CASE d = c  BY <2>6, <3>1
    <3>2. CASE d # c  BY <1>2, <2>3, <2>7, <3>2
    <3> QED  BY <3>1, <3>2
  <2> QED  BY <2>7 DEF ChecksHold
<1> QED  BY <1>1, <1>3, <1>4

(***************************************************************************)
(* Layer 3: a request commits as a whole and once.                         *)
(***************************************************************************)

\* The job of a request, and jobs are never taken away.
LEMMA JobsOn ==
    ASSUME OneJobPerKey, audits = {j.n : j \in jobs}, NEW c \in Clients, JobsGrow(c) \/ JobsSame
    PROVE  /\ OneJobPerKey' /\ audits' = {j.n : j \in jobs'} /\ jobs \subseteq jobs'
           /\ JobsGrow(c) => \E j \in jobs' :
                 /\ j.kind = req[c].kind /\ j.how = req[c].how /\ j.acc = req[c].acc
                 /\ j.res = req[c].row.id
                 /\ req[c].kind \in {"domain", "website"} => j.rev = req[c].row.rev
<1>1. CASE JobsSame /\ ~JobsGrow(c)  BY <1>1 DEF JobsSame, OneJobPerKey
<1>2. CASE JobsGrow(c)
  <2> DEFINE job == NewJob(req[c])
  <2>1. /\ job.key = req[c].key /\ job.kind = req[c].kind /\ job.how = req[c].how
        /\ job.acc = req[c].acc /\ job.res = req[c].row.id
        /\ req[c].kind \in {"domain", "website"} => job.rev = req[c].row.rev
    BY DEF NewJob
  <2>2. jobs' = jobs \cup {job} /\ audits' = audits \cup {job.n}  BY <1>2 DEF JobsGrow
  <2>3. job.key = NoKey \/ \A j \in jobs : j.key # job.key  BY <1>2, <2>1 DEF JobsGrow, JobReplay
  <2> HIDE DEF job
  <2>4. OneJobPerKey'  BY <2>2, <2>3 DEF OneJobPerKey
  <2>5. audits' = {j.n : j \in jobs'}
    <3>1. {j.n : j \in jobs \cup {job}} = {j.n : j \in jobs} \cup {job.n}  OBVIOUS
    <3> QED  BY <2>2, <3>1
  <2> QED  BY <2>1, <2>2, <2>4, <2>5
<1> QED  BY <1>1, <1>2

\* The jobs of a row of the table, and of a row that a request retires.
RowHasJob(k, x) ==
    /\ k \in {"domain", "website"} /\ (x.id \notin InitialIds \/ x.rev > 1) =>
          \E j \in jobs : j.kind = k /\ j.res = x.id /\ j.rev = x.rev
    /\ k \in {"app", "db", "mailbox", "alias", "cron", "ftp"} /\ x.id \notin InitialIds =>
          \E j \in jobs : j.kind = k /\ j.res = x.id /\ j.acc = x.acc
    /\ k = "db" /\ x.status = "terminating" => \E j \in jobs : j.res = x.id /\ j.how = "terminate"

\* ChangeHasJob, row by row.
LEMMA ChangeHasJobByRow ==
    ChangeHasJob <=> /\ \A k \in Tables : \A x \in rows[k] : RowHasJob(k, x)
                     /\ audits = {j.n : j \in jobs}
<1>1. /\ "db" \in Tables /\ {"domain", "website"} \subseteq Tables
      /\ {"app", "db", "mailbox", "alias", "cron", "ftp"} \subseteq Tables
  BY DEF Tables
<1> QED  BY <1>1 DEF ChangeHasJob, RowHasJob

\* The same after a step.
LEMMA ChangeHasJobByRowAfter ==
    ASSUME \A k \in Tables : \A x \in rows'[k] : RowHasJob(k, x)', audits' = {j.n : j \in jobs'}
    PROVE  ChangeHasJob'
<1>1. /\ "db" \in Tables /\ {"domain", "website"} \subseteq Tables
      /\ {"app", "db", "mailbox", "alias", "cron", "ftp"} \subseteq Tables
  BY DEF Tables
<1> QED  BY <1>1 DEF ChangeHasJob, RowHasJob

\* More jobs do no harm.
LEMMA RowKeepsJob ==
    ASSUME NEW k, NEW x, RowHasJob(k, x), jobs \subseteq jobs'
    PROVE  RowHasJob(k, x)'
BY DEF RowHasJob, InitialIds

Whole == RequestCommitsWhole /\ RetiredHasJob

\* A put comes with its job; a retired application has the job of its creation.
LEMMA StoresWhole ==
    ASSUME Base, Whole, NEW c \in Clients, NEW k, NEW x, NEW users, Stores(c, k, x, users)
    PROVE  RequestCommitsWhole' /\ jobs \subseteq jobs'
<1>0. Typed /\ OneJobPerKey /\ ChangeHasJob /\ RetiredHasJob
  BY DEF Base, Whole, RequestCommitsWhole
<1>1. /\ k \in Tables /\ k # "dbuser"
      /\ rows'[k] = {y \in rows[k] : y.id # x.id} \cup {x}
      /\ rows'["dbuser"] = rows["dbuser"] \cup users
      /\ \A t \in Tables \ {k, "dbuser"} : rows'[t] = rows[t]
  BY <1>0, StoresRows
<1>2. JobsGrow(c) \/ JobsSame  BY DEF Stores
<1>3. audits = {j.n : j \in jobs} /\ \A t \in Tables : \A y \in rows[t] : RowHasJob(t, y)
  BY <1>0, ChangeHasJobByRow
<1>4. OneJobPerKey' /\ audits' = {j.n : j \in jobs'} /\ jobs \subseteq jobs'
  BY <1>0, <1>2, <1>3, JobsOn
<1>5. /\ Holds(c, k) /\ SameRow(k, x, req[c].row) /\ req[c].kind = k
      /\ req[c].row.acc = req[c].acc
  BY <1>0, <1>1, HeldRow DEF Stores, Holds
<1>6. RowHasJob(k, x)'
  <2>1. CASE JobsGrow(c)
    <3>1. PICK j \in jobs' : /\ j.kind = req[c].kind /\ j.how = req[c].how /\ j.acc = req[c].acc
                             /\ j.res = req[c].row.id
                             /\ req[c].kind \in {"domain", "website"} => j.rev = req[c].row.rev
      BY <1>0, <1>3, <2>1, JobsOn
    <3>2. k \in {"domain", "website"} => x = req[c].row  BY DEF Stores
    <3>3. k = "db" /\ x.status = "terminating" => req[c].how = "terminate"  BY DEF Stores
    <3>4. x.id = req[c].row.id /\ x.acc = req[c].row.acc  BY <1>5 DEF SameRow
    <3> QED  BY <1>5, <3>1, <3>2, <3>3, <3>4 DEF RowHasJob, InitialIds
  <2>2. CASE k = "app" /\ req[c].how = "retire" /\ JobsSame
    <3>1. \/ req[c].row.id \in InitialIds
          \/ \E j \in jobs : j.kind = "app" /\ j.res = req[c].row.id /\ j.acc = req[c].row.acc
      BY <1>0, <1>5, <2>2 DEF RetiredHasJob
    <3>2. x.id = req[c].row.id /\ x.acc = req[c].row.acc  BY <1>5 DEF SameRow
    <3> QED  BY <1>4, <2>2, <3>1, <3>2 DEF RowHasJob, InitialIds
  <2>3. CASE k = "ssh"  BY <2>3 DEF RowHasJob
  <2> QED  BY <2>1, <2>2, <2>3 DEF Stores
<1>7. ASSUME NEW t \in Tables, NEW y \in rows'[t]  PROVE RowHasJob(t, y)'
  <2>1. CASE y \in rows[t]  BY <1>3, <1>4, <2>1, RowKeepsJob
  <2>2. CASE t = "dbuser"  BY <2>2 DEF RowHasJob
  <2>3. CASE t = k /\ y = x  BY <1>6, <2>3
  <2> QED  BY <1>1, <1>7, <2>1, <2>2, <2>3
<1>8. ChangeHasJob'  BY <1>4, <1>7, ChangeHasJobByRowAfter
<1> QED  BY <1>4, <1>8 DEF RequestCommitsWhole

\* A step that only takes rows away keeps ChangeHasJob.
LEMMA ShrinkWhole ==
    ASSUME Base, Whole, NEW c \in Clients, JobsGrow(c) \/ JobsSame,
           \A t \in Tables : rows'[t] \subseteq rows[t]
    PROVE  RequestCommitsWhole' /\ jobs \subseteq jobs'
<1>0. OneJobPerKey /\ ChangeHasJob  BY DEF Whole, RequestCommitsWhole
<1>1. audits = {j.n : j \in jobs} /\ \A t \in Tables : \A y \in rows[t] : RowHasJob(t, y)
  BY <1>0, ChangeHasJobByRow
<1>2. OneJobPerKey' /\ audits' = {j.n : j \in jobs'} /\ jobs \subseteq jobs'
  BY <1>0, <1>1, JobsOn
<1>3. \A t \in Tables : \A y \in rows'[t] : RowHasJob(t, y)'  BY <1>1, <1>2, RowKeepsJob
<1>4. ChangeHasJob'  BY <1>2, <1>3, ChangeHasJobByRowAfter
<1> QED  BY <1>2, <1>4 DEF RequestCommitsWhole

\* Every step keeps requests whole.
LEMMA WholeOn ==
    ASSUME Base, Whole, NEW c \in Clients, Accepts(c) \/ Leaves(c) \/ Fail(c)
    PROVE  Whole'
<1>0. Typed /\ RetiredHasJob /\ ChangeHasJob  BY DEF Base, Whole, RequestCommitsWhole
<1>1. RequestCommitsWhole' /\ jobs \subseteq jobs'
  <2>1. ASSUME NEW k, NEW x, NEW users, Stores(c, k, x, users)
        PROVE  RequestCommitsWhole' /\ jobs \subseteq jobs'
    BY <2>1, StoresWhole
  <2>2. ASSUME NEW k, Drops(c, k)  PROVE RequestCommitsWhole' /\ jobs \subseteq jobs'
    <3>1. \A t \in Tables : rows'[t] \subseteq rows[t]  BY <1>0, <2>2, DropsRows
    <3>2. JobsGrow(c) \/ JobsSame  BY <2>2 DEF Drops
    <3> QED  BY <3>1, <3>2, ShrinkWhole
  <2>3. CASE rows' = rows /\ (JobsGrow(c) \/ JobsSame)  BY <2>3, ShrinkWhole
  <2>4. CASE ~(\E k, x, users : Stores(c, k, x, users)) /\ ~\E k : Drops(c, k)
    <3>1. Ends(c) => rows' = rows /\ (JobsGrow(c) \/ JobsSame)  BY DEF Ends
    <3>2. ListSSH(c) \/ ApplyAuthorizedKeys(c) \/ StoreFile(c) \/ Fail(c) => rows' = rows /\ JobsSame
      BY DEF ListSSH, ApplyAuthorizedKeys, StoreFile, Fail, JobsSame
    <3>3. Accepts(c) => rows' = rows /\ JobsSame  BY DEF Accepts, Accept, JobsSame
    <3> QED  BY <2>3, <2>4, <3>1, <3>2, <3>3 DEF Leaves
  <2> QED  BY <2>1, <2>2, <2>4
<1>2. ASSUME NEW d \in Clients, Holds(d, "app")', req'[d].how = "retire"
      PROVE  \/ req'[d].row.id \in InitialIds
             \/ \E j \in jobs' : j.kind = "app" /\ j.res = req'[d].row.id /\ j.acc = req'[d].row.acc
  <2>0. "app" \in Tables /\ "app" \in Named  BY DEF Tables, Named
  <2>1. CASE Holds(d, "app") /\ req[d].how = "retire" /\ req'[d].row = req[d].row
    BY <1>0, <1>1, <2>1 DEF RetiredHasJob
  <2>2. CASE Leaves(c) \/ Fail(c)
    <3>1. MovedOn(c)  BY <1>0, <2>2, AllMoveOn
    <3> QED  BY <1>2, <2>0, <2>1, <3>1, HoldsAfter
  <2>3. CASE Accepts(c)
    <3>1. PICK a, k, how, x : \E key \in Keys \cup {NoKey} : Passed(a, k, how, x) /\ Accept(c, a, k, how, x, key)
      BY <2>3 DEF Accepts
    <3>2. /\ req'[c].kind = k /\ req'[c].how = how /\ req'[c].row = x
          /\ \A e \in Clients \ {c} : req'[e] = req[e]
      BY <1>0, <3>1, AcceptedRequest
    <3>3. CASE d = c
      <4>1. k = "app" /\ how = "retire"  BY <1>2, <3>2, <3>3 DEF Holds
      <4>2. PICK y \in rows["app"] : SameRow("app", y, x)  BY <2>0, <3>1, <4>1 DEF Passed
      <4>3. RowHasJob("app", y)  BY <1>0, <2>0, ChangeHasJobByRow
      <4>4. y.id = x.id /\ y.acc = x.acc  BY <4>2 DEF SameRow
      <4> QED  BY <1>1, <3>2, <3>3, <4>3, <4>4 DEF RowHasJob
    <3>4. CASE d # c  BY <1>2, <2>1, <3>2, <3>4 DEF Holds
    <3> QED  BY <3>3, <3>4
  <2> QED  BY <2>2, <2>3
<1>3. RetiredHasJob'  BY <1>2 DEF RetiredHasJob, InitialIds
<1> QED  BY <1>1, <1>3 DEF Whole

(***************************************************************************)
(* The handlers up to their transaction are acceptances.                   *)
(***************************************************************************)

\* A request for a version of a row of the table has passed.
LEMMA PassesOld ==
    ASSUME NEW a \in Accounts, NEW k \in Named, NEW how \in Hows, how # "createWithUser",
           k = "db" => how = "terminate",
           NEW y \in rows[k], NEW x, TypedRow(k, x), x.acc = a, SameRow(k, y, x)
    PROVE  Passed(a, k, how, x)
<1>1. k # "disk" /\ k # "php"  BY DEF Named, Tables
<1> QED  BY <1>1 DEF Passed

\* A request for a new row has passed when its checks hold.
LEMMA PassesNew ==
    ASSUME NEW a \in Accounts, NEW k \in Named, NEW how \in Hows, how # "retire",
           how = "createWithUser" => k = "db" /\ Of(a, "dbuser") = {} /\ EnforceCountLimit(a, "dbuser"),
           NEW x, TypedRow(k, x), x.acc = a, x.id = New, NewChecked(a, k, x),
           k = "db" /\ how # "terminate" => x.status = "provisioning",
           k \in {"mailbox", "alias"} => \E md \in rows["maildomain"] : md.id = x.of /\ md.acc = a
    PROVE  Passed(a, k, how, x)
<1>1. k # "disk" /\ k # "php"  BY DEF Named, Tables
<1> QED  BY <1>1 DEF Passed

\* The id of a request that passes is in range.
LEMMA NewIsId ==
    ASSUME Typed, NEW c, NEW a, NEW k, NEW how, NEW x, NEW key, Accept(c, a, k, how, x, key)
    PROVE  New \in Ids
<1>1. served + 1 \in 1 .. MaxRequests  BY RequestsAssumption DEF Typed, Accept
<1> QED  BY <1>1 DEF New, Ids

\* A row of the table has its type.
LEMMA RowTyped ==
    ASSUME Typed, NEW k \in Tables, NEW x \in rows[k]
    PROVE  TypedRow(k, x)
BY DEF Typed

\* The handlers of domains, up to their transaction.
LEMMA DomainsAccept ==
    ASSUME Typed, NEW c \in Clients, CreateDomain(c) \/ DeleteDomain(c)
    PROVE  Accepts(c)
<1>0. "domain" \in Named /\ "domain" \in Tables  BY DEF Named, Tables
<1>1. CASE CreateDomain(c)
  <2>1. PICK a \in Accounts, n \in Names, t \in DomainTypes, key \in Keys \cup {NoKey} :
             /\ EnforceDomainLimit(a, t)
             /\ Accept(c, a, "domain", "create",
                   [id |-> New, acc |-> a, name |-> n, type |-> t, status |-> "provisioning", rev |-> 1], key)
    BY <1>1 DEF CreateDomain
  <2> DEFINE x == [id |-> New, acc |-> a, name |-> n, type |-> t, status |-> "provisioning", rev |-> 1]
  <2>2. New \in Ids  BY <2>1, NewIsId
  <2>3. x \in Domain /\ x.acc = a /\ x.id = New /\ x.type = t  BY <2>2 DEF Domain
  <2> HIDE DEF x
  <2>4. TypedRow("domain", x)  BY <2>3 DEF TypedRow
  <2>5. NewChecked(a, "domain", x)  BY <2>1, <2>3 DEF NewChecked, Counted
  <2>6. Passed(a, "domain", "create", x)  BY <1>0, <2>3, <2>4, <2>5, PassesNew DEF Hows
  <2> QED  BY <2>1, <2>6 DEF Accepts, x
<1>2. CASE DeleteDomain(c)
  <2>1. PICK a \in Accounts, d \in rows["domain"], key \in Keys \cup {NoKey} :
             d.acc = a /\ Accept(c, a, "domain", "update", [d EXCEPT !.status = "terminating", !.rev = @ + 1], key)
    BY <1>2 DEF DeleteDomain
  <2> DEFINE x == [d EXCEPT !.status = "terminating", !.rev = @ + 1]
  <2>2. d \in Domain  BY <1>0, RowTyped DEF TypedRow
  <2>3. d.rev + 1 \in Nat  BY <2>2 DEF Domain
  <2>4. x \in Domain /\ SameRow("domain", d, x) /\ x.acc = a
    BY <2>1, <2>2, <2>3 DEF Domain, SameRow
  <2> HIDE DEF x
  <2>5. TypedRow("domain", x)  BY <2>4 DEF TypedRow
  <2>6. Passed(a, "domain", "update", x)  BY <1>0, <2>4, <2>5, PassesOld DEF Hows
  <2> QED  BY <2>1, <2>6 DEF Accepts, x
<1> QED  BY <1>1, <1>2

\* The handlers of sites.
LEMMA WebsitesAccept ==
    ASSUME Typed, NEW c \in Clients, CreateWebsite(c) \/ DeleteWebsite(c)
    PROVE  Accepts(c)
<1>0. "website" \in Named /\ "website" \in Tables /\ "domain" \in Tables  BY DEF Named, Tables
<1>1. ASSUME NEW w \in rows["website"], NEW a \in Accounts, w.acc = a, NEW key \in Keys \cup {NoKey},
             NEW x, x \in Website, SameRow("website", w, x), Accept(c, a, "website", "upsert", x, key)
      PROVE  Accepts(c)
  <2>1. TypedRow("website", x) /\ x.acc = a  BY <1>1 DEF TypedRow, SameRow
  <2>2. Passed(a, "website", "upsert", x)  BY <1>0, <1>1, <2>1, PassesOld DEF Hows
  <2> QED  BY <1>1, <2>2 DEF Accepts
<1>2. CASE CreateWebsite(c)
  <2>1. PICK a \in Accounts, d \in rows["domain"], key \in Keys \cup {NoKey} :
          \/ \E w \in Of(a, "website") : Accept(c, a, "website", "upsert", [w EXCEPT !.rev = @ + 1], key)
          \/ /\ d.acc # a \/ {w \in Of(a, "website") : w.of = d.id} = {}
             /\ WithinLimit(Cardinality(Of(a, "website")), "website")
             /\ Accept(c, a, "website", "upsert",
                       [id |-> New, acc |-> a, of |-> d.id, enabled |-> TRUE, rev |-> 1], key)
    BY <1>2 DEF CreateWebsite
  <2>2. ASSUME NEW w \in Of(a, "website"), Accept(c, a, "website", "upsert", [w EXCEPT !.rev = @ + 1], key)
        PROVE  Accepts(c)
    <3> DEFINE x == [w EXCEPT !.rev = @ + 1]
    <3>1. w \in rows["website"] /\ w.acc = a  BY DEF Of
    <3>2. w \in Website  BY <1>0, <3>1, RowTyped DEF TypedRow
    <3>3. w.rev + 1 \in Nat  BY <3>2 DEF Website
    <3>4. x \in Website /\ SameRow("website", w, x)  BY <3>2, <3>3 DEF Website, SameRow
    <3> HIDE DEF x
    <3> QED  BY <1>1, <2>2, <3>1, <3>4 DEF x
  <2>3. ASSUME d.acc # a \/ {w \in Of(a, "website") : w.of = d.id} = {},
               WithinLimit(Cardinality(Of(a, "website")), "website"),
               Accept(c, a, "website", "upsert",
                       [id |-> New, acc |-> a, of |-> d.id, enabled |-> TRUE, rev |-> 1], key)
        PROVE  Accepts(c)
    <3> DEFINE x == [id |-> New, acc |-> a, of |-> d.id, enabled |-> TRUE, rev |-> 1]
    <3>1. New \in Ids  BY <2>3, NewIsId
    <3>2. d \in Domain  BY <1>0, RowTyped DEF TypedRow
    <3>3. d.id \in Ids  BY <3>2 DEF Domain
    <3>4. x \in Website /\ x.acc = a /\ x.id = New /\ x.of = d.id  BY <3>1, <3>3 DEF Website
    <3> HIDE DEF x
    <3>5. TypedRow("website", x)  BY <3>4 DEF TypedRow
    <3>6. (\A w \in Of(a, "website") : w.of # x.of) \/ \E e \in rows["domain"] : e.id = x.of /\ e.acc # a
      BY <2>3, <3>4
    <3>7. NewChecked(a, "website", x)  BY <2>3, <3>6 DEF NewChecked
    <3>8. Passed(a, "website", "upsert", x)  BY <1>0, <3>4, <3>5, <3>7, PassesNew DEF Hows
    <3> QED  BY <2>3, <3>8 DEF Accepts, x
  <2> QED  BY <2>1, <2>2, <2>3
<1>3. CASE DeleteWebsite(c)
  <2>1. PICK a \in Accounts, w \in rows["website"], key \in Keys \cup {NoKey} :
             w.acc = a /\ Accept(c, a, "website", "upsert", [w EXCEPT !.enabled = FALSE, !.rev = @ + 1], key)
    BY <1>3 DEF DeleteWebsite
  <2> DEFINE x == [w EXCEPT !.enabled = FALSE, !.rev = @ + 1]
  <2>2. w \in Website  BY <1>0, RowTyped DEF TypedRow
  <2>3. w.rev + 1 \in Nat  BY <2>2 DEF Website
  <2>4. x \in Website /\ SameRow("website", w, x)  BY <2>2, <2>3 DEF Website, SameRow
  <2> HIDE DEF x
  <2> QED  BY <1>1, <2>1, <2>4 DEF x
<1> QED  BY <1>2, <1>3

\* The handlers of applications.
LEMMA AppsAccept ==
    ASSUME Typed, NEW c \in Clients, CreateApp(c) \/ InstallWordPress(c) \/ DeleteApp(c)
    PROVE  Accepts(c)
<1>0. "app" \in Named /\ "app" \in Tables /\ "website" \in Tables  BY DEF Named, Tables
<1>1. CASE CreateApp(c) \/ InstallWordPress(c)
  <2>1. PICK a \in Accounts, w \in rows["website"], key \in Keys \cup {NoKey} :
             EnforceCountLimit(a, "app")
             /\ Accept(c, a, "app", "upsert", [id |-> New, acc |-> a, of |-> w.id, status |-> "provisioning"], key)
    BY <1>1 DEF CreateApp, InstallWordPress, Of
  <2> DEFINE x == [id |-> New, acc |-> a, of |-> w.id, status |-> "provisioning"]
  <2>2. w \in Website  BY <1>0, RowTyped DEF TypedRow
  <2>3. New \in Ids /\ w.id \in Ids  BY <2>1, <2>2, NewIsId DEF Website
  <2>4. x \in Application /\ x.acc = a /\ x.id = New  BY <2>3 DEF Application
  <2> HIDE DEF x
  <2>5. TypedRow("app", x)  BY <2>4 DEF TypedRow
  <2>6. NewChecked(a, "app", x)  BY <2>1 DEF NewChecked, EnforceCountLimit
  <2>7. Passed(a, "app", "upsert", x)  BY <1>0, <2>4, <2>5, <2>6, PassesNew DEF Hows
  <2> QED  BY <2>1, <2>7 DEF Accepts, x
<1>2. CASE DeleteApp(c)
  <2>1. PICK a \in Accounts, y \in rows["app"], key \in Keys \cup {NoKey} :
             y.acc = a /\ Accept(c, a, "app", "retire", [y EXCEPT !.status = "retiring"], key)
    BY <1>2 DEF DeleteApp
  <2> DEFINE x == [y EXCEPT !.status = "retiring"]
  <2>2. y \in Application  BY <1>0, RowTyped DEF TypedRow
  <2>3. x \in Application /\ SameRow("app", y, x) /\ x.acc = a  BY <2>1, <2>2 DEF Application, SameRow
  <2> HIDE DEF x
  <2>4. TypedRow("app", x)  BY <2>3 DEF TypedRow
  <2>5. Passed(a, "app", "retire", x)  BY <1>0, <2>3, <2>4, PassesOld DEF Hows
  <2> QED  BY <2>1, <2>5 DEF Accepts, x
<1> QED  BY <1>1, <1>2

\* The handlers of databases.
LEMMA DatabasesAccept ==
    ASSUME Typed, NEW c \in Clients, CreateDB(c) \/ DeleteDB(c)
    PROVE  Accepts(c)
<1>0. "db" \in Named /\ "db" \in Tables  BY DEF Named, Tables
<1>1. CASE CreateDB(c)
  <2>1. PICK a \in Accounts, n \in Names, key \in Keys \cup {NoKey} :
             /\ EnforceCountLimit(a, "db")
             /\ Of(a, "dbuser") = {} => EnforceCountLimit(a, "dbuser")
             /\ Accept(c, a, "db", IF Of(a, "dbuser") = {} THEN "createWithUser" ELSE "create",
                       [id |-> New, acc |-> a, name |-> n, status |-> "provisioning"], key)
    BY <1>1 DEF CreateDB
  <2> DEFINE x == [id |-> New, acc |-> a, name |-> n, status |-> "provisioning"]
             how == IF Of(a, "dbuser") = {} THEN "createWithUser" ELSE "create"
  <2>2. New \in Ids  BY <2>1, NewIsId
  <2>3. x \in HostedDatabase /\ x.acc = a /\ x.id = New /\ x.status = "provisioning"
    BY <2>2 DEF HostedDatabase
  <2>4. how \in Hows /\ how # "retire"
        /\ (how = "createWithUser" => Of(a, "dbuser") = {} /\ EnforceCountLimit(a, "dbuser"))
    BY <2>1 DEF Hows
  <2> HIDE DEF x, how
  <2>5. TypedRow("db", x)  BY <2>3 DEF TypedRow
  <2>6. NewChecked(a, "db", x)  BY <2>1 DEF NewChecked, EnforceCountLimit
  <2>7. Passed(a, "db", how, x)  BY <1>0, <2>3, <2>4, <2>5, <2>6, PassesNew
  <2> QED  BY <2>1, <2>7 DEF Accepts, x, how
<1>2. CASE DeleteDB(c)
  <2>1. PICK a \in Accounts, d \in rows["db"], key \in Keys \cup {NoKey} :
             d.acc = a /\ Accept(c, a, "db", "terminate", d, key)
    BY <1>2 DEF DeleteDB
  <2>2. TypedRow("db", d) /\ SameRow("db", d, d)  BY <1>0, RowTyped DEF SameRow
  <2>3. Passed(a, "db", "terminate", d)  BY <1>0, <2>1, <2>2, PassesOld DEF Hows
  <2> QED  BY <2>1, <2>3 DEF Accepts
<1> QED  BY <1>1, <1>2

\* A request on a row of the table as it is.
LEMMA OldRowAccept ==
    ASSUME Typed, NEW c \in Clients, NEW a \in Accounts, NEW k \in Named, k # "db",
           NEW how \in Hows, how # "createWithUser", NEW y \in rows[k], y.acc = a,
           NEW key \in Keys \cup {NoKey}, Accept(c, a, k, how, y, key)
    PROVE  Accepts(c)
<1>1. TypedRow(k, y) /\ SameRow(k, y, y)  BY RowTyped DEF SameRow, Named
<1>2. Passed(a, k, how, y)  BY <1>1, PassesOld
<1> QED  BY <1>2 DEF Accepts

\* The handler of mail domains.
LEMMA MailDomainsAccept ==
    ASSUME Typed, NEW c \in Clients, PatchMailDomain(c)
    PROVE  Accepts(c)
<1>0. "maildomain" \in Named /\ "maildomain" \in Tables  BY DEF Named, Tables
<1>1. PICK a \in Accounts, md \in rows["maildomain"], n \in Names, key \in Keys \cup {NoKey} :
           md.acc = a /\ Accept(c, a, "maildomain", "upsert", [md EXCEPT !.catchall = n], key)
  BY DEF PatchMailDomain
<1> DEFINE x == [md EXCEPT !.catchall = n]
<1>2. md \in MailDomain  BY <1>0, RowTyped DEF TypedRow
<1>3. x \in MailDomain /\ SameRow("maildomain", md, x) /\ x.acc = a  BY <1>1, <1>2 DEF MailDomain, SameRow
<1> HIDE DEF x
<1>4. TypedRow("maildomain", x)  BY <1>3 DEF TypedRow
<1>5. Passed(a, "maildomain", "upsert", x)  BY <1>0, <1>3, <1>4, PassesOld DEF Hows
<1> QED  BY <1>1, <1>5 DEF Accepts, x

\* The handlers of mailboxes.
LEMMA MailboxesAccept ==
    ASSUME Typed, NEW c \in Clients, CreateMailbox(c) \/ DeleteMailbox(c)
    PROVE  Accepts(c)
<1>0. "mailbox" \in Named /\ "mailbox" \in Tables /\ "maildomain" \in Tables  BY DEF Named, Tables
<1>1. CASE CreateMailbox(c)
  <2>1. PICK a \in Accounts, n \in Names \cup Accounts, key \in Keys \cup {NoKey} :
          \E md \in Of(a, "maildomain") :
            \/ \E b \in Of(a, "mailbox") : Accept(c, a, "mailbox", "upsert", b, key)
            \/ /\ LocalPartFree(a, md.id, n)
               /\ EnforceCountLimit(a, "mailbox")
               /\ Accept(c, a, "mailbox", "upsert", [id |-> New, acc |-> a, of |-> md.id, name |-> n], key)
    BY <1>1 DEF CreateMailbox
  <2>2. PICK md \in Of(a, "maildomain") :
            \/ \E b \in Of(a, "mailbox") : Accept(c, a, "mailbox", "upsert", b, key)
            \/ /\ LocalPartFree(a, md.id, n)
               /\ EnforceCountLimit(a, "mailbox")
               /\ Accept(c, a, "mailbox", "upsert", [id |-> New, acc |-> a, of |-> md.id, name |-> n], key)
    BY <2>1
  <2>3. ASSUME NEW b \in Of(a, "mailbox"), Accept(c, a, "mailbox", "upsert", b, key)  PROVE Accepts(c)
    <3>1. b \in rows["mailbox"] /\ b.acc = a  BY DEF Of
    <3> QED  BY <1>0, <2>3, <3>1, OldRowAccept DEF Hows
  <2>4. ASSUME LocalPartFree(a, md.id, n), EnforceCountLimit(a, "mailbox"),
               Accept(c, a, "mailbox", "upsert", [id |-> New, acc |-> a, of |-> md.id, name |-> n], key)
        PROVE  Accepts(c)
    <3> DEFINE x == [id |-> New, acc |-> a, of |-> md.id, name |-> n]
    <3>1. md \in rows["maildomain"] /\ md.acc = a  BY DEF Of
    <3>2. md \in MailDomain  BY <1>0, <3>1, RowTyped DEF TypedRow
    <3>3. New \in Ids /\ md.id \in Ids  BY <2>4, <3>2, NewIsId DEF MailDomain
    <3>4. x \in Mailbox /\ x.acc = a /\ x.id = New /\ x.of = md.id /\ x.name = n  BY <3>3 DEF Mailbox
    <3> HIDE DEF x
    <3>5. TypedRow("mailbox", x)  BY <3>4 DEF TypedRow
    <3>6. NewChecked(a, "mailbox", x)  BY <2>4, <3>4 DEF NewChecked, EnforceCountLimit
    <3>7. Passed(a, "mailbox", "upsert", x)  BY <1>0, <3>1, <3>4, <3>5, <3>6, PassesNew DEF Hows
    <3> QED  BY <2>4, <3>7 DEF Accepts, x
  <2> QED  BY <2>2, <2>3, <2>4
<1>2. CASE DeleteMailbox(c)
  <2>1. PICK a \in Accounts, b \in rows["mailbox"], key \in Keys \cup {NoKey} :
             b.acc = a /\ Accept(c, a, "mailbox", "delete", b, key)
    BY <1>2 DEF DeleteMailbox
  <2> QED  BY <1>0, <2>1, OldRowAccept DEF Hows
<1> QED  BY <1>1, <1>2

\* The handlers of aliases and mailing lists.
LEMMA AliasesAccept ==
    ASSUME Typed, NEW c \in Clients,
           \/ CreateMailAlias(c) \/ DeleteMailAlias(c) \/ CreateMailingList(c)
           \/ UpdateMailingList(c) \/ DeleteMailingList(c)
    PROVE  Accepts(c)
<1>0. "alias" \in Named /\ "alias" \in Tables /\ "maildomain" \in Tables  BY DEF Named, Tables
<1>1. CASE CreateMailAlias(c) \/ CreateMailingList(c)
  <2>1. PICK a \in Accounts, n \in Names, to \in Names \cup Accounts, key \in Keys \cup {NoKey}, l \in BOOLEAN :
          \E md \in Of(a, "maildomain") :
             /\ LocalPartFree(a, md.id, n)
             /\ Accept(c, a, "alias", "upsert",
                   [id |-> New, acc |-> a, of |-> md.id, name |-> n, dest |-> to, list |-> l], key)
    BY <1>1 DEF CreateMailAlias, CreateMailingList
  <2>2. PICK md \in Of(a, "maildomain") :
             /\ LocalPartFree(a, md.id, n)
             /\ Accept(c, a, "alias", "upsert",
                   [id |-> New, acc |-> a, of |-> md.id, name |-> n, dest |-> to, list |-> l], key)
    BY <2>1
  <2> DEFINE x == [id |-> New, acc |-> a, of |-> md.id, name |-> n, dest |-> to, list |-> l]
  <2>3. md \in rows["maildomain"] /\ md.acc = a  BY DEF Of
  <2>4. md \in MailDomain  BY <1>0, <2>3, RowTyped DEF TypedRow
  <2>5. New \in Ids /\ md.id \in Ids  BY <2>2, <2>4, NewIsId DEF MailDomain
  <2>6. x \in MailAlias /\ x.acc = a /\ x.id = New /\ x.of = md.id /\ x.name = n  BY <2>5 DEF MailAlias
  <2> HIDE DEF x
  <2>7. TypedRow("alias", x)  BY <2>6 DEF TypedRow
  <2>8. NewChecked(a, "alias", x)  BY <2>2, <2>6 DEF NewChecked, Counted
  <2>9. Passed(a, "alias", "upsert", x)  BY <1>0, <2>3, <2>6, <2>7, <2>8, PassesNew DEF Hows
  <2> QED  BY <2>2, <2>9 DEF Accepts, x
<1>2. CASE UpdateMailingList(c)
  <2>1. PICK a \in Accounts, l \in rows["alias"], to \in Names, key \in Keys \cup {NoKey} :
             l.acc = a /\ Accept(c, a, "alias", "upsert", [l EXCEPT !.dest = to], key)
    BY <1>2 DEF UpdateMailingList
  <2> DEFINE x == [l EXCEPT !.dest = to]
  <2>2. l \in MailAlias  BY <1>0, RowTyped DEF TypedRow
  <2>3. x \in MailAlias /\ SameRow("alias", l, x) /\ x.acc = a  BY <2>1, <2>2 DEF MailAlias, SameRow
  <2> HIDE DEF x
  <2>4. TypedRow("alias", x)  BY <2>3 DEF TypedRow
  <2>5. Passed(a, "alias", "upsert", x)  BY <1>0, <2>3, <2>4, PassesOld DEF Hows
  <2> QED  BY <2>1, <2>5 DEF Accepts, x
<1>3. CASE DeleteMailAlias(c) \/ DeleteMailingList(c)
  <2>1. PICK a \in Accounts, l \in rows["alias"], key \in Keys \cup {NoKey} :
             l.acc = a /\ Accept(c, a, "alias", "delete", l, key)
    BY <1>3 DEF DeleteMailAlias, DeleteMailingList
  <2> QED  BY <1>0, <2>1, OldRowAccept DEF Hows
<1> QED  BY <1>1, <1>2, <1>3

\* The handlers of cron jobs, FTP accounts and SSH keys.
LEMMA ListsAccept ==
    ASSUME Typed, NEW c \in Clients,
           \/ CreateCron(c) \/ DeleteCron(c) \/ CreateFTP(c) \/ DeleteFTP(c)
           \/ CreateSSH(c) \/ DeleteSSH(c)
    PROVE  Accepts(c)
<1>0. {"cron", "ftp", "ssh"} \subseteq Named /\ {"cron", "ftp", "ssh"} \subseteq Tables
  BY DEF Named, Tables
<1>1. CASE CreateCron(c)
  <2>1. PICK a \in Accounts, key \in Keys \cup {NoKey} :
             EnforceCountLimit(a, "cron") /\ Accept(c, a, "cron", "upsert", [id |-> New, acc |-> a], key)
    BY <1>1 DEF CreateCron
  <2> DEFINE x == [id |-> New, acc |-> a]
  <2>2. New \in Ids  BY <2>1, NewIsId
  <2>3. x \in CronJob /\ x.acc = a /\ x.id = New  BY <2>2 DEF CronJob
  <2> HIDE DEF x
  <2>4. TypedRow("cron", x)  BY <2>3 DEF TypedRow
  <2>5. NewChecked(a, "cron", x)  BY <2>1 DEF NewChecked, EnforceCountLimit
  <2>6. Passed(a, "cron", "upsert", x)  BY <1>0, <2>3, <2>4, <2>5, PassesNew DEF Hows
  <2> QED  BY <2>1, <2>6 DEF Accepts, x
<1>2. CASE DeleteCron(c)
  <2>1. PICK a \in Accounts, x \in rows["cron"], key \in Keys \cup {NoKey} :
             x.acc = a /\ Accept(c, a, "cron", "delete", x, key)
    BY <1>2 DEF DeleteCron
  <2> QED  BY <1>0, <2>1, OldRowAccept DEF Hows
<1>3. CASE CreateFTP(c)
  <2>1. PICK a \in Accounts, n \in Names \cup Accounts, key \in Keys \cup {NoKey} :
          \/ \E f \in Of(a, "ftp") : Accept(c, a, "ftp", "upsert", f, key)
          \/ EnforceCountLimit(a, "ftp")
             /\ Accept(c, a, "ftp", "upsert", [id |-> New, acc |-> a, name |-> n], key)
    BY <1>3 DEF CreateFTP
  <2>2. ASSUME NEW f \in Of(a, "ftp"), Accept(c, a, "ftp", "upsert", f, key)  PROVE Accepts(c)
    <3>1. f \in rows["ftp"] /\ f.acc = a  BY DEF Of
    <3> QED  BY <1>0, <2>2, <3>1, OldRowAccept DEF Hows
  <2>3. ASSUME EnforceCountLimit(a, "ftp"),
               Accept(c, a, "ftp", "upsert", [id |-> New, acc |-> a, name |-> n], key)
        PROVE  Accepts(c)
    <3> DEFINE x == [id |-> New, acc |-> a, name |-> n]
    <3>1. New \in Ids  BY <2>3, NewIsId
    <3>2. x \in FTPAccount /\ x.acc = a /\ x.id = New  BY <3>1 DEF FTPAccount
    <3> HIDE DEF x
    <3>3. TypedRow("ftp", x)  BY <3>2 DEF TypedRow
    <3>4. NewChecked(a, "ftp", x)  BY <2>3 DEF NewChecked, EnforceCountLimit
    <3>5. Passed(a, "ftp", "upsert", x)  BY <1>0, <3>2, <3>3, <3>4, PassesNew DEF Hows
    <3> QED  BY <2>3, <3>5 DEF Accepts, x
  <2> QED  BY <2>1, <2>2, <2>3
<1>4. CASE DeleteFTP(c)
  <2>1. PICK a \in Accounts, key \in Keys \cup {NoKey} :
             \E f \in Of(a, "ftp") : Accept(c, a, "ftp", "delete", f, key)
    BY <1>4 DEF DeleteFTP
  <2>2. PICK f \in rows["ftp"] : f.acc = a /\ Accept(c, a, "ftp", "delete", f, key)  BY <2>1 DEF Of
  <2> QED  BY <1>0, <2>2, OldRowAccept DEF Hows
<1>5. CASE CreateSSH(c)
  <2>1. PICK a \in Accounts, n \in Names :
             Accept(c, a, "ssh", "put", [id |-> New, acc |-> a, name |-> n], NoKey)
    BY <1>5 DEF CreateSSH
  <2> DEFINE x == [id |-> New, acc |-> a, name |-> n]
  <2>2. New \in Ids  BY <2>1, NewIsId
  <2>3. x \in FTPAccount /\ x.acc = a /\ x.id = New  BY <2>2 DEF FTPAccount
  <2> HIDE DEF x
  <2>4. TypedRow("ssh", x)  BY <2>3 DEF TypedRow
  <2>5. NewChecked(a, "ssh", x)  BY DEF NewChecked, Counted
  <2>6. Passed(a, "ssh", "put", x)  BY <1>0, <2>3, <2>4, <2>5, PassesNew DEF Hows
  <2>7. NoKey \in Keys \cup {NoKey}  OBVIOUS
  <2> QED  BY <2>1, <2>6, <2>7 DEF Accepts, x
<1>6. CASE DeleteSSH(c)
  <2>1. PICK a \in Accounts, s \in rows["ssh"] : s.acc = a /\ Accept(c, a, "ssh", "drop", s, NoKey)
    BY <1>6 DEF DeleteSSH
  <2>2. NoKey \in Keys \cup {NoKey}  OBVIOUS
  <2> QED  BY <1>0, <2>1, <2>2, OldRowAccept DEF Hows
<1> QED  BY <1>1, <1>2, <1>3, <1>4, <1>5, <1>6

\* The handlers of files and of the PHP runtime.
LEMMA OthersAccept ==
    ASSUME Typed, NEW c \in Clients, WriteFile(c) \/ DeleteFile(c) \/ EnsurePHPRuntime(c)
    PROVE  Accepts(c)
<1>0. {"disk", "php"} \cap Named = {}  BY DEF Named, Tables
<1>1. CASE WriteFile(c)
  <2>1. PICK a \in Accounts : EnforceDiskQuota(a, 1) /\ Accept(c, a, "disk", "write", [acc |-> a], NoKey)
    BY <1>1 DEF WriteFile
  <2>2. Passed(a, "disk", "write", [acc |-> a])  BY <1>0, <2>1 DEF Passed, Hows
  <2>3. NoKey \in Keys \cup {NoKey}  OBVIOUS
  <2> QED  BY <2>1, <2>2, <2>3 DEF Accepts
<1>2. CASE DeleteFile(c)
  <2>1. PICK a \in Accounts : Accept(c, a, "disk", "erase", [acc |-> a], NoKey)  BY <1>2 DEF DeleteFile
  <2>2. Passed(a, "disk", "erase", [acc |-> a])  BY <1>0 DEF Passed, Hows
  <2>3. NoKey \in Keys \cup {NoKey}  OBVIOUS
  <2> QED  BY <2>1, <2>2, <2>3 DEF Accepts
<1>3. CASE EnsurePHPRuntime(c)
  <2>1. PICK a \in Accounts, key \in Keys \cup {NoKey} :
             Accept(c, a, "php", "enqueue", [id |-> New, acc |-> a], key)
    BY <1>3 DEF EnsurePHPRuntime
  <2>2. Passed(a, "php", "enqueue", [id |-> New, acc |-> a])  BY <1>0 DEF Passed, Hows
  <2> QED  BY <2>1, <2>2 DEF Accepts
<1> QED  BY <1>1, <1>2, <1>3

(***************************************************************************)
(* The transactions put a row, take one away, or end the request.          *)
(***************************************************************************)

\* A transaction ends its request, with its change and a job or with neither.
LEMMA CommitForms ==
    ASSUME NEW c \in Clients, NEW k, NEW hows, Commits(c, k, hows), NEW accepted, NEW new,
           CommitResourceMutation(c, accepted, new)
    PROVE  \/ Ends(c)
           \/ accepted /\ rows' = new /\ JobsGrow(c) /\ Over(c)
              /\ UNCHANGED <<backend, disk, authorized, served, faulted>>
<1>1. req[c] # Idle /\ req[c].step = "commit"  BY DEF Commits
<1>2. CASE ~JobReplay(req[c].key) /\ accepted  BY <1>2 DEF CommitResourceMutation, JobsGrow
<1>3. CASE ~(~JobReplay(req[c].key) /\ accepted)
  BY <1>1, <1>3 DEF CommitResourceMutation, Ends, JobsSame
<1> QED  BY <1>2, <1>3

\* A put without users.
LEMMA PutAlone ==
    ASSUME Typed, NEW k \in Tables, NEW x
    PROVE  Put(k, x) = [Put(k, x) EXCEPT !["dbuser"] = @ \cup {}]
<1>1. rows \in [Tables -> SUBSET Row]  BY DEF Typed
<1> QED  BY <1>1 DEF Put

\* A row is put as the request holds it.
LEMMA StoresHeld ==
    ASSUME Typed, NEW c \in Clients, NEW k \in Named \ {"ssh"}, NEW hows, Commits(c, k, hows),
           req[c].how \notin {"delete", "terminate"},
           StoreAccepts(k, req[c].row), rows' = Put(k, req[c].row), JobsGrow(c), Over(c),
           UNCHANGED <<backend, disk, authorized, served, faulted>>
    PROVE  Leaves(c)
<1>0. k \in Tables /\ k \in Named /\ k # "ssh"  BY DEF Named
<1>1. Holds(c, k)  BY DEF Commits, Holds
<1>2. TypedRow(k, req[c].row) /\ SameRow(k, req[c].row, req[c].row)  BY <1>0, <1>1, HeldRow DEF SameRow
<1>3. k = "db" => req[c].row.status = "provisioning"
  BY <1>0, <1>1 DEF Typed, TypedRequest, Holds
<1>4. rows' = [Put(k, req[c].row) EXCEPT !["dbuser"] = @ \cup {}]  BY <1>0, PutAlone
<1>5. Stores(c, k, req[c].row, {})  BY <1>0, <1>1, <1>2, <1>3, <1>4 DEF Stores
<1> QED  BY <1>5 DEF Leaves

\* A transaction that removes the row of its request.
LEMMA DropsHeld ==
    ASSUME NEW c \in Clients, NEW k \in {"mailbox", "alias", "cron", "ftp"}, NEW hows, Commits(c, k, hows),
           rows' = Remove(k, req[c].row), JobsGrow(c), Over(c),
           UNCHANGED <<backend, disk, authorized, served, faulted>>
    PROVE  Leaves(c)
<1>1. Holds(c, k)  BY DEF Commits, Holds
<1>2. Drops(c, k)  BY <1>1 DEF Drops
<1> QED  BY <1>2 DEF Leaves

\* The transactions of domains.
LEMMA DomainsCommit ==
    ASSUME Typed, NEW c \in Clients, CreateDomainWithJob(c) \/ UpdateDomainWithJob(c)
    PROVE  Leaves(c)
<1>0. "domain" \in Named \ {"ssh"}  BY DEF Named, Tables
<1>1. CASE CreateDomainWithJob(c)
  <2> DEFINE ok == IF PG THEN PgCreateDomain(req[c].row) ELSE MemCreateDomain(req[c].row)
  <2>1. Commits(c, "domain", {"create"}) /\ CommitResourceMutation(c, ok, Put("domain", req[c].row))
    BY <1>1 DEF CreateDomainWithJob
  <2>2. req[c].how = "create"  BY <2>1 DEF Commits
  <2>3. ok => StoreAccepts("domain", req[c].row)  BY DEF StoreAccepts, PgCreateDomain, MemCreateDomain
  <2> HIDE DEF ok
  <2>4. Ends(c) => Leaves(c)  BY DEF Leaves
  <2> QED  BY <1>0, <2>1, <2>2, <2>3, <2>4, CommitForms, StoresHeld
<1>2. CASE UpdateDomainWithJob(c)
  <2> DEFINE ok == IF PG THEN PgUpdateDomain(req[c].row) ELSE MemUpdateDomain(req[c].row)
  <2>1. Commits(c, "domain", {"update"}) /\ CommitResourceMutation(c, ok, Put("domain", req[c].row))
    BY <1>2 DEF UpdateDomainWithJob
  <2>2. req[c].how = "update"  BY <2>1 DEF Commits
  <2>3. ok => StoreAccepts("domain", req[c].row)  BY DEF StoreAccepts, PgUpdateDomain
  <2> HIDE DEF ok
  <2>4. Ends(c) => Leaves(c)  BY DEF Leaves
  <2> QED  BY <1>0, <2>1, <2>2, <2>3, <2>4, CommitForms, StoresHeld
<1> QED  BY <1>1, <1>2

\* The transactions of sites and applications.
LEMMA SitesCommit ==
    ASSUME Typed, NEW c \in Clients, UpsertWebsiteWithJob(c) \/ UpsertApplicationWithJob(c)
    PROVE  Leaves(c)
<1>0. "website" \in Named \ {"ssh"} /\ "app" \in Named \ {"ssh"}  BY DEF Named, Tables
<1>1. CASE UpsertWebsiteWithJob(c)
  <2> DEFINE ok == IF PG THEN PgUpsertWebsite(req[c].row) ELSE MemUpsertWebsite(req[c].row)
  <2>1. Commits(c, "website", {"upsert"}) /\ CommitResourceMutation(c, ok, Put("website", req[c].row))
    BY <1>1 DEF UpsertWebsiteWithJob
  <2>2. req[c].how = "upsert"  BY <2>1 DEF Commits
  <2>3. ok => StoreAccepts("website", req[c].row)
    BY DEF StoreAccepts, PgUpsertWebsite, MemUpsertWebsite, ById
  <2> HIDE DEF ok
  <2>4. Ends(c) => Leaves(c)  BY DEF Leaves
  <2> QED  BY <1>0, <2>1, <2>2, <2>3, <2>4, CommitForms, StoresHeld
<1>2. CASE UpsertApplicationWithJob(c)
  <2> DEFINE ok == IF PG THEN PgUpsertApplication(req[c].row) ELSE MemUpsertApplication(req[c].row)
  <2>1. Commits(c, "app", {"upsert"}) /\ CommitResourceMutation(c, ok, Put("app", req[c].row))
    BY <1>2 DEF UpsertApplicationWithJob
  <2>2. req[c].how = "upsert"  BY <2>1 DEF Commits
  <2>3. StoreAccepts("app", req[c].row)  BY DEF StoreAccepts
  <2> HIDE DEF ok
  <2>4. Ends(c) => Leaves(c)  BY DEF Leaves
  <2> QED  BY <1>0, <2>1, <2>2, <2>3, <2>4, CommitForms, StoresHeld
<1> QED  BY <1>1, <1>2

\* The transactions of databases.
LEMMA DatabasesCommit ==
    ASSUME Typed, NEW c \in Clients, UpsertDatabaseWithJob(c) \/ DeleteDatabaseWithJob(c)
    PROVE  Leaves(c)
<1>0. "db" \in Named /\ "db" \in Tables  BY DEF Named, Tables
<1>1. Ends(c) => Leaves(c)  BY DEF Leaves
<1>2. Holds(c, "db")  BY DEF UpsertDatabaseWithJob, DeleteDatabaseWithJob, Commits, Holds
<1>3. /\ TypedRow("db", req[c].row) /\ SameRow("db", req[c].row, req[c].row)
      /\ req[c].row \in HostedDatabase
      /\ req[c].how # "terminate" => req[c].row.status = "provisioning"
  BY <1>0, <1>2, HeldRow DEF SameRow, TypedRow, Typed, TypedRequest, Holds
<1>4. CASE UpsertDatabaseWithJob(c)
  <2> DEFINE x == req[c].row
             users == IF req[c].how = "create" THEN {}
                      ELSE IF PG THEN PgDatabaseUsers(x) ELSE MemDatabaseUsers(x)
             ok == PG => \A d \in rows["db"] : d.name # x.name \/ d.acc # x.acc
             new == [Put("db", x) EXCEPT !["dbuser"] = @ \cup users]
  <2>1. Commits(c, "db", {"create", "createWithUser"}) /\ CommitResourceMutation(c, ok, new)
    BY <1>4 DEF UpsertDatabaseWithJob
  <2>2. req[c].how \in {"create", "createWithUser"}  BY <2>1 DEF Commits
  <2>3. ok => StoreAccepts("db", x)  BY DEF StoreAccepts
  <2>4. \/ users = {}
        \/ /\ users = {[id |-> x.id, acc |-> x.acc]} /\ req[c].how = "createWithUser"
           /\ PG => Of(x.acc, "dbuser") = {}
    BY <2>2 DEF PgDatabaseUsers, MemDatabaseUsers
  <2>5. rows' = new => rows' = [Put("db", x) EXCEPT !["dbuser"] = @ \cup users]  OBVIOUS
  <2> HIDE DEF users, ok, new
  <2>6. Ends(c) \/ (ok /\ rows' = new /\ JobsGrow(c) /\ Over(c)
                    /\ UNCHANGED <<backend, disk, authorized, served, faulted>>)
    BY <2>1, CommitForms
  <2>7. ASSUME ok, rows' = new, JobsGrow(c), Over(c), UNCHANGED <<backend, disk, authorized, served, faulted>>
        PROVE  Stores(c, "db", x, users)
    BY <1>0, <1>2, <1>3, <2>2, <2>3, <2>4, <2>5, <2>7 DEF Stores
  <2> QED  BY <1>1, <2>6, <2>7 DEF Leaves
<1>5. CASE DeleteDatabaseWithJob(c)
  <2> DEFINE x == [req[c].row EXCEPT !.status = "terminating"]
  <2>1. Commits(c, "db", {"terminate"}) /\ CommitResourceMutation(c, DatabaseFound(req[c].row), Put("db", x))
    BY <1>5 DEF DeleteDatabaseWithJob
  <2>2. req[c].how = "terminate"  BY <2>1 DEF Commits
  <2>3. x \in HostedDatabase /\ SameRow("db", x, req[c].row) /\ x.id = req[c].row.id
    BY <1>3 DEF HostedDatabase, SameRow
  <2> HIDE DEF x
  <2>4. TypedRow("db", x)  BY <2>3 DEF TypedRow
  <2>5. DatabaseFound(req[c].row) => StoreAccepts("db", x)
    BY <2>3 DEF StoreAccepts, DatabaseFound, ById
  <2>6. Put("db", x) = [Put("db", x) EXCEPT !["dbuser"] = @ \cup {}]  BY <1>0, PutAlone
  <2>7. Ends(c) \/ (DatabaseFound(req[c].row) /\ rows' = Put("db", x) /\ JobsGrow(c) /\ Over(c)
                    /\ UNCHANGED <<backend, disk, authorized, served, faulted>>)
    BY <2>1, CommitForms
  <2>8. ASSUME DatabaseFound(req[c].row), rows' = Put("db", x), JobsGrow(c), Over(c),
               UNCHANGED <<backend, disk, authorized, served, faulted>>
        PROVE  Stores(c, "db", x, {})
    BY <1>0, <1>2, <2>2, <2>3, <2>4, <2>5, <2>6, <2>8 DEF Stores
  <2> QED  BY <1>1, <2>7, <2>8 DEF Leaves
<1> QED  BY <1>4, <1>5

\* The transactions of mail domains, mailboxes and aliases.
LEMMA MailCommits ==
    ASSUME Typed, NEW c \in Clients,
           \/ UpsertMailDomainWithJob(c) \/ UpsertMailboxWithJob(c) \/ UpsertMailAliasWithJob(c)
           \/ DeleteMailboxWithJob(c) \/ DeleteMailAliasWithJob(c)
    PROVE  Leaves(c)
<1>0. {"maildomain", "mailbox", "alias"} \subseteq Named \ {"ssh"}  BY DEF Named, Tables
<1>1. Ends(c) => Leaves(c)  BY DEF Leaves
<1>2. CASE UpsertMailDomainWithJob(c)
  <2>1. Commits(c, "maildomain", {"upsert"}) /\ CommitResourceMutation(c, TRUE, Put("maildomain", req[c].row))
    BY <1>2 DEF UpsertMailDomainWithJob
  <2>2. req[c].how = "upsert"  BY <2>1 DEF Commits
  <2>3. StoreAccepts("maildomain", req[c].row)  BY DEF StoreAccepts
  <2> QED  BY <1>0, <1>1, <2>1, <2>2, <2>3, CommitForms, StoresHeld
<1>3. CASE UpsertMailboxWithJob(c)
  <2> DEFINE ok == IF PG THEN PgUpsertMailbox(req[c].row) ELSE MemUpsertMailbox(req[c].row)
  <2>1. Commits(c, "mailbox", {"upsert"}) /\ CommitResourceMutation(c, ok, Put("mailbox", req[c].row))
    BY <1>3 DEF UpsertMailboxWithJob
  <2>2. req[c].how = "upsert"  BY <2>1 DEF Commits
  <2>3. ok => StoreAccepts("mailbox", req[c].row)  BY DEF StoreAccepts
  <2> HIDE DEF ok
  <2> QED  BY <1>0, <1>1, <2>1, <2>2, <2>3, CommitForms, StoresHeld
<1>4. CASE UpsertMailAliasWithJob(c)
  <2> DEFINE ok == ~PG => MemUpsertMailAlias(req[c].row)
  <2>1. Commits(c, "alias", {"upsert"}) /\ CommitResourceMutation(c, ok, Put("alias", req[c].row))
    BY <1>4 DEF UpsertMailAliasWithJob
  <2>2. req[c].how = "upsert"  BY <2>1 DEF Commits
  <2>3. StoreAccepts("alias", req[c].row)  BY DEF StoreAccepts
  <2> HIDE DEF ok
  <2> QED  BY <1>0, <1>1, <2>1, <2>2, <2>3, CommitForms, StoresHeld
<1>5. CASE DeleteMailboxWithJob(c)
  <2>1. Commits(c, "mailbox", {"delete"})
        /\ CommitResourceMutation(c, MailboxFound(req[c].row), Remove("mailbox", req[c].row))
    BY <1>5 DEF DeleteMailboxWithJob
  <2> QED  BY <1>1, <2>1, CommitForms, DropsHeld
<1>6. CASE DeleteMailAliasWithJob(c)
  <2>1. Commits(c, "alias", {"delete"})
        /\ CommitResourceMutation(c, AliasFound(req[c].row), Remove("alias", req[c].row))
    BY <1>6 DEF DeleteMailAliasWithJob
  <2> QED  BY <1>1, <2>1, CommitForms, DropsHeld
<1> QED  BY <1>2, <1>3, <1>4, <1>5, <1>6

\* The transactions of cron jobs and FTP accounts, and of a job alone.
LEMMA ListsCommit ==
    ASSUME Typed, NEW c \in Clients,
           \/ UpsertCronWithJob(c) \/ DeleteCronWithJob(c) \/ UpsertFTPWithJob(c) \/ DeleteFTPWithJob(c)
           \/ EnqueueJobWithAudit(c)
    PROVE  Leaves(c)
<1>0. {"cron", "ftp"} \subseteq Named \ {"ssh"}  BY DEF Named, Tables
<1>1. Ends(c) => Leaves(c)  BY DEF Leaves
<1>2. CASE UpsertCronWithJob(c)
  <2>1. Commits(c, "cron", {"upsert"}) /\ CommitResourceMutation(c, TRUE, Put("cron", req[c].row))
    BY <1>2 DEF UpsertCronWithJob
  <2>2. req[c].how = "upsert"  BY <2>1 DEF Commits
  <2>3. StoreAccepts("cron", req[c].row)  BY DEF StoreAccepts
  <2> QED  BY <1>0, <1>1, <2>1, <2>2, <2>3, CommitForms, StoresHeld
<1>3. CASE UpsertFTPWithJob(c)
  <2>1. Commits(c, "ftp", {"upsert"})
        /\ CommitResourceMutation(c, FTPNameFree(req[c].row), Put("ftp", req[c].row))
    BY <1>3 DEF UpsertFTPWithJob
  <2>2. req[c].how = "upsert"  BY <2>1 DEF Commits
  <2>3. FTPNameFree(req[c].row) => StoreAccepts("ftp", req[c].row)  BY DEF StoreAccepts
  <2> QED  BY <1>0, <1>1, <2>1, <2>2, <2>3, CommitForms, StoresHeld
<1>4. CASE DeleteCronWithJob(c)
  <2>1. Commits(c, "cron", {"delete"})
        /\ CommitResourceMutation(c, CronFound(req[c].row), Remove("cron", req[c].row))
    BY <1>4 DEF DeleteCronWithJob
  <2> QED  BY <1>1, <2>1, CommitForms, DropsHeld
<1>5. CASE DeleteFTPWithJob(c)
  <2>1. Commits(c, "ftp", {"delete"})
        /\ CommitResourceMutation(c, FTPFound(req[c].row), Remove("ftp", req[c].row))
    BY <1>5 DEF DeleteFTPWithJob
  <2> QED  BY <1>1, <2>1, CommitForms, DropsHeld
<1>6. CASE EnqueueJobWithAudit(c)
  <2>1. Commits(c, "php", {"enqueue"}) /\ CommitResourceMutation(c, TRUE, rows)
    BY <1>6 DEF EnqueueJobWithAudit
  <2>2. req[c] # Idle /\ req[c].step = "commit"  BY <2>1 DEF Commits
  <2>3. Ends(c)  BY <2>1, <2>2, CommitForms DEF Ends
  <2> QED  BY <1>1, <2>3
<1> QED  BY <1>2, <1>3, <1>4, <1>5, <1>6

\* The steps of the handlers that have several.
LEMMA StepsLeave ==
    ASSUME Typed, NEW c \in Clients, PutApp(c) \/ EnqueueRetire(c) \/ PutSSH(c) \/ DropSSH(c)
    PROVE  Leaves(c)
<1>0. /\ "app" \in Named /\ "app" \in Tables /\ "ssh" \in Named /\ "ssh" \in Tables
  BY DEF Named, Tables
<1>1. CASE PutApp(c)
  <2>1. Holds(c, "app") /\ req[c].how = "retire"  BY <1>1 DEF PutApp, Commits, Holds
  <2>2. TypedRow("app", req[c].row) /\ SameRow("app", req[c].row, req[c].row)
    BY <1>0, <2>1, HeldRow DEF SameRow
  <2>3. rows' = [Put("app", req[c].row) EXCEPT !["dbuser"] = @ \cup {}]
    BY <1>0, <1>1, PutAlone DEF PutApp
  <2>4. StoreAccepts("app", req[c].row)  BY DEF StoreAccepts
  <2>5. JobsSame /\ Continue(c, [req[c] EXCEPT !.step = "enqueue"])
        /\ UNCHANGED <<backend, disk, authorized, served, faulted>>
    BY <1>1 DEF PutApp, JobsSame
  <2>6. Stores(c, "app", req[c].row, {})  BY <1>0, <2>1, <2>2, <2>3, <2>4, <2>5 DEF Stores
  <2> QED  BY <2>6 DEF Leaves
<1>2. CASE EnqueueRetire(c)
  <2>1. Ends(c)  BY <1>2 DEF EnqueueRetire, Ends, JobsGrow, JobsSame
  <2> QED  BY <2>1 DEF Leaves
<1>3. CASE PutSSH(c)
  <2>1. /\ Holds(c, "ssh") /\ req[c].how = "put" /\ req[c] # Idle /\ req[c].step = "commit"
        /\ req[c].kind = "ssh"
    BY <1>3 DEF PutSSH, Commits, Holds
  <2>2. JobsSame /\ Continue(c, [req[c] EXCEPT !.step = "list"])
        /\ UNCHANGED <<backend, disk, authorized, served, faulted>>
    BY <1>3 DEF PutSSH, JobsSame
  <2>3. CASE PG /\ \E s \in rows["ssh"] : s.name = req[c].row.name
    <3>1. rows' = rows  BY <1>3, <2>3 DEF PutSSH
    <3>2. Ends(c)  BY <2>1, <2>2, <3>1 DEF Ends
    <3> QED  BY <3>2 DEF Leaves
  <2>4. CASE ~(PG /\ \E s \in rows["ssh"] : s.name = req[c].row.name)
    <3>1. rows' = Put("ssh", req[c].row)  BY <1>3, <2>4 DEF PutSSH
    <3>2. rows' = [Put("ssh", req[c].row) EXCEPT !["dbuser"] = @ \cup {}]  BY <1>0, <3>1, PutAlone
    <3>3. StoreAccepts("ssh", req[c].row)  BY <2>4 DEF StoreAccepts
    <3>4. TypedRow("ssh", req[c].row) /\ SameRow("ssh", req[c].row, req[c].row)
      BY <1>0, <2>1, HeldRow DEF SameRow
    <3>5. Stores(c, "ssh", req[c].row, {})  BY <1>0, <2>1, <2>2, <3>2, <3>3, <3>4 DEF Stores
    <3> QED  BY <3>5 DEF Leaves
  <2> QED  BY <2>3, <2>4
<1>4. CASE DropSSH(c)
  <2>1. Holds(c, "ssh")  BY <1>4 DEF DropSSH, Commits, Holds
  <2>2. Drops(c, "ssh")  BY <1>4, <2>1 DEF DropSSH, Drops, JobsSame
  <2> QED  BY <2>2 DEF Leaves
<1> QED  BY <1>1, <1>2, <1>3, <1>4

\* Every step of the system is of one of the forms.
LEMMA NextForms ==
    ASSUME Typed, Next
    PROVE  \E c \in Clients : Accepts(c) \/ Leaves(c) \/ Fail(c)
<1>1. PICK c \in Clients :
    \/ Domains(c) \/ Websites(c) \/ Apps(c) \/ Databases(c) \/ Mail(c)
    \/ Crons(c) \/ FTP(c) \/ SSH(c) \/ Files(c) \/ Runtime(c) \/ Fail(c)
  BY DEF Next
<1>2. CASE Domains(c)  BY <1>2, DomainsAccept, DomainsCommit DEF Domains
<1>3. CASE Websites(c)  BY <1>3, WebsitesAccept, SitesCommit DEF Websites
<1>4. CASE Apps(c)  BY <1>4, AppsAccept, SitesCommit, StepsLeave DEF Apps
<1>5. CASE Databases(c)  BY <1>5, DatabasesAccept, DatabasesCommit DEF Databases
<1>6. CASE Mail(c)  BY <1>6, MailDomainsAccept, MailboxesAccept, AliasesAccept, MailCommits DEF Mail
<1>7. CASE Crons(c) \/ FTP(c)  BY <1>7, ListsAccept, ListsCommit DEF Crons, FTP
<1>8. CASE SSH(c)  BY <1>8, ListsAccept, StepsLeave DEF SSH, Leaves
<1>9. CASE Files(c) \/ Runtime(c)  BY <1>9, OthersAccept, ListsCommit DEF Files, Runtime, Leaves
<1> QED  BY <1>1, <1>2, <1>3, <1>4, <1>5, <1>6, <1>7, <1>8, <1>9

(***************************************************************************)
(* The start.                                                              *)
(***************************************************************************)

\* The tables at the start.
LEMMA InitRows ==
    ASSUME Init
    PROVE  /\ rows = [k \in Tables |-> rows[k]]
           /\ rows["domain"] = {[id |-> a, acc |-> a, name |-> a, type |-> "primary",
                                 status |-> "active", rev |-> 1] : a \in Accounts}
                               \cup {[id |-> 0, acc |-> AddonOwner, name |-> "addon", type |-> "addon",
                                      status |-> "active", rev |-> 1]}
           /\ rows["website"] = {[id |-> a, acc |-> a, of |-> a, enabled |-> TRUE, rev |-> 1] : a \in Accounts}
                                \cup {[id |-> 0, acc |-> AddonOwner, of |-> 0, enabled |-> TRUE, rev |-> 1]}
           /\ rows["maildomain"] = {[id |-> a, acc |-> a, catchall |-> "reject"] : a \in Accounts}
           /\ rows["mailbox"] = {[id |-> a, acc |-> a, of |-> a, name |-> a] : a \in Accounts}
           /\ rows["alias"] = {[id |-> a, acc |-> a, of |-> a, name |-> "staff", dest |-> a, list |-> TRUE]
                               : a \in Accounts}
           /\ rows["app"] = {[id |-> a, acc |-> a, of |-> a, status |-> "active"] : a \in Accounts}
           /\ rows["cron"] = {[id |-> a, acc |-> a] : a \in Accounts}
           /\ rows["ftp"] = {[id |-> a, acc |-> a, name |-> a] : a \in Accounts}
           /\ rows["ssh"] = {[id |-> a, acc |-> a, name |-> a] : a \in Accounts}
           /\ rows["db"] = {} /\ rows["dbuser"] = {}
BY DEF Init, Tables

\* Every row at the start is typed, has an initial id, and its id is its own.
LEMMA InitRow ==
    ASSUME Init, NEW k \in Tables, NEW x \in rows[k]
    PROVE  /\ TypedRow(k, x)
           /\ x.id = x.acc \/ (x.id = 0 /\ x.acc = AddonOwner)
           /\ k = "domain" /\ x.id # 0 => x.name = x.acc
           /\ k = "domain" /\ x.id = 0 => x.name = "addon"
           /\ k = "website" => x.of = x.id
           /\ k \in {"mailbox", "alias"} => x.of = x.acc /\ x.id = x.acc
           /\ k = "mailbox" => x.name = x.acc
           /\ k = "alias" => x.name = "staff"
           /\ k \in {"domain", "website"} => x.rev = 1
           /\ k # "db" /\ k # "dbuser"
           /\ k \in {"ftp", "ssh"} => x.name = x.acc
           /\ \A y \in rows[k] : x.id = y.id => x = y
<1>0. /\ \A a \in Accounts : a \in Ids /\ a # 0
      /\ 0 \in Ids /\ AddonOwner \in Accounts /\ 1 \in Nat
  BY RequestsAssumption DEF Ids, InitialIds
<1>1. CASE k = "domain"
  <2>1. rows["domain"] \subseteq Domain  BY <1>0, InitRows DEF Domain
  <2> QED  BY <1>0, <1>1, <2>1, InitRows DEF TypedRow
<1>2. CASE k = "website"
  <2> DEFINE Site(i, a) == [id |-> i, acc |-> a, of |-> i, enabled |-> TRUE, rev |-> 1]
  <2>1. \A i, a : Site(i, a).id = i /\ Site(i, a).acc = a /\ Site(i, a).of = i /\ Site(i, a).rev = 1
    OBVIOUS
  <2>2. ASSUME NEW i \in Ids, NEW a \in Accounts  PROVE Site(i, a) \in Website  BY <1>0 DEF Website
  <2>3. rows["website"] = {Site(a, a) : a \in Accounts} \cup {Site(0, AddonOwner)}  BY InitRows
  <2> HIDE DEF Site
  <2> QED  BY <1>0, <1>2, <2>1, <2>2, <2>3 DEF TypedRow
<1>3. CASE k = "maildomain"
  <2>1. rows["maildomain"] \subseteq MailDomain  BY <1>0, InitRows DEF MailDomain
  <2> QED  BY <1>0, <1>3, <2>1, InitRows DEF TypedRow
<1>4. CASE k = "mailbox"
  <2>1. rows["mailbox"] \subseteq Mailbox  BY <1>0, InitRows DEF Mailbox
  <2> QED  BY <1>0, <1>4, <2>1, InitRows DEF TypedRow
<1>5. CASE k = "alias"
  <2> DEFINE List(a) == [id |-> a, acc |-> a, of |-> a, name |-> "staff", dest |-> a, list |-> TRUE]
  <2>1. \A a : List(a).id = a /\ List(a).acc = a /\ List(a).of = a /\ List(a).name = "staff"  OBVIOUS
  <2>2. ASSUME NEW a \in Accounts  PROVE List(a) \in MailAlias  BY <1>0 DEF MailAlias
  <2>3. rows["alias"] = {List(a) : a \in Accounts}  BY InitRows
  <2> HIDE DEF List
  <2> QED  BY <1>0, <1>5, <2>1, <2>2, <2>3 DEF TypedRow
<1>6. CASE k = "app"
  <2>1. rows["app"] \subseteq Application  BY <1>0, InitRows DEF Application
  <2> QED  BY <1>0, <1>6, <2>1, InitRows DEF TypedRow
<1>7. CASE k = "cron"
  <2>1. rows["cron"] \subseteq CronJob  BY <1>0, InitRows DEF CronJob
  <2> QED  BY <1>0, <1>7, <2>1, InitRows DEF TypedRow
<1>8. CASE k \in {"ftp", "ssh"}
  <2>1. rows[k] \subseteq FTPAccount  BY <1>0, <1>8, InitRows DEF FTPAccount
  <2> QED  BY <1>0, <1>8, <2>1, InitRows DEF TypedRow
<1>9. k \notin {"db", "dbuser"}  BY InitRows
<1> QED  BY <1>1, <1>2, <1>3, <1>4, <1>5, <1>6, <1>7, <1>8, <1>9 DEF Tables

\* The first layers hold at the start.
LEMMA InitBase ==
    ASSUME Init
    PROVE  Base /\ ChecksHold /\ Whole
<1>1. \A c \in Clients : req[c] = Idle  BY DEF Init
<1>2. rows \in [Tables -> SUBSET Row]
  <2>1. \A k \in Tables : rows[k] \in SUBSET Row  BY InitRow, TypedRowIsRow
  <2> QED  BY <2>1, InitRows
<1>3. Typed
  <2>1. \A c \in Clients : TypedRequest(c)  BY <1>1 DEF TypedRequest
  <2>2. req \in [Clients -> Request \cup {Idle}]  BY DEF Init
  <2>3. authorized \in [Accounts -> SUBSET (Names \cup Accounts)]  BY DEF Init
  <2>4. disk \in [Accounts -> Nat] /\ served \in 0 .. MaxRequests  BY RequestsAssumption DEF Init
  <2>5. backend \in {"pg", "memory"} /\ raced \in BOOLEAN /\ faulted \in BOOLEAN  BY DEF Init
  <2> QED  BY <1>2, <2>1, <2>2, <2>3, <2>4, <2>5, InitRow DEF Typed
<1>4. UniqueIds  BY InitRow DEF UniqueIds
<1>5. IdsStand
  <2>1. \A k \in Named : \A x : Version(k, x) => x \in rows[k]  BY <1>1 DEF Version, Holds
  <2>2. ASSUME NEW k \in Named, NEW x, NEW y, Version(k, x), Version(k, y), x.id = y.id
        PROVE  SameRow(k, x, y)
    <3>1. x = y  BY <2>1, <2>2, InitRow DEF Named
    <3> QED  BY <3>1 DEF SameRow
  <2>3. ASSUME NEW k \in Named, NEW x, Version(k, x)  PROVE Taken(x.id)
    <3>1. x \in rows[k] /\ k \in Tables  BY <2>1, <2>3 DEF Named
    <3>2. TypedRow(k, x)  BY <3>1, InitRow
    <3>3. x.acc \in Accounts  BY <3>1, <3>2, TypedRowIsRow, RowFields
    <3> QED  BY <3>1, <3>3, InitRow DEF Taken, InitialIds
  <2> QED  BY <2>2, <2>3, InitRows DEF IdsStand
<1>6. ChecksHold  BY <1>1 DEF ChecksHold
<1>7. Whole
  <2>1. OneJobPerKey /\ jobs = {} /\ audits = {}  BY DEF Init, OneJobPerKey
  <2>2. ASSUME NEW k \in Tables, NEW x \in rows[k]  PROVE RowHasJob(k, x)
    <3>1. TypedRow(k, x)  BY InitRow
    <3>2. x.id \in InitialIds
      <4>1. x.acc \in Accounts  BY <3>1, TypedRowIsRow, RowFields
      <4> QED  BY <4>1, InitRow DEF InitialIds
    <3>3. k \in {"domain", "website"} => ~(x.rev > 1)  BY InitRow
    <3>4. k # "db"  BY InitRow
    <3> QED  BY <3>2, <3>3, <3>4 DEF RowHasJob
  <2>3. audits = {j.n : j \in jobs}  BY <2>1
  <2>4. ChangeHasJob  BY <2>2, <2>3, ChangeHasJobByRow
  <2>5. RetiredHasJob  BY <1>1 DEF RetiredHasJob, Holds
  <2> QED  BY <2>1, <2>4, <2>5 DEF Whole, RequestCommitsWhole
<1> QED  BY <1>3, <1>4, <1>5, <1>6, <1>7 DEF Base

(***************************************************************************)
(* The theorems that rest on the first layers.                             *)
(***************************************************************************)

\* Types and ids, checks and requests.
CoreInv == Base /\ ChecksHold /\ Whole

\* Every step keeps types and ids.
LEMMA BaseOn ==
    ASSUME Base, NEW c \in Clients, Accepts(c) \/ Leaves(c) \/ Fail(c)
    PROVE  Base'
<1>1. ASSUME NEW k, NEW x, NEW users, Stores(c, k, x, users)  PROVE Base'  BY <1>1, StoresBase
<1> QED  BY <1>1, OthersBase, AcceptsBase DEF Leaves

\* The core is inductive.
LEMMA CoreOn ==
    ASSUME CoreInv, [Next]_vars
    PROVE  CoreInv'
<1>1. CASE Next
  <2>1. PICK c \in Clients : Accepts(c) \/ Leaves(c) \/ Fail(c)  BY <1>1, NextForms DEF CoreInv, Base
  <2>2. Base'  BY <2>1, BaseOn DEF CoreInv
  <2>3. ChecksHold'  BY <2>1, ChecksOn DEF CoreInv, Base
  <2>4. Whole'  BY <2>1, WholeOn DEF CoreInv
  <2> QED  BY <2>2, <2>3, <2>4 DEF CoreInv
<1>2. CASE UNCHANGED vars
  <2>1. UNCHANGED <<backend, rows, jobs, audits, disk, authorized, req, served, raced, faulted>>
    BY <1>2 DEF vars
  <2>2. \A k, x : (Version(k, x)' <=> Version(k, x)) /\ (RowHasJob(k, x)' <=> RowHasJob(k, x))
    BY <2>1 DEF Version, Holds, RowHasJob, InitialIds
  <2>3. \A i : Taken(i)' <=> Taken(i)  BY <2>1 DEF Taken
  <2>4. Typed'
    <3>1. \A c \in Clients, k \in Tables : Holds(c, k)' <=> Holds(c, k)  BY <2>1 DEF Holds
    <3>2. \A c \in Clients : TypedRequest(c)'
      BY <2>1, <3>1 DEF CoreInv, Base, Typed, TypedRequest, TypedRow, Domain, Website, Application,
             HostedDatabase, MailDomain, Mailbox, MailAlias, CronJob, FTPAccount
    <3> QED  BY <2>1, <3>2 DEF CoreInv, Base, Typed, TypedRow, Domain, Website, Application,
             HostedDatabase, MailDomain, Mailbox, MailAlias, CronJob, FTPAccount
  <2>5. IdsStand'  BY <2>1, <2>2, <2>3 DEF CoreInv, Base, IdsStand, SameRow
  <2>6. UniqueIds'  BY <2>1 DEF CoreInv, Base, UniqueIds
  <2>7. ChecksHold'
    <3>1. \A a, k, how, x : Checked(a, k, how, x) => Checked(a, k, how, x)'  BY <2>1, SameChecks
    <3>2. ASSUME NEW c \in Clients, req'[c] # Idle, req'[c].step = "commit", ~req'[c].stale
          PROVE  Checked(req[c].acc, req[c].kind, req[c].how, req[c].row)'
      <4>1. Checked(req[c].acc, req[c].kind, req[c].how, req[c].row)  BY <2>1, <3>2 DEF CoreInv, ChecksHold
      <4>2. PICK r : r = req[c]  OBVIOUS
      <4>3. Checked(r.acc, r.kind, r.how, r.row)'  BY <3>1, <4>1, <4>2
      <4> QED  BY <2>1, <4>2, <4>3
    <3> QED  BY <3>2 DEF ChecksHold
  <2>8. Whole'
    BY <2>1 DEF CoreInv, Whole, RequestCommitsWhole, OneJobPerKey, ChangeHasJob, RetiredHasJob, Holds, InitialIds
  <2> QED  BY <2>4, <2>5, <2>6, <2>7, <2>8 DEF CoreInv, Base
<1> QED  BY <1>1, <1>2

\* The core: an id stands for one row of one account wherever the handlers and
\* the store have a version of it, and what a handler checked (api.go) is true
\* until another request changes something.
THEOREM CoreHolds == Spec => []CoreInv
<1>1. Init => CoreInv  BY InitBase DEF CoreInv
<1>2. CoreInv /\ [Next]_vars => CoreInv'  BY CoreOn
<1> QED  BY <1>1, <1>2, PTL DEF Spec

\* commitResourceMutation and its form in memory (resource_atomic.go) commit a
\* request as a whole and once: every new row has its job and its audit event,
\* and requests with one Idempotency-Key leave one job.
THEOREM RequestsWhole == Spec => []RequestCommitsWhole
<1>1. CoreInv => RequestCommitsWhole  BY DEF CoreInv, Whole
<1> QED  BY <1>1, CoreHolds, PTL

\* What the step may change, as in OwnAccountOnly.
OwnStep ==
    \A k \in Tables : \A x \in (rows[k] \ rows'[k]) \cup (rows'[k] \ rows[k]) :
        \E c \in Clients : req[c] # Idle /\ req[c].acc = x.acc /\ x.acc \in Access[c]

\* A step changes rows of the account of its request.
LEMMA NextOwn ==
    ASSUME Base, Next
    PROVE  OwnStep
<1>0. Typed /\ IdsStand  BY DEF Base
<1>1. PICK c \in Clients : Accepts(c) \/ Leaves(c) \/ Fail(c)  BY <1>0, NextForms
<1>2. ASSUME NEW k, NEW x, NEW users, Stores(c, k, x, users)  PROVE OwnStep
  <2>1. /\ k \in Tables /\ k # "dbuser" /\ k \in Named
        /\ rows'[k] = {y \in rows[k] : y.id # x.id} \cup {x}
        /\ rows'["dbuser"] = rows["dbuser"] \cup users
        /\ \A t \in Tables \ {k, "dbuser"} : rows'[t] = rows[t]
    BY <1>0, <1>2, StoresRows DEF Stores
  <2>2. Holds(c, k) /\ SameRow(k, x, req[c].row)  BY <1>2 DEF Stores
  <2>3. /\ Version(k, req[c].row) /\ req[c] # Idle /\ req[c].row.acc = req[c].acc /\ req[c].acc \in Access[c]
    BY <1>0, <2>1, <2>2, HeldRow
  <2>4. x.id = req[c].row.id /\ x.acc = req[c].acc  BY <2>2, <2>3 DEF SameRow
  <2>5. \A u \in users : u.acc = x.acc  BY <1>2 DEF Stores
  <2>6. ASSUME NEW t \in Tables, NEW y \in (rows[t] \ rows'[t]) \cup (rows'[t] \ rows[t])
        PROVE  y.acc = x.acc
    <3>1. CASE t = k
      <4>1. y = x \/ (y \in rows[k] /\ y.id = x.id)  BY <2>1, <2>6, <3>1
      <4>2. y \in rows[k] /\ y.id = x.id => SameRow(k, y, req[c].row)
        BY <1>0, <2>1, <2>3, <2>4 DEF IdsStand, Version
      <4> QED  BY <2>3, <2>4, <4>1, <4>2 DEF SameRow
    <3>2. CASE t = "dbuser"  BY <2>1, <2>5, <2>6, <3>2
    <3>3. CASE t \notin {k, "dbuser"}  BY <2>1, <2>6, <3>3
    <3> QED  BY <3>1, <3>2, <3>3
  <2> QED  BY <2>3, <2>4, <2>6 DEF OwnStep
<1>3. ASSUME NEW k, Drops(c, k)  PROVE OwnStep
  <2>1. /\ k \in Tables /\ k \in Named
        /\ rows'[k] = {y \in rows[k] : y.id # req[c].row.id}
        /\ \A t \in Tables \ {k} : rows'[t] = rows[t]
    BY <1>0, <1>3, DropsRows DEF Named
  <2>2. Holds(c, k)  BY <1>3 DEF Drops
  <2>3. /\ Version(k, req[c].row) /\ req[c] # Idle /\ req[c].row.acc = req[c].acc /\ req[c].acc \in Access[c]
    BY <1>0, <2>1, <2>2, HeldRow
  <2>4. ASSUME NEW t \in Tables, NEW y \in (rows[t] \ rows'[t]) \cup (rows'[t] \ rows[t])
        PROVE  y.acc = req[c].acc
    <3>1. t = k /\ y \in rows[k] /\ y.id = req[c].row.id  BY <2>1, <2>4
    <3>2. SameRow(k, y, req[c].row)  BY <1>0, <2>1, <2>3, <3>1 DEF IdsStand, Version
    <3> QED  BY <2>3, <3>2 DEF SameRow
  <2> QED  BY <2>3, <2>4 DEF OwnStep
<1>4. CASE rows' = rows  BY <1>4 DEF OwnStep
<1> QED  BY <1>1, <1>2, <1>3, <1>4 DEF Leaves, Ends, ListSSH, ApplyAuthorizedKeys, StoreFile, Fail,
                                       Accepts, Accept

\* A step only changes rows of the account its request is for, and its user may
\* act on that account: the ids in a request never lead to the rows of another.
THEOREM OwnAccount == Spec => OwnAccountOnly
<1>1. CoreInv /\ [Next]_vars => [OwnStep]_rows
  <2>1. CoreInv /\ Next => OwnStep  BY NextOwn DEF CoreInv
  <2>2. UNCHANGED vars => rows' = rows  BY DEF vars
  <2> QED  BY <2>1, <2>2
<1> QED  BY <1>1, CoreHolds, PTL DEF Spec, OwnAccountOnly, OwnStep

(***************************************************************************)
(* Layer 4: the rows keep apart what handlers and store keep apart.        *)
(***************************************************************************)

\* What a step that puts a row does to one table.
LEMMA StoredIn ==
    ASSUME Base, NEW c \in Clients, NEW k, NEW x, NEW users, Stores(c, k, x, users), NEW t \in Named
    PROVE  /\ t = k => rows'[t] = {y \in rows[t] : y.id # x.id} \cup {x}
           /\ t # k => rows'[t] = rows[t]
           /\ \A y \in rows[t] : t = k /\ y.id = x.id => SameRow(t, y, x)
<1>0. Typed /\ IdsStand  BY DEF Base
<1>1. t \in Tables /\ t # "dbuser"  BY DEF Named
<1>2. /\ k \in Tables
      /\ rows'[k] = {y \in rows[k] : y.id # x.id} \cup {x}
      /\ \A e \in Tables \ {k, "dbuser"} : rows'[e] = rows[e]
  BY <1>0, StoresRows
<1>3. ASSUME NEW y \in rows[t], t = k, y.id = x.id  PROVE SameRow(t, y, x)
  <2>1. Holds(c, t) /\ SameRow(t, x, req[c].row)  BY <1>3 DEF Stores
  <2>2. Version(t, req[c].row) /\ Version(t, y)  BY <1>0, <1>1, <2>1, HeldRow DEF Version
  <2>3. y.id = req[c].row.id  BY <1>3, <2>1 DEF SameRow
  <2>4. SameRow(t, y, req[c].row)  BY <1>0, <2>2, <2>3 DEF IdsStand
  <2> QED  BY <2>1, <2>4, SameRowSymmetric, SameRowTransitive
<1> QED  BY <1>1, <1>2, <1>3

\* A put keeps the names apart that the indexes of PostgreSQL keep apart.
LEMMA StoresNames ==
    ASSUME Base, NamesUnique, NEW c \in Clients, NEW k, NEW x, NEW users, Stores(c, k, x, users)
    PROVE  NamesUnique'
<1>0. {"domain", "ftp", "ssh", "mailbox", "db"} \subseteq Named  BY DEF Named, Tables
<1>1. SUFFICES ASSUME backend' = "pg" PROVE
        /\ \A t \in {"domain", "ftp", "ssh"} : \A y, z \in rows'[t] : y.name = z.name => y = z
        /\ \A y, z \in rows'["mailbox"] : y.of = z.of /\ y.name = z.name => y = z
        /\ \A y, z \in rows'["db"] : y.acc = z.acc /\ y.name = z.name => y = z
        /\ \A y, z \in rows'["dbuser"] : y.acc = z.acc => y = z
  BY DEF NamesUnique
<1>2. backend = "pg" /\ PG  BY <1>1 DEF Stores, PG
<1>3. StoreAccepts(k, x)  BY DEF Stores
<1>4. /\ \A t \in {"domain", "ftp", "ssh"} : \A y, z \in rows[t] : y.name = z.name => y = z
      /\ \A y, z \in rows["mailbox"] : y.of = z.of /\ y.name = z.name => y = z
      /\ \A y, z \in rows["db"] : y.acc = z.acc /\ y.name = z.name => y = z
      /\ \A y, z \in rows["dbuser"] : y.acc = z.acc => y = z
  BY <1>2 DEF NamesUnique
<1>5. ASSUME NEW t \in {"domain", "ftp", "ssh"}, t = k, NEW z \in rows[t], z.id # x.id, z.name = x.name
      PROVE  FALSE
  <2>1. CASE t = "domain"
    <3>1. PICK d \in rows["domain"] : d.id = x.id  BY <1>2, <1>3, <1>5, <2>1 DEF StoreAccepts
    <3>2. SameRow("domain", d, x)  BY <1>0, <1>5, <2>1, <3>1, StoredIn
    <3>3. d.name = z.name  BY <1>5, <3>2 DEF SameRow
    <3> QED  BY <1>4, <1>5, <2>1, <3>1, <3>3
  <2>2. CASE t = "ftp"  BY <1>3, <1>5, <2>2 DEF StoreAccepts, FTPNameFree
  <2>3. CASE t = "ssh"  BY <1>2, <1>3, <1>5, <2>3 DEF StoreAccepts
  <2> QED  BY <1>5, <2>1, <2>2, <2>3
<1>6. ASSUME NEW t \in {"domain", "ftp", "ssh"}, NEW y \in rows'[t], NEW z \in rows'[t], y.name = z.name
      PROVE  y = z
  <2>1. t \in Named  BY <1>0
  <2>2. CASE t # k
    <3>1. rows'[t] = rows[t]  BY <2>1, <2>2, StoredIn
    <3> QED  BY <1>4, <1>6, <3>1
  <2>3. CASE t = k
    <3>1. rows'[t] = {v \in rows[t] : v.id # x.id} \cup {x}  BY <2>1, <2>3, StoredIn
    <3> QED  BY <1>4, <1>5, <1>6, <2>3, <3>1
  <2> QED  BY <2>2, <2>3
<1>7. ASSUME NEW y \in rows'["mailbox"], NEW z \in rows'["mailbox"], y.of = z.of, y.name = z.name
      PROVE  y = z
  <2>1. CASE k # "mailbox"
    <3>1. rows'["mailbox"] = rows["mailbox"]  BY <1>0, <2>1, StoredIn
    <3> QED  BY <1>4, <1>7, <3>1
  <2>2. CASE k = "mailbox"
    <3>1. rows'["mailbox"] = {v \in rows["mailbox"] : v.id # x.id} \cup {x}  BY <1>0, <2>2, StoredIn
    <3>2. \A b \in rows["mailbox"] : b.of = x.of /\ b.name = x.name => b.id = x.id
      BY <1>2, <1>3, <2>2 DEF StoreAccepts, PgUpsertMailbox
    <3> QED  BY <1>4, <1>7, <3>1, <3>2
  <2> QED  BY <2>1, <2>2
<1>8. ASSUME NEW y \in rows'["db"], NEW z \in rows'["db"], y.acc = z.acc, y.name = z.name
      PROVE  y = z
  <2>1. CASE k # "db"
    <3>1. rows'["db"] = rows["db"]  BY <1>0, <2>1, StoredIn
    <3> QED  BY <1>4, <1>8, <3>1
  <2>2. CASE k = "db"
    <3>1. rows'["db"] = {v \in rows["db"] : v.id # x.id} \cup {x}  BY <1>0, <2>2, StoredIn
    <3>2. ASSUME NEW d \in rows["db"], d.acc = x.acc, d.name = x.name, d.id # x.id  PROVE FALSE
      <4>1. PICK e \in rows["db"] : e.id = x.id  BY <1>2, <1>3, <2>2, <3>2 DEF StoreAccepts
      <4>2. SameRow("db", e, x)  BY <1>0, <2>2, <4>1, StoredIn
      <4>3. e.name = d.name /\ e.acc = d.acc  BY <3>2, <4>2 DEF SameRow
      <4> QED  BY <1>4, <3>2, <4>1, <4>3
    <3> QED  BY <1>4, <1>8, <3>1, <3>2
  <2> QED  BY <2>1, <2>2
<1>9. ASSUME NEW y \in rows'["dbuser"], NEW z \in rows'["dbuser"], y.acc = z.acc
      PROVE  y = z
  <2>1. rows'["dbuser"] = rows["dbuser"] \cup users  BY StoresRows DEF Base
  <2>2. users = {} \/ (users = {[id |-> x.id, acc |-> x.acc]} /\ Of(x.acc, "dbuser") = {})
    BY <1>2 DEF Stores
  <2>3. CASE users = {}  BY <1>4, <1>9, <2>1, <2>3
  <2>4. CASE users = {[id |-> x.id, acc |-> x.acc]} /\ Of(x.acc, "dbuser") = {}
    <3>1. \A u \in rows["dbuser"] : u.acc # x.acc  BY <2>4 DEF Of
    <3>2. \A u \in users : u.acc = x.acc /\ u = [id |-> x.id, acc |-> x.acc]  BY <2>4
    <3> QED  BY <1>4, <1>9, <2>1, <3>1, <3>2
  <2> QED  BY <2>2, <2>3, <2>4
<1> QED  BY <1>6, <1>7, <1>8, <1>9

\* Domains and mail domains stay, with their account.
LEMMA StoresKeepsOwners ==
    ASSUME Base, NEW c \in Clients, NEW k, NEW x, NEW users, Stores(c, k, x, users), NEW t \in Named,
           NEW d \in rows[t]
    PROVE  \E e \in rows'[t] : e.id = d.id /\ e.acc = d.acc
<1>1. CASE t # k \/ d.id # x.id
  <2>1. d \in rows'[t]  BY <1>1, StoredIn
  <2> QED  BY <2>1
<1>2. CASE t = k /\ d.id = x.id
  <2>1. SameRow(t, d, x) /\ x \in rows'[t]  BY <1>2, StoredIn
  <2> QED  BY <2>1 DEF SameRow
<1> QED  BY <1>1, <1>2

\* A put keeps every site on a domain of its account.
LEMMA StoresSites ==
    ASSUME Base, SiteOnOwnDomain, NEW c \in Clients, NEW k, NEW x, NEW users, Stores(c, k, x, users)
    PROVE  SiteOnOwnDomain'
<1>0. "website" \in Named /\ "domain" \in Named  BY DEF Named, Tables
<1>1. ASSUME NEW w \in rows'["website"]
      PROVE  \E d \in rows'["domain"] : d.id = w.of /\ d.acc = w.acc
  <2>1. w \in rows["website"] \/ (k = "website" /\ w = x)  BY <1>0, <1>1, StoredIn
  <2>2. PICK d \in rows["domain"] : d.id = w.of /\ d.acc = w.acc
    BY <2>1 DEF SiteOnOwnDomain, Stores, StoreAccepts
  <2> QED  BY <1>0, <2>2, StoresKeepsOwners
<1> QED  BY <1>1 DEF SiteOnOwnDomain

\* Whatever holds a mailbox or an alias after the step, held a version before.
LEMMA LeavesVersions ==
    ASSUME Base, NEW c \in Clients, Leaves(c) \/ Fail(c), NEW t \in Named, NEW y, Version(t, y)'
    PROVE  \E v : Version(t, v) /\ SameRow(t, y, v)
<1>0. Typed /\ IdsStand  BY DEF Base
<1>1. MovedOn(c) /\ t \in Tables  BY <1>0, AllMoveOn DEF Named
<1>2. CASE Version(t, y)  BY <1>2 DEF SameRow
<1>3. CASE \E d \in Clients : Holds(d, t)' /\ req'[d].row = y
  <2>1. \E d \in Clients : Holds(d, t) /\ req[d].row = y  BY <1>1, <1>3, HoldsAfter
  <2> QED  BY <1>2, <2>1 DEF Version
<1>4. CASE y \in rows'[t]
  <2>1. ASSUME NEW k, NEW x, NEW users, Stores(c, k, x, users)
        PROVE  \E v : Version(t, v) /\ SameRow(t, y, v)
    <3>1. y \in rows[t] \/ (t = k /\ y = x)  BY <1>4, <2>1, StoredIn
    <3>2. CASE y \in rows[t]  BY <1>2, <3>2 DEF Version
    <3>3. CASE t = k /\ y = x
      <4>1. Holds(c, t) /\ SameRow(t, y, req[c].row)  BY <2>1, <3>3 DEF Stores
      <4> QED  BY <4>1 DEF Version
    <3> QED  BY <3>1, <3>2, <3>3
  <2>2. ASSUME NEW k, Drops(c, k)  PROVE y \in rows[t]
    BY <1>0, <1>1, <1>4, <2>2, DropsRows
  <2>3. y \in rows[t] => Version(t, y)  BY DEF Version
  <2>4. CASE rows' = rows  BY <1>2, <1>4, <2>3, <2>4
  <2> QED  BY <1>2, <2>1, <2>2, <2>3, <2>4 DEF Leaves, Ends, ListSSH, ApplyAuthorizedKeys, StoreFile, Fail
<1> QED  BY <1>3, <1>4 DEF Version

\* Mail domains are never taken away.
LEMMA LeavesMailDomains ==
    ASSUME Base, NEW c \in Clients, Accepts(c) \/ Leaves(c) \/ Fail(c), NEW d \in rows["maildomain"]
    PROVE  \E e \in rows'["maildomain"] : e.id = d.id /\ e.acc = d.acc
<1>0. "maildomain" \in Named /\ "maildomain" \in Tables  BY DEF Named, Tables
<1>1. ASSUME NEW k, NEW x, NEW users, Stores(c, k, x, users)
      PROVE  \E e \in rows'["maildomain"] : e.id = d.id /\ e.acc = d.acc
  BY <1>0, <1>1, StoresKeepsOwners
<1>2. ASSUME NEW k, Drops(c, k)  PROVE rows'["maildomain"] = rows["maildomain"]
  <2>1. k # "maildomain"  BY <1>2 DEF Drops
  <2> QED  BY <1>0, <1>2, <2>1, DropsRows DEF Base
<1>3. CASE rows'["maildomain"] = rows["maildomain"]  BY <1>3
<1> QED  BY <1>1, <1>2, <1>3 DEF Leaves, Ends, ListSSH, ApplyAuthorizedKeys, StoreFile, Fail, Accepts, Accept

\* Mailboxes and aliases stay with a mail domain of their account: none is ever removed.
LEMMA MailOwnedOn ==
    ASSUME Base, MailOwned, NEW c \in Clients, Accepts(c) \/ Leaves(c) \/ Fail(c)
    PROVE  MailOwned'
<1>0. {"mailbox", "alias"} \subseteq Named  BY DEF Named, Tables
<1>1. ASSUME NEW t \in {"mailbox", "alias"}, NEW y, Version(t, y)'
      PROVE  \E md \in rows'["maildomain"] : md.id = y.of /\ md.acc = y.acc
  <2>1. PICK md \in rows["maildomain"] : md.id = y.of /\ md.acc = y.acc
    <3>1. ASSUME NEW v, Version(t, v), SameRow(t, y, v)
          PROVE  \E md \in rows["maildomain"] : md.id = y.of /\ md.acc = y.acc
      <4>1. y.of = v.of /\ y.acc = v.acc  BY <1>1, <3>1 DEF SameRow
      <4> QED  BY <1>1, <3>1, <4>1 DEF MailOwned
    <3>2. CASE Leaves(c) \/ Fail(c)  BY <1>0, <1>1, <3>1, <3>2, LeavesVersions
    <3>3. CASE Accepts(c)
      <4>1. PICK a, k, how, x : \E key \in Keys \cup {NoKey} : Passed(a, k, how, x) /\ Accept(c, a, k, how, x, key)
        BY <3>3 DEF Accepts
      <4>2. /\ req'[c].kind = k /\ req'[c].row = x /\ rows' = rows
            /\ \A e \in Clients \ {c} : req'[e] = req[e]
        BY <4>1, AcceptedRequest DEF Base
      <4>3. Version(t, y) \/ (t = k /\ y = x)  BY <1>1, <4>2 DEF Version, Holds
      <4>4. CASE Version(t, y)  BY <3>1, <4>4 DEF SameRow
      <4>5. CASE t = k /\ y = x
        <5>1. y.acc = a
              /\ ((\E z \in rows[t] : SameRow(t, z, y)) \/ \E md \in rows["maildomain"] : md.id = y.of /\ md.acc = a)
          BY <1>0, <1>1, <4>1, <4>5 DEF Passed
        <5>2. CASE \E z \in rows[t] : SameRow(t, z, y)
          <6>1. PICK z \in rows[t] : SameRow(t, z, y)  BY <5>2
          <6>2. Version(t, z) /\ SameRow(t, y, z)  BY <6>1, SameRowSymmetric DEF Version
          <6> QED  BY <3>1, <6>2
        <5> QED  BY <5>1, <5>2
      <4> QED  BY <4>3, <4>4, <4>5
    <3> QED  BY <3>2, <3>3
  <2>2. PICK e \in rows'["maildomain"] : e.id = md.id /\ e.acc = md.acc  BY LeavesMailDomains
  <2> QED  BY <2>1, <2>2
<1> QED  BY <1>1 DEF MailOwned

\* A row that is put without a race is a version of one in the table, or its
\* checks still hold.
LEMMA StoresChecked ==
    ASSUME Base, ChecksHold, NEW c \in Clients, NEW k, NEW x, NEW users, Stores(c, k, x, users), ~raced'
    PROVE  /\ ~raced /\ x.acc = req[c].acc
           /\ (\E y \in rows[k] : SameRow(k, y, x)) \/ NewChecked(x.acc, k, x)
           /\ req[c].how = "createWithUser" => Of(x.acc, "dbuser") = {} /\ EnforceCountLimit(x.acc, "dbuser")
<1>0. Typed  BY DEF Base
<1>1. Holds(c, k) /\ SameRow(k, x, req[c].row) /\ k \in Named /\ k \in Tables  BY DEF Stores, Named
<1>2. ~raced /\ ~req[c].stale  BY DEF Stores, Over, Continue
<1>3. Checked(req[c].acc, req[c].kind, req[c].how, req[c].row) /\ req[c].kind = k
  BY <1>1, <1>2 DEF ChecksHold, Holds
<1>4. req[c].row.acc = req[c].acc  BY <1>0, <1>1, HeldRow
<1>5. x.acc = req[c].acc  BY <1>1, <1>4 DEF SameRow
<1>6. CASE \E y \in rows[k] : SameRow(k, y, req[c].row)
  <2>1. PICK y \in rows[k] : SameRow(k, y, req[c].row)  BY <1>6
  <2>2. SameRow(k, y, x)  BY <1>1, <2>1, SameRowSymmetric, SameRowTransitive
  <2> QED  BY <1>2, <1>3, <1>5, <2>2 DEF Checked
<1>7. CASE NewChecked(req[c].acc, k, req[c].row)
  <2>1. NewChecked(x.acc, k, x)  BY <1>1, <1>5, <1>7 DEF NewChecked, SameRow
  <2> QED  BY <1>2, <1>3, <1>5, <2>1 DEF Checked
<1> QED  BY <1>1, <1>3, <1>6, <1>7 DEF Checked

\* The mail domain of a mailbox or an alias gives its account.
LEMMA MailAccount ==
    ASSUME Base, MailOwned, NEW t \in {"mailbox", "alias"}, NEW u \in {"mailbox", "alias"}, NEW y, NEW z,
           Version(t, y), Version(u, z), y.of = z.of
    PROVE  y.acc = z.acc
<1>1. PICK m \in rows["maildomain"] : m.id = y.of /\ m.acc = y.acc  BY DEF MailOwned
<1>2. PICK n \in rows["maildomain"] : n.id = z.of /\ n.acc = z.acc  BY DEF MailOwned
<1>3. m = n  BY <1>1, <1>2 DEF Base, UniqueIds, Tables
<1> QED  BY <1>1, <1>2, <1>3

\* A put while none has overlapped keeps apart what the handlers keep apart.
LEMMA StoresApart ==
    ASSUME Base, ChecksHold, SiteOnOwnDomain, MailOwned, SerialRowsApart,
           NEW c \in Clients, NEW k, NEW x, NEW users, Stores(c, k, x, users)
    PROVE  SerialRowsApart'
<1>0. {"website", "alias", "mailbox", "domain"} \subseteq Named
      /\ {"website", "alias", "mailbox", "domain"} \subseteq Tables
  BY DEF Named, Tables
<1>1. SUFFICES ASSUME ~raced' PROVE
        /\ \A y, z \in rows'["alias"] : y.of = z.of /\ y.name = z.name => y = z
        /\ \A y \in rows'["alias"], b \in rows'["mailbox"] : ~(y.of = b.of /\ y.name = b.name)
        /\ \A v, w \in rows'["website"] : v.of = w.of => v = w
  BY DEF SerialRowsApart
<1>2. ~raced /\ ((\E y \in rows[k] : SameRow(k, y, x)) \/ NewChecked(x.acc, k, x))
  BY <1>1, StoresChecked
<1>3. /\ \A y, z \in rows["alias"] : y.of = z.of /\ y.name = z.name => y = z
      /\ \A y \in rows["alias"], b \in rows["mailbox"] : ~(y.of = b.of /\ y.name = b.name)
      /\ \A v, w \in rows["website"] : v.of = w.of => v = w
  BY <1>2 DEF SerialRowsApart
<1>4. Holds(c, k) /\ SameRow(k, x, req[c].row) /\ k \in Named  BY DEF Stores
<1>5. Version(k, req[c].row)  BY <1>4, HeldRow DEF Named, Base
\* a row of the table with the address of x
<1>6. ASSUME k \in {"mailbox", "alias"}, NEW t \in {"mailbox", "alias"}, NEW z \in rows[t],
             z.of = x.of, z.name = x.name, t # k \/ z.id # x.id, t = "alias" \/ k = "alias"
      PROVE  FALSE
  <2>1. CASE \E y \in rows[k] : SameRow(k, y, x)
    <3>1. PICK y \in rows[k] : SameRow(k, y, x)  BY <2>1
    <3>2. y.of = z.of /\ y.name = z.name /\ y.id = x.id  BY <1>6, <3>1 DEF SameRow
    <3>3. CASE t # k  BY <1>3, <1>6, <3>1, <3>2, <3>3
    <3>4. CASE t = k /\ k = "alias"  BY <1>3, <1>6, <3>1, <3>2, <3>4
    <3> QED  BY <1>6, <3>3, <3>4
  <2>2. CASE NewChecked(x.acc, k, x)
    <3>1. LocalPartFree(x.acc, x.of, x.name)  BY <1>6, <2>2 DEF NewChecked
    <3>2. req[c].row.of = x.of /\ req[c].row.acc = x.acc  BY <1>4, <1>6 DEF SameRow
    <3>3. z.acc = req[c].row.acc
      <4>1. Version(t, z)  BY <1>6 DEF Version
      <4> QED  BY <1>5, <1>6, <3>2, <4>1, MailAccount
    <3>4. z \in Of(x.acc, t)  BY <1>6, <3>2, <3>3 DEF Of
    <3> QED  BY <1>6, <3>1, <3>4 DEF LocalPartFree
  <2> QED  BY <1>2, <2>1, <2>2
<1>7. ASSUME k = "website", NEW z \in rows["website"], z.of = x.of, z.id # x.id
      PROVE  FALSE
  <2>1. CASE \E y \in rows[k] : SameRow(k, y, x)
    <3>1. PICK y \in rows["website"] : SameRow("website", y, x)  BY <1>7, <2>1
    <3>2. y.of = z.of /\ y.id = x.id  BY <1>7, <3>1 DEF SameRow
    <3> QED  BY <1>3, <1>7, <3>1, <3>2
  <2>2. CASE NewChecked(x.acc, k, x)
    <3>1. PICK d \in rows["domain"] : d.id = x.of /\ d.acc = x.acc  BY <1>7 DEF Stores, StoreAccepts
    <3>2. \A e \in rows["domain"] : e.id = x.of => e = d  BY <1>0, <3>1 DEF Base, UniqueIds
    <3>3. \A w \in Of(x.acc, "website") : w.of # x.of  BY <1>7, <2>2, <3>1, <3>2 DEF NewChecked
    <3>4. PICK e \in rows["domain"] : e.id = z.of /\ e.acc = z.acc  BY <1>7 DEF SiteOnOwnDomain
    <3>5. z \in Of(x.acc, "website")  BY <1>7, <3>1, <3>2, <3>4 DEF Of
    <3> QED  BY <1>7, <3>3, <3>5
  <2> QED  BY <1>2, <2>1, <2>2
<1>8. ASSUME NEW t \in {"website", "alias", "mailbox"}
      PROVE  rows'[t] = rows[t] \/ (t = k /\ rows'[t] = {y \in rows[t] : y.id # x.id} \cup {x})
  BY <1>0, StoredIn
<1>9. ASSUME NEW y \in rows'["alias"], NEW z \in rows'["alias"], y.of = z.of, y.name = z.name
      PROVE  y = z
  BY <1>3, <1>6, <1>8, <1>9
<1>10. ASSUME NEW y \in rows'["alias"], NEW b \in rows'["mailbox"], y.of = b.of, y.name = b.name
       PROVE  FALSE
  BY <1>3, <1>6, <1>8, <1>10
<1>11. ASSUME NEW v \in rows'["website"], NEW w \in rows'["website"], v.of = w.of
       PROVE  v = w
  BY <1>3, <1>7, <1>8, <1>11
<1> QED  BY <1>9, <1>10, <1>11

Apart == NamesUnique /\ SiteOnOwnDomain /\ MailOwned /\ SerialRowsApart

\* Fewer rows are as far apart, as long as the domains stay.
LEMMA ShrinkApart ==
    ASSUME NamesUnique, SiteOnOwnDomain, SerialRowsApart,
           backend' = backend, raced => raced', \A t \in Tables : rows'[t] \subseteq rows[t],
           rows'["domain"] = rows["domain"]
    PROVE  NamesUnique' /\ SiteOnOwnDomain' /\ SerialRowsApart'
<1>1. /\ {"domain", "ftp", "ssh", "mailbox", "db", "dbuser", "alias", "website"} \subseteq Tables
  BY DEF Tables
<1>2. NamesUnique'  BY <1>1 DEF NamesUnique
<1>3. SiteOnOwnDomain'  BY <1>1 DEF SiteOnOwnDomain
<1>4. SerialRowsApart'  BY <1>1 DEF SerialRowsApart
<1> QED  BY <1>2, <1>3, <1>4

\* Every step keeps rows apart.
LEMMA ApartOn ==
    ASSUME Base, ChecksHold, Apart, NEW c \in Clients, Accepts(c) \/ Leaves(c) \/ Fail(c)
    PROVE  Apart'
<1>0. NamesUnique /\ SiteOnOwnDomain /\ MailOwned /\ SerialRowsApart /\ Typed  BY DEF Apart, Base
<1>1. MailOwned'  BY <1>0, MailOwnedOn
<1>2. ASSUME NEW k, NEW x, NEW users, Stores(c, k, x, users)  PROVE Apart'
  BY <1>0, <1>1, <1>2, StoresNames, StoresSites, StoresApart DEF Apart
<1>3. raced => raced'  BY DEF Leaves, Stores, Drops, Ends, ListSSH, ApplyAuthorizedKeys, StoreFile, Fail,
                              Accepts, Accept, Over, Continue
<1>4. backend' = backend  BY DEF Leaves, Stores, Drops, Ends, ListSSH, ApplyAuthorizedKeys, StoreFile, Fail,
                              Accepts, Accept
<1>5. ASSUME NEW k, Drops(c, k)  PROVE Apart'
  <2>1. k # "domain" /\ "domain" \in Tables  BY <1>5 DEF Drops, Tables
  <2>2. (\A t \in Tables : rows'[t] \subseteq rows[t]) /\ rows'["domain"] = rows["domain"]
    BY <1>0, <1>5, <2>1, DropsRows
  <2> QED  BY <1>0, <1>1, <1>3, <1>4, <2>2, ShrinkApart DEF Apart
<1>6. CASE rows' = rows  BY <1>0, <1>1, <1>3, <1>4, <1>6, ShrinkApart DEF Apart
<1> QED  BY <1>2, <1>5, <1>6 DEF Leaves, Ends, ListSSH, ApplyAuthorizedKeys, StoreFile, Fail, Accepts, Accept

\* The rows are apart at the start.
LEMMA InitApart ==
    ASSUME Init
    PROVE  Apart
<1>0. /\ \A a \in Accounts : a # 0 /\ a # "staff" /\ a # "addon"
      /\ {"domain", "ftp", "ssh", "mailbox", "alias", "website", "maildomain"} \subseteq Tables
  BY RequestsAssumption DEF Tables
<1>1. \A k \in Tables : \A x \in rows[k] : x.acc \in Accounts
  BY InitRow, TypedRowIsRow, RowFields
<1>2. NamesUnique
  <2>1. ASSUME NEW k \in {"domain", "ftp", "ssh"}, NEW x \in rows[k], NEW y \in rows[k], x.name = y.name
        PROVE  x = y
    <3>1. x.id = y.id
      <4>1. CASE k = "domain"  BY <1>0, <1>1, <2>1, <4>1, InitRow
      <4>2. CASE k \in {"ftp", "ssh"}
        <5>1. rows[k] = {[id |-> a, acc |-> a, name |-> a] : a \in Accounts}  BY <4>2, InitRows
        <5> QED  BY <2>1, <5>1
      <4> QED  BY <4>1, <4>2
    <3> QED  BY <1>0, <2>1, <3>1, InitRow
  <2>2. \A x, y \in rows["mailbox"] : x.of = y.of /\ x.name = y.name => x = y  BY <1>0, InitRow
  <2>3. rows["db"] = {} /\ rows["dbuser"] = {}  BY InitRows
  <2> QED  BY <2>1, <2>2, <2>3 DEF NamesUnique
<1>3. SiteOnOwnDomain
  <2>1. ASSUME NEW w \in rows["website"]  PROVE \E d \in rows["domain"] : d.id = w.of /\ d.acc = w.acc
    <3>1. w.of = w.id /\ (w.id = w.acc \/ (w.id = 0 /\ w.acc = AddonOwner)) /\ w.acc \in Accounts
      BY <1>0, <1>1, InitRow
    <3>2. ASSUME NEW a \in Accounts  PROVE \E d \in rows["domain"] : d.id = a /\ d.acc = a
      <4> DEFINE d == [id |-> a, acc |-> a, name |-> a, type |-> "primary", status |-> "active", rev |-> 1]
      <4>1. d \in rows["domain"] /\ d.id = a /\ d.acc = a  BY InitRows
      <4> QED  BY <4>1
    <3>3. \E d \in rows["domain"] : d.id = 0 /\ d.acc = AddonOwner
      <4> DEFINE d == [id |-> 0, acc |-> AddonOwner, name |-> "addon", type |-> "addon",
                       status |-> "active", rev |-> 1]
      <4>1. d \in rows["domain"] /\ d.id = 0 /\ d.acc = AddonOwner  BY InitRows
      <4> QED  BY <4>1
    <3> QED  BY <3>1, <3>2, <3>3
  <2> QED  BY <2>1 DEF SiteOnOwnDomain
<1>4. MailOwned
  <2>1. ASSUME NEW k \in {"mailbox", "alias"}, NEW x, Version(k, x)
        PROVE  \E md \in rows["maildomain"] : md.id = x.of /\ md.acc = x.acc
    <3>1. x \in rows[k]  BY <2>1 DEF Version, Holds, Init
    <3>2. x.of = x.acc /\ x.acc \in Accounts  BY <1>0, <1>1, <2>1, <3>1, InitRow
    <3>3. ASSUME NEW a \in Accounts  PROVE \E md \in rows["maildomain"] : md.id = a /\ md.acc = a
      <4> DEFINE md == [id |-> a, acc |-> a, catchall |-> "reject"]
      <4>1. md \in rows["maildomain"] /\ md.id = a /\ md.acc = a  BY InitRows
      <4> QED  BY <4>1
    <3> QED  BY <3>2, <3>3
  <2> QED  BY <2>1 DEF MailOwned
<1>5. SerialRowsApart
  <2>1. \A x, y \in rows["alias"] : x.of = y.of /\ x.name = y.name => x = y  BY <1>0, InitRow
  <2>2. \A x \in rows["alias"], b \in rows["mailbox"] : ~(x.of = b.of /\ x.name = b.name)
    BY <1>0, <1>1, InitRow
  <2>3. \A v, w \in rows["website"] : v.of = w.of => v = w  BY <1>0, InitRow
  <2> QED  BY <2>1, <2>2, <2>3 DEF SerialRowsApart
<1> QED  BY <1>2, <1>3, <1>4, <1>5 DEF Apart

(***************************************************************************)
(* Layer 5: the authorized keys.                                           *)
(***************************************************************************)

\* The two parts of KeysOnTheirWay.
KeysCarried(a) ==
    authorized[a] = KeysOf(a) \/
        \E c \in Clients : req[c] # Idle /\ req[c].acc = a /\ req[c].step \in {"list", "apply"}
ListCurrent(c) ==
    req[c] # Idle /\ req[c].step = "apply" /\ ~req[c].stale => req[c].row = KeysOf(req[c].acc)

\* KeysOnTheirWay, account by account and request by request.
LEMMA KeysByPart ==
    /\ KeysOnTheirWay <=> (~raced /\ ~faulted =>
          (\A a \in Accounts : KeysCarried(a)) /\ \A c \in Clients : ListCurrent(c))
    /\ ((~raced' /\ ~faulted' => (\A a \in Accounts : KeysCarried(a)')
                                 /\ \A c \in Clients : ListCurrent(c)')) => KeysOnTheirWay'
BY DEF KeysOnTheirWay, KeysCarried, ListCurrent

\* A request that another step overtakes goes on carrying its keys.
LEMMA CarriersKept ==
    ASSUME Typed, NEW c \in Clients, Leaves(c), NEW a \in Accounts, NEW d \in Clients, d # c,
           req[d] # Idle, req[d].acc = a, req[d].step \in {"list", "apply"}
    PROVE  \E e \in Clients : req'[e] # Idle /\ req'[e].acc = a /\ req'[e].step \in {"list", "apply"}
<1>1. Kept(d)  BY AllMoveOn DEF MovedOn
<1> QED  BY <1>1 DEF Kept

\* The others are stale; c's own list is looked at where it is made.
LEMMA OthersListStale ==
    ASSUME Typed, NEW c \in Clients, Leaves(c), NEW d \in Clients, d # c
    PROVE  ListCurrent(d)'
<1>1. PICK next \in Request \cup {Idle} : Continue(c, next)  BY LeavesMovesOn
<1>2. req'[d] # Idle => req'[d].stale  BY <1>1, ContinueKeeps
<1> QED  BY <1>2 DEF ListCurrent

\* Steps of a request that neither carries keys nor changes them.
LEMMA KeysUntouched ==
    ASSUME Typed, KeysOnTheirWay, NEW c \in Clients, Leaves(c), req[c].step \in {"commit", "enqueue"},
           rows'["ssh"] = rows["ssh"], authorized' = authorized, faulted' = faulted,
           req'[c] # Idle => req'[c].step # "apply"
    PROVE  KeysOnTheirWay'
<1>1. SUFFICES ASSUME ~raced', ~faulted'
               PROVE  (\A a \in Accounts : KeysCarried(a)') /\ \A d \in Clients : ListCurrent(d)'
  BY KeysByPart
<1>2. ~raced /\ ~faulted
  <2>1. PICK next : Continue(c, next)  BY LeavesMovesOn
  <2> QED  BY <1>1, <2>1 DEF Continue
<1>3. \A a \in Accounts : KeysCarried(a)  BY <1>2, KeysByPart
<1>4. \A a : KeysOf(a)' = KeysOf(a)  BY DEF KeysOf, Of
<1>5. ASSUME NEW a \in Accounts  PROVE KeysCarried(a)'
  <2>1. CASE authorized[a] = KeysOf(a)  BY <1>4, <2>1 DEF KeysCarried
  <2>2. CASE \E d \in Clients : req[d] # Idle /\ req[d].acc = a /\ req[d].step \in {"list", "apply"}
    <3>1. PICK d \in Clients : req[d] # Idle /\ req[d].acc = a /\ req[d].step \in {"list", "apply"}
      BY <2>2
    <3>2. d # c  BY <3>1
    <3> QED  BY <3>1, <3>2, CarriersKept DEF KeysCarried
  <2> QED  BY <1>3, <2>1, <2>2 DEF KeysCarried
<1>6. ASSUME NEW d \in Clients  PROVE ListCurrent(d)'
  <2>1. CASE d = c  BY <2>1 DEF ListCurrent
  <2>2. CASE d # c  BY <2>2, OthersListStale
  <2> QED  BY <2>1, <2>2
<1> QED  BY <1>5, <1>6

\* A change of the keys of one account, whose request goes on to list them.
LEMMA KeysChanged ==
    ASSUME Typed, KeysOnTheirWay, NEW c \in Clients, Leaves(c), req[c].step = "commit", req[c] # Idle,
           authorized' = authorized, faulted' = faulted,
           Continue(c, [req[c] EXCEPT !.step = "list"]),
           \A s \in (rows["ssh"] \ rows'["ssh"]) \cup (rows'["ssh"] \ rows["ssh"]) : s.acc = req[c].acc
    PROVE  KeysOnTheirWay'
<1>1. SUFFICES ASSUME ~raced', ~faulted'
               PROVE  (\A a \in Accounts : KeysCarried(a)') /\ \A d \in Clients : ListCurrent(d)'
  BY KeysByPart
<1>2. ~raced /\ ~faulted  BY <1>1 DEF Continue
<1>3. \A a \in Accounts : KeysCarried(a)  BY <1>2, KeysByPart
<1>4. req[c] \in Request  BY DEF Typed
<1>5. /\ [req[c] EXCEPT !.step = "list"] \in Request /\ [req[c] EXCEPT !.step = "list"].step = "list"
      /\ [req[c] EXCEPT !.step = "list"].acc = req[c].acc
  BY <1>4, StepMoves
<1>6. req'[c] = [req[c] EXCEPT !.step = "list"]  BY <1>5, ContinueKeeps
<1>7. req'[c] # Idle /\ req'[c].step = "list" /\ req'[c].acc = req[c].acc
  BY <1>5, <1>6, IdleIsNoRequest
<1>8. \A a : a # req[c].acc => KeysOf(a)' = KeysOf(a)
  <2>1. ASSUME NEW a, a # req[c].acc  PROVE {s \in rows'["ssh"] : s.acc = a} = {s \in rows["ssh"] : s.acc = a}
    BY <2>1
  <2> QED  BY <2>1 DEF KeysOf, Of
<1>9. ASSUME NEW a \in Accounts  PROVE KeysCarried(a)'
  <2>1. CASE a = req[c].acc  BY <1>7, <2>1 DEF KeysCarried
  <2>2. CASE a # req[c].acc /\ authorized[a] = KeysOf(a)  BY <1>8, <2>2 DEF KeysCarried
  <2>3. CASE \E d \in Clients : req[d] # Idle /\ req[d].acc = a /\ req[d].step \in {"list", "apply"}
    <3>1. PICK d \in Clients : req[d] # Idle /\ req[d].acc = a /\ req[d].step \in {"list", "apply"}
      BY <2>3
    <3>2. d # c  BY <3>1
    <3> QED  BY <3>1, <3>2, CarriersKept DEF KeysCarried
  <2> QED  BY <1>3, <2>1, <2>2, <2>3 DEF KeysCarried
<1>10. ASSUME NEW d \in Clients  PROVE ListCurrent(d)'
  <2>1. CASE d = c  BY <1>7, <2>1 DEF ListCurrent
  <2>2. CASE d # c  BY <2>2, OthersListStale
  <2> QED  BY <2>1, <2>2
<1> QED  BY <1>9, <1>10

\* Listing the keys.
LEMMA ListKeys ==
    ASSUME Typed, KeysOnTheirWay, NEW c \in Clients, ListSSH(c)
    PROVE  KeysOnTheirWay'
<1>0. Leaves(c) /\ req[c] # Idle /\ req[c] \in Request  BY DEF Leaves, ListSSH, Typed
<1>1. SUFFICES ASSUME ~raced', ~faulted'
               PROVE  (\A a \in Accounts : KeysCarried(a)') /\ \A d \in Clients : ListCurrent(d)'
  BY KeysByPart
<1>2. ~raced /\ ~faulted  BY <1>1 DEF ListSSH, Continue
<1>3. \A a \in Accounts : KeysCarried(a)  BY <1>2, KeysByPart
<1>4. rows' = rows /\ authorized' = authorized  BY DEF ListSSH
<1>5. \A a : KeysOf(a)' = KeysOf(a)  BY <1>4 DEF KeysOf, Of
<1> DEFINE next == [req[c] EXCEPT !.step = "apply", !.row = KeysOf(req[c].acc)]
<1>6. req[c].acc \in Accounts  BY <1>0 DEF Request
<1>7. next \in Request /\ next.step = "apply" /\ next.acc = req[c].acc /\ next.row = KeysOf(req[c].acc)
  BY <1>0, <1>6, KeysAreNames, ListMoves
<1>8. Continue(c, next)  BY DEF ListSSH, KeysOf
<1> HIDE DEF next
<1>9. req'[c] = next /\ next # Idle  BY <1>7, <1>8, ContinueKeeps, IdleIsNoRequest
<1>10. ASSUME NEW a \in Accounts  PROVE KeysCarried(a)'
  <2>1. CASE authorized[a] = KeysOf(a)  BY <1>4, <1>5, <2>1 DEF KeysCarried
  <2>2. CASE \E d \in Clients : req[d] # Idle /\ req[d].acc = a /\ req[d].step \in {"list", "apply"}
    <3>1. PICK d \in Clients : req[d] # Idle /\ req[d].acc = a /\ req[d].step \in {"list", "apply"}
      BY <2>2
    <3>2. CASE d = c  BY <1>7, <1>9, <3>1, <3>2 DEF KeysCarried
    <3>3. CASE d # c  BY <1>0, <3>1, <3>3, CarriersKept DEF KeysCarried
    <3> QED  BY <3>2, <3>3
  <2> QED  BY <1>3, <2>1, <2>2 DEF KeysCarried
<1>11. ASSUME NEW d \in Clients  PROVE ListCurrent(d)'
  <2>1. CASE d = c
    <3>1. req'[c].row = KeysOf(req[c].acc) /\ req'[c].acc = req[c].acc  BY <1>7, <1>9
    <3>2. PICK a : a = req[c].acc  OBVIOUS
    <3>3. KeysOf(a)' = KeysOf(a)  BY <1>5
    <3>4. req'[c].row = KeysOf(a)' /\ req'[c].acc = a  BY <3>1, <3>2, <3>3
    <3> QED  BY <2>1, <3>4 DEF ListCurrent
  <2>2. CASE d # c  BY <1>0, <2>2, OthersListStale
  <2> QED  BY <2>1, <2>2
<1> QED  BY <1>10, <1>11

\* Writing the keys to the host.
LEMMA ApplyKeys ==
    ASSUME Typed, KeysOnTheirWay, NEW c \in Clients, ApplyAuthorizedKeys(c)
    PROVE  KeysOnTheirWay'
<1>0. Leaves(c) /\ req[c] # Idle /\ req[c] \in Request /\ req[c].step = "apply"
  BY DEF Leaves, ApplyAuthorizedKeys, Typed
<1>1. SUFFICES ASSUME ~raced', ~faulted'
               PROVE  (\A a \in Accounts : KeysCarried(a)') /\ \A d \in Clients : ListCurrent(d)'
  BY KeysByPart
<1>2. ~raced /\ ~faulted /\ ~req[c].stale /\ req'[c] = Idle
  BY <1>0, <1>1, ContinueKeeps DEF ApplyAuthorizedKeys, Over, Continue
<1>3. (\A a \in Accounts : KeysCarried(a)) /\ ListCurrent(c)  BY <1>2, KeysByPart
<1>4. req[c].row = KeysOf(req[c].acc)  BY <1>0, <1>2, <1>3 DEF ListCurrent
<1>5. \A a : KeysOf(a)' = KeysOf(a)  BY DEF ApplyAuthorizedKeys, KeysOf, Of
<1>6. req[c].acc \in Accounts  BY <1>0 DEF Request
<1>7. authorized' = [authorized EXCEPT ![req[c].acc] = req[c].row] /\ authorized \in [Accounts -> SUBSET (Names \cup Accounts)]
  BY DEF ApplyAuthorizedKeys, Typed
<1>8. ASSUME NEW a \in Accounts  PROVE KeysCarried(a)'
  <2>1. CASE a = req[c].acc
    <3>1. authorized'[a] = KeysOf(a)  BY <1>4, <1>6, <1>7, <2>1
    <3> QED  BY <1>5, <3>1 DEF KeysCarried
  <2>2. CASE a # req[c].acc
    <3>1. authorized'[a] = authorized[a]  BY <1>7, <2>2
    <3>2. CASE authorized[a] = KeysOf(a)  BY <1>5, <3>1, <3>2 DEF KeysCarried
    <3>3. CASE \E d \in Clients : req[d] # Idle /\ req[d].acc = a /\ req[d].step \in {"list", "apply"}
      <4>1. PICK d \in Clients : req[d] # Idle /\ req[d].acc = a /\ req[d].step \in {"list", "apply"}
        BY <3>3
      <4>2. d # c  BY <2>2, <4>1
      <4> QED  BY <1>0, <4>1, <4>2, CarriersKept DEF KeysCarried
    <3> QED  BY <1>3, <3>2, <3>3 DEF KeysCarried
  <2> QED  BY <2>1, <2>2
<1>9. ASSUME NEW d \in Clients  PROVE ListCurrent(d)'
  <2>1. CASE d = c  BY <1>2, <2>1 DEF ListCurrent
  <2>2. CASE d # c  BY <1>0, <2>2, OthersListStale
  <2> QED  BY <2>1, <2>2
<1> QED  BY <1>8, <1>9

\* Every step keeps the keys on their way.
LEMMA KeysOn ==
    ASSUME Base, KeysOnTheirWay, NEW c \in Clients, Accepts(c) \/ Leaves(c) \/ Fail(c)
    PROVE  KeysOnTheirWay'
<1>0. Typed /\ IdsStand /\ "ssh" \in Named /\ "ssh" \in Tables  BY DEF Base, Named, Tables
<1>1. ASSUME NEW k, NEW x, NEW users, Stores(c, k, x, users)  PROVE KeysOnTheirWay'
  <2>0. /\ Leaves(c) /\ req[c] # Idle /\ req[c].step = "commit" /\ Holds(c, k) /\ k \in Named /\ k \in Tables
        /\ authorized' = authorized /\ faulted' = faulted
    BY <1>1 DEF Leaves, Stores, Holds, Named
  <2>1. CASE k # "ssh"
    <3>1. rows'["ssh"] = rows["ssh"]  BY <1>0, <1>1, <2>1, StoredIn
    <3>2. req'[c] = Idle \/ req'[c].step = "enqueue"
      <4>1. CASE Over(c)  BY <1>0, <4>1, ContinueKeeps DEF Over
      <4>2. CASE Continue(c, [req[c] EXCEPT !.step = "enqueue"])
        <5>1. req[c] \in Request  BY <1>0, <2>0 DEF Typed
        <5>2. /\ [req[c] EXCEPT !.step = "enqueue"] \in Request
              /\ [req[c] EXCEPT !.step = "enqueue"].step = "enqueue"
          BY <5>1, StepMoves
        <5>3. req'[c] = [req[c] EXCEPT !.step = "enqueue"]  BY <1>0, <4>2, <5>2, ContinueKeeps
        <5> QED  BY <5>2, <5>3
      <4> QED  BY <1>1, <2>1, <4>1, <4>2 DEF Stores
    <3> QED  BY <1>0, <2>0, <3>1, <3>2, KeysUntouched
  <2>2. CASE k = "ssh"
    <3>1. Continue(c, [req[c] EXCEPT !.step = "list"])  BY <1>1, <2>2 DEF Stores
    <3>2. /\ rows'["ssh"] = {y \in rows["ssh"] : y.id # x.id} \cup {x}
          /\ \A y \in rows["ssh"] : y.id = x.id => SameRow("ssh", y, x)
      BY <1>0, <1>1, <2>2, StoredIn
    <3>3. SameRow(k, x, req[c].row) /\ req[c].row.acc = req[c].acc
      BY <1>0, <1>1, <2>0, HeldRow DEF Stores
    <3>4. \A s \in (rows["ssh"] \ rows'["ssh"]) \cup (rows'["ssh"] \ rows["ssh"]) : s.acc = req[c].acc
      BY <3>2, <3>3 DEF SameRow
    <3> QED  BY <1>0, <2>0, <3>1, <3>4, KeysChanged
  <2> QED  BY <2>1, <2>2
<1>2. ASSUME NEW k, Drops(c, k)  PROVE KeysOnTheirWay'
  <2>0. /\ Leaves(c) /\ req[c] # Idle /\ req[c].step = "commit" /\ Holds(c, k)
        /\ authorized' = authorized /\ faulted' = faulted
    BY <1>2 DEF Leaves, Drops, Holds
  <2>1. CASE k # "ssh"
    <3>1. rows'["ssh"] = rows["ssh"]  BY <1>0, <1>2, <2>1, DropsRows
    <3>2. req'[c] = Idle  BY <1>0, <1>2, <2>1, ContinueKeeps DEF Drops, Over
    <3> QED  BY <1>0, <2>0, <3>1, <3>2, KeysUntouched
  <2>2. CASE k = "ssh"
    <3>1. Continue(c, [req[c] EXCEPT !.step = "list"])  BY <1>2, <2>2 DEF Drops
    <3>2. rows'["ssh"] = {y \in rows["ssh"] : y.id # req[c].row.id}  BY <1>0, <1>2, <2>2, DropsRows
    <3>3. Version("ssh", req[c].row) /\ req[c].row.acc = req[c].acc  BY <1>0, <2>0, <2>2, HeldRow
    <3>4. \A y \in rows["ssh"] : y.id = req[c].row.id => SameRow("ssh", y, req[c].row)
      BY <1>0, <3>3 DEF IdsStand, Version
    <3>5. \A s \in (rows["ssh"] \ rows'["ssh"]) \cup (rows'["ssh"] \ rows["ssh"]) : s.acc = req[c].acc
      BY <3>2, <3>3, <3>4 DEF SameRow
    <3> QED  BY <1>0, <2>0, <3>1, <3>5, KeysChanged
  <2> QED  BY <2>1, <2>2
<1>3. CASE Ends(c)
  <2>0. /\ Leaves(c) /\ req[c] # Idle /\ req[c].step \in {"commit", "enqueue"} /\ rows' = rows
        /\ authorized' = authorized /\ faulted' = faulted
    BY <1>3 DEF Leaves, Ends
  <2>1. CASE Over(c)
    <3>1. req'[c] = Idle  BY <1>0, <2>1, ContinueKeeps DEF Over
    <3> QED  BY <1>0, <2>0, <3>1, KeysUntouched
  <2>2. CASE req[c].step = "commit" /\ Continue(c, [req[c] EXCEPT !.step = "list"])
    BY <1>0, <2>0, <2>2, KeysChanged
  <2> QED  BY <1>3, <2>1, <2>2 DEF Ends
<1>4. CASE StoreFile(c)
  <2>0. /\ Leaves(c) /\ req[c] # Idle /\ req[c].step = "commit" /\ rows' = rows
        /\ authorized' = authorized /\ faulted' = faulted /\ Over(c)
    BY <1>4 DEF Leaves, StoreFile, Commits
  <2>1. req'[c] = Idle  BY <1>0, <2>0, ContinueKeeps DEF Over
  <2> QED  BY <1>0, <2>0, <2>1, KeysUntouched
<1>5. CASE Fail(c)  BY <1>5 DEF Fail, KeysOnTheirWay
<1>6. CASE Accepts(c)
  <2>1. PICK a, k, how, x : \E key \in Keys \cup {NoKey} : Passed(a, k, how, x) /\ Accept(c, a, k, how, x, key)
    BY <1>6 DEF Accepts
  <2>2. /\ req[c] = Idle /\ req'[c].step = "commit" /\ rows' = rows /\ authorized' = authorized
        /\ raced' = raced /\ faulted' = faulted
        /\ \A e \in Clients \ {c} : req'[e] = req[e]
    BY <1>0, <2>1, AcceptedRequest
  <2>3. \A b : KeysOf(b)' = KeysOf(b)  BY <2>2 DEF KeysOf, Of
  <2>4. SUFFICES ASSUME ~raced', ~faulted'
                 PROVE  (\A b \in Accounts : KeysCarried(b)') /\ \A d \in Clients : ListCurrent(d)'
    BY KeysByPart
  <2>5. (\A b \in Accounts : KeysCarried(b)) /\ \A d \in Clients : ListCurrent(d)  BY <2>2, <2>4, KeysByPart
  <2>6. \A b \in Accounts : KeysCarried(b)'  BY <2>2, <2>3, <2>5 DEF KeysCarried
  <2>7. ASSUME NEW d \in Clients  PROVE ListCurrent(d)'
    <3>1. CASE d = c  BY <2>2, <3>1 DEF ListCurrent
    <3>2. CASE d # c
      <4>1. req'[d] = req[d] /\ ListCurrent(d)  BY <2>2, <2>5, <3>2
      <4>2. PICK b : b = req[d].acc  OBVIOUS
      <4>3. KeysOf(b)' = KeysOf(b) /\ req'[d].acc = b  BY <2>3, <4>1, <4>2
      <4> QED  BY <4>1, <4>2, <4>3 DEF ListCurrent
    <3> QED  BY <3>1, <3>2
  <2> QED  BY <2>6, <2>7
<1>7. CASE ListSSH(c)  BY <1>0, <1>7, ListKeys
<1>8. CASE ApplyAuthorizedKeys(c)  BY <1>0, <1>8, ApplyKeys
<1> QED  BY <1>1, <1>2, <1>3, <1>4, <1>5, <1>6, <1>7, <1>8 DEF Leaves

\* The keys are on the host at the start.
LEMMA InitKeys ==
    ASSUME Init
    PROVE  KeysOnTheirWay
<1>1. ASSUME NEW a \in Accounts  PROVE authorized[a] = KeysOf(a)
  <2> DEFINE key == [id |-> a, acc |-> a, name |-> a]
  <2>1. Of(a, "ssh") = {key} /\ key.name = a  BY InitRows DEF Of
  <2> HIDE DEF key
  <2>2. KeysOf(a) = {a}  BY <2>1 DEF KeysOf
  <2> QED  BY <2>2 DEF Init
<1>2. \A c \in Clients : req[c] = Idle  BY DEF Init
<1> QED  BY <1>1, <1>2 DEF KeysOnTheirWay

\* The core with the layers of the rows.
RowsInv == CoreInv /\ Apart /\ KeysOnTheirWay

\* The layers of the rows are inductive.
LEMMA RowsOn ==
    ASSUME RowsInv, [Next]_vars
    PROVE  RowsInv'
<1>0. CoreInv /\ Base /\ Typed /\ ChecksHold /\ Apart /\ KeysOnTheirWay
  BY DEF RowsInv, CoreInv, Base
<1>1. CoreInv'  BY <1>0, CoreOn
<1>2. CASE Next
  <2>1. PICK c \in Clients : Accepts(c) \/ Leaves(c) \/ Fail(c)  BY <1>0, <1>2, NextForms
  <2>2. Apart'  BY <1>0, <2>1, ApartOn
  <2>3. KeysOnTheirWay'  BY <1>0, <2>1, KeysOn
  <2> QED  BY <1>1, <2>2, <2>3 DEF RowsInv
<1>3. CASE UNCHANGED vars
  <2>1. /\ backend' = backend /\ rows' = rows /\ req' = req /\ authorized' = authorized
        /\ raced' = raced /\ faulted' = faulted
    BY <1>3 DEF vars
  <2>2. NamesUnique' /\ SiteOnOwnDomain' /\ SerialRowsApart'
    BY <1>0, <2>1 DEF Apart, NamesUnique, SiteOnOwnDomain, SerialRowsApart
  <2>3. MailOwned'  BY <1>0, <2>1 DEF Apart, MailOwned, Version, Holds
  <2>4. KeysOnTheirWay'  BY <1>0, <2>1 DEF KeysOnTheirWay, KeysOf, Of
  <2> QED  BY <1>1, <2>2, <2>3, <2>4 DEF RowsInv, Apart
<1> QED  BY <1>2, <1>3

\* The rows are apart, and a change of the SSH keys that the host has not got is in
\* the hands of a request (api.go, applyAuthorizedKeys).
THEOREM RowsHold == Spec => []RowsInv
<1>1. Init => RowsInv  BY InitBase, InitApart, InitKeys DEF RowsInv, CoreInv
<1>2. RowsInv /\ [Next]_vars => RowsInv'  BY RowsOn
<1> QED  BY <1>1, <1>2, PTL DEF Spec

\* The rows agree with what the handlers check before they write: a name is given
\* once and a site is on a domain of its account by the constraints of the store,
\* whatever overlapped; local parts and sites are kept apart, and the keys on the
\* host are those of the table, while requests did not overlap.
THEOREM RowsAgreed == Spec => []RowsAgree
<1>1. KeysOnTheirWay => KeysApplied  BY DEF KeysOnTheirWay, KeysApplied, KeysOf
<1>2. RowsInv => RowsAgree  BY <1>1 DEF RowsInv, RowsAgree, Apart
<1> QED  BY <1>2, RowsHold, PTL

(***************************************************************************)
(* The limits.  What counts is the ids: those of the rows, and those of    *)
(* the requests that may still put a row there.                            *)
(***************************************************************************)

DomainKinds == {"domain", "subdomain", "alias_domain"}
TableOf(k) == IF k \in DomainKinds THEN "domain" ELSE k
Counts(a, k, x) == x.acc = a /\ (k \in DomainKinds => DomainKind(x.type) = k)
UsedRows(a, k) == {x \in rows[TableOf(k)] : Counts(a, k, x)}
RowIds(a, k) == {x.id : x \in UsedRows(a, k)}

\* The request may still put a row that counts.
Puts(c, a, k) ==
    IF k = "dbuser" THEN Holds(c, "db") /\ req[c].how = "createWithUser" /\ req[c].row.acc = a
    ELSE Holds(c, TableOf(k)) /\ req[c].how # "delete" /\ Counts(a, k, req[c].row)
HeldIds(a, k) == {req[c].row.id : c \in {d \in Clients : Puts(d, a, k)}}

\* The requests that passed the disk quota and have not written yet.
Writers(a) == {c \in Clients : /\ req[c] # Idle /\ req[c].step = "commit" /\ req[c].acc = a
                               /\ req[c].kind = "disk" /\ req[c].how = "write"}

LimitedRows == Limited \ {"disk"}
WithinPackage ==
    /\ \A a \in Accounts, k \in LimitedRows : Package[k] # 0 =>
          /\ Cardinality(RowIds(a, k) \cup HeldIds(a, k)) <= Package[k] + Cardinality(Clients) - 1
          /\ ~raced => Cardinality(RowIds(a, k)) <= Package[k]
    /\ \A a \in Accounts : Package["disk"] # 0 =>
          /\ disk[a] + Cardinality(Writers(a)) <= Package["disk"] + Cardinality(Clients) - 1
          /\ ~raced => disk[a] <= Package["disk"]

\* Limits are numbers, and there is a client.
LEMMA PackageIsNat ==
    /\ \A k \in Limited : Package[k] \in Nat
    /\ IsFiniteSet(Clients) /\ Cardinality(Clients) \in Nat /\ Cardinality(Clients) >= 1
<1>1. IsFiniteSet(Clients) /\ Clients # {} /\ Package \in [Limited -> Nat]  BY RequestsAssumption
<1>2. Cardinality(Clients) \in Nat /\ Cardinality(Clients) # 0  BY <1>1, FS_EmptySet, FS_CardinalityType
<1> QED  BY <1>1, <1>2

\* There are finitely many ids.
LEMMA IdsFinite == IsFiniteSet(Ids)
<1>1. IsFiniteSet(Accounts) /\ MaxRequests \in Nat  BY RequestsAssumption
<1>2. IsFiniteSet({0})  BY FS_Singleton
<1>3. IsFiniteSet(Accounts \cup {0})  BY <1>1, <1>2, FS_Union
<1>4. IsFiniteSet(1 .. MaxRequests)  BY <1>1, FS_Interval
<1>5. IsFiniteSet((Accounts \cup {0}) \cup (1 .. MaxRequests))  BY <1>3, <1>4, FS_Union
<1> QED  BY <1>5 DEF Ids, InitialIds

\* What is limited is in a table.
LEMMA LimitedTables == \A k \in LimitedRows : TableOf(k) \in Tables
BY DEF LimitedRows, Limited, TableOf, DomainKinds, Tables

\* The rows of a set have as many ids, and finitely many.
LEMMA AsManyIds ==
    ASSUME Base, NEW k \in Tables, NEW S \in SUBSET rows[k]
    PROVE  /\ IsFiniteSet(S) /\ IsFiniteSet({x.id : x \in S})
           /\ Cardinality(S) \in Nat /\ Cardinality({x.id : x \in S}) = Cardinality(S)
<1> DEFINE T == {x.id : x \in S}
           f == [x \in S |-> x.id]
<1>1. \A x \in rows[k] : x.id \in Ids  BY TypedRowIsRow, RowFields DEF Base, Typed
<1>2. T \subseteq Ids  BY <1>1
<1>3. IsFiniteSet(T)  BY <1>2, IdsFinite, FS_Subset
<1>4. f \in [S -> T] /\ \A x \in S : f[x] = x.id  OBVIOUS
<1>5. \A x, y \in S : x.id = y.id => x = y  BY DEF Base, UniqueIds
<1>6. \A i \in T : \E x \in S : x.id = i  OBVIOUS
<1> HIDE DEF T, f
<1>7. f \in Injection(S, T)  BY <1>4, <1>5 DEF Injection, IsInjective
<1>8. f \in Surjection(S, T)  BY <1>4, <1>6 DEF Surjection
<1>9. IsFiniteSet(S) /\ Cardinality(S) = Cardinality(T)  BY <1>3, <1>7, <1>8, FS_Injection
<1> QED  BY <1>3, <1>9, FS_CardinalityType DEF T

\* The rows that count are finitely many, and as many as their ids.
LEMMA UsedAreRows ==
    ASSUME Base, NEW a, NEW k \in LimitedRows
    PROVE  /\ IsFiniteSet(UsedRows(a, k)) /\ IsFiniteSet(RowIds(a, k))
           /\ Cardinality(RowIds(a, k)) = Cardinality(UsedRows(a, k))
           /\ Cardinality(UsedRows(a, k)) \in Nat /\ Cardinality(RowIds(a, k)) \in Nat
<1>1. UsedRows(a, k) \in SUBSET rows[TableOf(k)]  BY DEF UsedRows
<1> QED  BY <1>1, LimitedTables, AsManyIds DEF RowIds

\* A client holds one id at most.
LEMMA HeldByClients ==
    ASSUME NEW r, NEW C \in SUBSET Clients
    PROVE  /\ IsFiniteSet({r[c].row.id : c \in C}) /\ Cardinality({r[c].row.id : c \in C}) \in Nat
           /\ Cardinality({r[c].row.id : c \in C}) <= Cardinality(Clients)
<1> DEFINE f == [c \in C |-> r[c].row.id]
           T == {r[c].row.id : c \in C}
<1>1. f \in [C -> T] /\ \A i \in T : \E c \in C : f[c] = i  OBVIOUS
<1>2. IsFiniteSet(C) /\ Cardinality(C) <= Cardinality(Clients) /\ Cardinality(C) \in Nat
  BY PackageIsNat, FS_Subset, FS_CardinalityType
<1> HIDE DEF f, T
<1>3. f \in Surjection(C, T)  BY <1>1 DEF Surjection
<1>4. IsFiniteSet(T) /\ Cardinality(T) <= Cardinality(C)  BY <1>2, <1>3, FS_Surjection
<1>5. Cardinality(T) \in Nat  BY <1>4, FS_CardinalityType
<1> QED  BY <1>2, <1>4, <1>5, PackageIsNat DEF T

\* The ids that count, element by element, before and after a step.
LEMMA RowIdsAre ==
    ASSUME NEW a, NEW k, NEW i
    PROVE  /\ i \in RowIds(a, k) <=> \E x \in rows[TableOf(k)] : Counts(a, k, x) /\ x.id = i
           /\ i \in RowIds(a, k)' <=> \E x \in rows'[TableOf(k)] : Counts(a, k, x) /\ x.id = i
           /\ i \in HeldIds(a, k) <=> \E c \in Clients : Puts(c, a, k) /\ req[c].row.id = i
           /\ i \in HeldIds(a, k)' <=> \E c \in Clients : Puts(c, a, k)' /\ req'[c].row.id = i
BY DEF RowIds, UsedRows, HeldIds, Counts

\* A request that moves on leaves the ids the others hold.
LEMMA HeldKept ==
    ASSUME NEW c \in Clients, MovedOn(c), NEW a, NEW k \in LimitedRows, NEW d \in Clients, Puts(d, a, k)'
    PROVE  d # c /\ Puts(d, a, k) /\ req'[d].row = req[d].row
<1>1. "db" \in Tables /\ TableOf(k) \in Tables  BY LimitedTables DEF Tables
<1>2. CASE k = "dbuser"
  <2>1. Holds(d, "db")' /\ req'[d].how = "createWithUser" /\ req'[d].row.acc = a  BY <1>2 DEF Puts
  <2> QED  BY <1>1, <1>2, <2>1, HoldsAfter DEF Puts
<1>3. CASE k # "dbuser"
  <2>1. Holds(d, TableOf(k))' /\ req'[d].how # "delete" /\ Counts(a, k, req'[d].row)
    BY <1>3 DEF Puts, Counts
  <2>2. d # c /\ Holds(d, TableOf(k)) /\ req'[d].row = req[d].row /\ req'[d].how = req[d].how
    BY <1>1, <2>1, HoldsAfter
  <2> QED  BY <1>3, <2>1, <2>2 DEF Puts, Counts
<1> QED  BY <1>2, <1>3

\* A row that is put has the id its request held, and counts where it counted.
LEMMA StoresIds ==
    ASSUME Base, NEW c \in Clients, NEW t, NEW x, NEW users, Stores(c, t, x, users),
           NEW a, NEW k \in LimitedRows, NEW i \in RowIds(a, k)'
    PROVE  \/ i \in RowIds(a, k)
           \/ /\ i = x.id /\ i = req[c].row.id /\ Puts(c, a, k) /\ x.acc = a
              /\ \/ k = "dbuser" /\ req[c].how = "createWithUser"
                 \/ k # "dbuser" /\ TableOf(k) = t /\ Counts(a, k, x)
<1>0. Typed  BY DEF Base
<1>1. /\ t \in Named /\ t \in Tables /\ t # "dbuser" /\ Holds(c, t) /\ req[c].how # "delete"
      /\ SameRow(t, x, req[c].row)
      /\ users = {} \/ (users = {[id |-> x.id, acc |-> x.acc]} /\ t = "db" /\ req[c].how = "createWithUser")
  BY DEF Stores, Named
<1>2. /\ rows'[t] = {y \in rows[t] : y.id # x.id} \cup {x}
      /\ rows'["dbuser"] = rows["dbuser"] \cup users
      /\ \A s \in Tables \ {t, "dbuser"} : rows'[s] = rows[s]
  BY <1>0, StoresRows
<1>3. PICK y \in rows'[TableOf(k)] : Counts(a, k, y) /\ y.id = i  BY RowIdsAre
<1>4. y \in rows[TableOf(k)] => i \in RowIds(a, k)  BY <1>3, RowIdsAre
<1>5. x.id = req[c].row.id /\ x.acc = req[c].row.acc  BY <1>1 DEF SameRow
<1>6. CASE k = "dbuser"
  <2>1. TableOf(k) = "dbuser"  BY <1>6 DEF TableOf, DomainKinds
  <2>2. CASE y \notin rows["dbuser"]
    <3>1. users = {[id |-> x.id, acc |-> x.acc]} /\ t = "db" /\ req[c].how = "createWithUser" /\ y \in users
      BY <1>1, <1>2, <1>3, <2>1, <2>2
    <3>2. y.id = x.id /\ y.acc = x.acc  BY <3>1
    <3>3. x.acc = a /\ i = x.id  BY <1>3, <3>2 DEF Counts
    <3>4. Puts(c, a, k)  BY <1>1, <1>5, <1>6, <3>1, <3>3 DEF Puts
    <3> QED  BY <1>5, <1>6, <3>1, <3>3, <3>4
  <2> QED  BY <1>4, <2>1, <2>2
<1>7. CASE k # "dbuser" /\ TableOf(k) = t /\ y = x
  <2>1. Counts(a, k, req[c].row)
    <3>1. k \in DomainKinds => t = "domain"  BY <1>7 DEF TableOf
    <3>2. k \in DomainKinds => x.type = req[c].row.type  BY <1>1, <3>1 DEF SameRow
    <3> QED  BY <1>3, <1>5, <1>7, <3>2 DEF Counts
  <2>2. Puts(c, a, k)  BY <1>1, <1>7, <2>1 DEF Puts
  <2>3. x.acc = a  BY <1>3, <1>7 DEF Counts
  <2> QED  BY <1>3, <1>5, <1>7, <2>2, <2>3
<1>8. CASE k # "dbuser" /\ ~(TableOf(k) = t /\ y = x)
  <2>1. TableOf(k) # "dbuser" /\ TableOf(k) \in Tables  BY <1>8, LimitedTables DEF TableOf
  <2>2. y \in rows[TableOf(k)]  BY <1>2, <1>3, <1>8, <2>1
  <2> QED  BY <1>4, <2>2
<1> QED  BY <1>6, <1>7, <1>8

\* No step but the acceptance of a request adds an id that counts.
LEMMA IdsShrink ==
    ASSUME Base, NEW c \in Clients, Leaves(c) \/ Fail(c), NEW a, NEW k \in LimitedRows
    PROVE  RowIds(a, k)' \cup HeldIds(a, k)' \subseteq RowIds(a, k) \cup HeldIds(a, k)
<1>0. Typed /\ TableOf(k) \in Tables  BY LimitedTables DEF Base
<1>1. MovedOn(c)  BY <1>0, AllMoveOn
<1>2. ASSUME NEW i \in HeldIds(a, k)'  PROVE i \in HeldIds(a, k)
  <2>1. PICK d \in Clients : Puts(d, a, k)' /\ req'[d].row.id = i  BY <1>2, RowIdsAre
  <2>2. Puts(d, a, k) /\ req'[d].row = req[d].row  BY <1>1, <2>1, HeldKept
  <2> QED  BY <2>1, <2>2, RowIdsAre
<1>3. ASSUME NEW i \in RowIds(a, k)'  PROVE i \in RowIds(a, k) \cup HeldIds(a, k)
  <2>1. CASE rows'[TableOf(k)] \subseteq rows[TableOf(k)]  BY <1>3, <2>1, RowIdsAre
  <2>2. ASSUME NEW t, NEW x, NEW users, Stores(c, t, x, users)
        PROVE  i \in RowIds(a, k) \cup HeldIds(a, k)
    BY <1>3, <2>2, StoresIds, RowIdsAre
  <2>3. ASSUME NEW t, Drops(c, t)  PROVE rows'[TableOf(k)] \subseteq rows[TableOf(k)]
    BY <1>0, <2>3, DropsRows
  <2>4. Ends(c) \/ ListSSH(c) \/ ApplyAuthorizedKeys(c) \/ StoreFile(c) \/ Fail(c) => rows' = rows
    BY DEF Ends, ListSSH, ApplyAuthorizedKeys, StoreFile, Fail
  <2> QED  BY <2>1, <2>2, <2>3, <2>4 DEF Leaves
<1> QED  BY <1>2, <1>3

\* Of a row that is put while none has overlapped the limit was checked.
LEMMA SerialIds ==
    ASSUME Base, ChecksHold, NEW c \in Clients, Leaves(c) \/ Fail(c), ~raced',
           NEW a \in Accounts, NEW k \in LimitedRows, Package[k] # 0,
           ~raced => Cardinality(RowIds(a, k)) <= Package[k]
    PROVE  Cardinality(RowIds(a, k)') <= Package[k]
<1>0. Typed /\ TableOf(k) \in Tables /\ k \in Limited  BY LimitedTables DEF Base, LimitedRows
<1>1. /\ IsFiniteSet(RowIds(a, k)) /\ Cardinality(RowIds(a, k)) = Cardinality(UsedRows(a, k))
      /\ Cardinality(RowIds(a, k)) \in Nat /\ Package[k] \in Nat
  BY <1>0, UsedAreRows, PackageIsNat
<1>2. ~raced
  <2>1. raced \in BOOLEAN  BY <1>0 DEF Typed
  <2>2. CASE Fail(c)  BY <2>2 DEF Fail
  <2>3. CASE Leaves(c)  BY <1>0, <2>1, <2>3, LeavesMovesOn DEF Continue
  <2> QED  BY <2>2, <2>3
<1>3. Cardinality(RowIds(a, k)) <= Package[k]  BY <1>2
<1>4. CASE RowIds(a, k)' \subseteq RowIds(a, k)
  <2>1. PICK S : S = RowIds(a, k)'  OBVIOUS
  <2>2. Cardinality(S) <= Cardinality(RowIds(a, k)) /\ Cardinality(S) \in Nat
    BY <1>1, <1>4, <2>1, FS_Subset, FS_CardinalityType
  <2> QED  BY <1>1, <1>3, <2>1, <2>2
<1>5. CASE rows'[TableOf(k)] \subseteq rows[TableOf(k)]
  <2>1. RowIds(a, k)' \subseteq RowIds(a, k)
    <3>1. ASSUME NEW i \in RowIds(a, k)'  PROVE i \in RowIds(a, k)  BY <1>5, <3>1, RowIdsAre
    <3> QED  BY <3>1
  <2> QED  BY <1>4, <2>1
<1>6. ASSUME NEW t, NEW x, NEW users, Stores(c, t, x, users)
      PROVE  Cardinality(RowIds(a, k)') <= Package[k]
  <2>1. /\ x.acc = req[c].acc
        /\ (\E y \in rows[t] : SameRow(t, y, x)) \/ NewChecked(x.acc, t, x)
        /\ req[c].how = "createWithUser" => EnforceCountLimit(x.acc, "dbuser")
    BY <1>6, StoresChecked
  <2>2. ASSUME Cardinality(UsedRows(a, k)) < Package[k],
               RowIds(a, k)' \subseteq RowIds(a, k) \cup {x.id}
        PROVE  Cardinality(RowIds(a, k)') <= Package[k]
    <3>1. PICK S : S = RowIds(a, k)'  OBVIOUS
    <3>2. /\ IsFiniteSet(RowIds(a, k) \cup {x.id})
          /\ Cardinality(RowIds(a, k) \cup {x.id}) <= Cardinality(RowIds(a, k)) + 1
          /\ Cardinality(RowIds(a, k) \cup {x.id}) \in Nat
      BY <1>1, FS_AddElement, FS_CardinalityType
    <3>3. Cardinality(S) <= Cardinality(RowIds(a, k) \cup {x.id}) /\ Cardinality(S) \in Nat
      BY <2>2, <3>1, <3>2, FS_Subset, FS_CardinalityType
    <3> QED  BY <1>1, <2>2, <3>1, <3>2, <3>3
  <2>3. ASSUME ~(RowIds(a, k)' \subseteq RowIds(a, k))
        PROVE  Cardinality(UsedRows(a, k)) < Package[k] /\ RowIds(a, k)' \subseteq RowIds(a, k) \cup {x.id}
    <3>1. \A i \in RowIds(a, k)' : i \in RowIds(a, k) \/ i = x.id  BY <1>6, StoresIds
    <3>2. PICK i \in RowIds(a, k)' : i \notin RowIds(a, k)  BY <2>3
    <3>3. /\ i = x.id /\ x.acc = a
          /\ \/ k = "dbuser" /\ req[c].how = "createWithUser"
             \/ k # "dbuser" /\ TableOf(k) = t /\ Counts(a, k, x)
      BY <1>6, <3>2, StoresIds
    <3>4. CASE k = "dbuser" /\ req[c].how = "createWithUser"
      <4>1. Cardinality(Of(a, "dbuser")) < Package["dbuser"]
        BY <2>1, <3>3, <3>4 DEF EnforceCountLimit, WithinLimit
      <4>2. UsedRows(a, k) = Of(a, "dbuser")
        BY <3>4 DEF UsedRows, Of, TableOf, Counts, DomainKinds
      <4> QED  BY <3>1, <3>4, <4>1, <4>2
    <3>5. CASE k # "dbuser" /\ TableOf(k) = t /\ Counts(a, k, x)
      <4>1. ~\E y \in rows[t] : SameRow(t, y, x)
        <5>1. SUFFICES ASSUME NEW y \in rows[t], SameRow(t, y, x)  PROVE FALSE  OBVIOUS
        <5>2. k \in DomainKinds => t = "domain" /\ y.type = x.type  BY <3>5, <5>1 DEF TableOf, SameRow
        <5>3. y.id = i /\ Counts(a, k, y)  BY <3>3, <3>5, <5>1, <5>2 DEF Counts, SameRow
        <5> QED  BY <3>2, <3>5, <5>1, <5>3, RowIdsAre
      <4>2. NewChecked(a, t, x)  BY <2>1, <3>3, <4>1
      <4>3. CASE k \in DomainKinds
        <5>1. DomainKind(x.type) = k /\ t = "domain"  BY <3>5, <4>3 DEF Counts, TableOf
        <5>2. CountDomains(a, k) < Package[k]
          BY <4>2, <5>1 DEF NewChecked, EnforceDomainLimit, WithinLimit
        <5>3. UsedRows(a, k) = {d \in Of(a, "domain") : DomainKind(d.type) = k}
          BY <3>5, <4>3, <5>1 DEF UsedRows, Of, Counts
        <5> QED  BY <3>1, <5>2, <5>3 DEF CountDomains
      <4>4. CASE k \notin DomainKinds
        <5>1. t = k /\ k \in Counted
          BY <3>5, <4>4 DEF TableOf, Counted, LimitedRows, Limited, DomainKinds
        <5>2. Cardinality(Of(a, k)) < Package[k]  BY <4>2, <5>1 DEF NewChecked, WithinLimit
        <5>3. UsedRows(a, k) = Of(a, k)  BY <4>4 DEF UsedRows, Of, Counts, TableOf
        <5> QED  BY <3>1, <5>2, <5>3
      <4> QED  BY <4>3, <4>4
    <3> QED  BY <3>3, <3>4, <3>5
  <2> QED  BY <1>4, <2>2, <2>3
<1>7. ASSUME NEW t, Drops(c, t)  PROVE rows'[TableOf(k)] \subseteq rows[TableOf(k)]
  BY <1>0, <1>7, DropsRows
<1>8. Ends(c) \/ ListSSH(c) \/ ApplyAuthorizedKeys(c) \/ StoreFile(c) \/ Fail(c) => rows' = rows
  BY DEF Ends, ListSSH, ApplyAuthorizedKeys, StoreFile, Fail
<1> QED  BY <1>5, <1>6, <1>7, <1>8 DEF Leaves

\* A request that passes adds its id to those of the rows and of the other clients.
LEMMA AcceptsIds ==
    ASSUME Base, NEW c \in Clients, Accepts(c), NEW a \in Accounts, NEW k \in LimitedRows, Package[k] # 0,
           Cardinality(RowIds(a, k) \cup HeldIds(a, k)) <= Package[k] + Cardinality(Clients) - 1
    PROVE  /\ RowIds(a, k)' = RowIds(a, k) /\ raced' = raced
           /\ Cardinality(RowIds(a, k)' \cup HeldIds(a, k)') <= Package[k] + Cardinality(Clients) - 1
<1>0. Typed /\ TableOf(k) \in Tables /\ k \in Limited  BY LimitedTables DEF Base, LimitedRows
<1>1. PICK b, t, how, x : \E key \in Keys \cup {NoKey} : Passed(b, t, how, x) /\ Accept(c, b, t, how, x, key)
  BY DEF Accepts
<1>2. /\ Passed(b, t, how, x) /\ req'[c] # Idle /\ req'[c].step = "commit" /\ req'[c].kind = t
      /\ req'[c].how = how /\ req'[c].row = x
      /\ \A d \in Clients \ {c} : req'[d] = req[d]
      /\ rows' = rows /\ raced' = raced
  BY <1>0, <1>1, AcceptedRequest
<1>3. RowIds(a, k)' = RowIds(a, k)  BY <1>2 DEF RowIds, UsedRows, Counts
<1>4. /\ IsFiniteSet(RowIds(a, k)) /\ Cardinality(RowIds(a, k)) = Cardinality(UsedRows(a, k))
      /\ Cardinality(RowIds(a, k)) \in Nat /\ Package[k] \in Nat
      /\ Cardinality(Clients) \in Nat
  BY <1>0, UsedAreRows, PackageIsNat
<1>5. \A d \in Clients \ {c} : Puts(d, a, k)' <=> Puts(d, a, k)
  BY <1>2 DEF Puts, Holds, Counts
<1>6. PICK S : S = RowIds(a, k)' \cup HeldIds(a, k)'  OBVIOUS
<1>7. CASE Puts(c, a, k)' => x.id \in RowIds(a, k)
  <2>1. ASSUME NEW i \in HeldIds(a, k)'  PROVE i \in RowIds(a, k) \cup HeldIds(a, k)
    <3>1. PICK d \in Clients : Puts(d, a, k)' /\ req'[d].row.id = i  BY <2>1, RowIdsAre
    <3>2. CASE d = c  BY <1>2, <1>7, <3>1, <3>2
    <3>3. CASE d # c  BY <1>2, <1>5, <3>1, <3>3, RowIdsAre
    <3> QED  BY <3>2, <3>3
  <2>2. S \subseteq RowIds(a, k) \cup HeldIds(a, k)  BY <1>3, <1>6, <2>1
  <2>3. IsFiniteSet(HeldIds(a, k))  BY HeldByClients DEF HeldIds
  <2>4. IsFiniteSet(RowIds(a, k) \cup HeldIds(a, k))  BY <1>4, <2>3, FS_Union
  <2>5. Cardinality(S) <= Cardinality(RowIds(a, k) \cup HeldIds(a, k)) /\ Cardinality(S) \in Nat
        /\ Cardinality(RowIds(a, k) \cup HeldIds(a, k)) \in Nat
    BY <2>2, <2>4, FS_Subset, FS_CardinalityType
  <2> QED  BY <1>2, <1>3, <1>4, <1>6, <2>5
<1>8. CASE Puts(c, a, k)' /\ x.id \notin RowIds(a, k)
  <2>1. Cardinality(UsedRows(a, k)) < Package[k]
    <3>1. CASE k = "dbuser"
      <4>1. t = "db" /\ how = "createWithUser" /\ x.acc = a  BY <1>2, <1>8, <3>1 DEF Puts, Holds
      <4>2. b = a /\ EnforceCountLimit(a, "dbuser")  BY <1>2, <4>1 DEF Passed, Named, Tables
      <4>3. UsedRows(a, k) = Of(a, "dbuser")  BY <3>1 DEF UsedRows, Of, TableOf, Counts, DomainKinds
      <4> QED  BY <3>1, <4>2, <4>3 DEF EnforceCountLimit, WithinLimit
    <3>2. CASE k # "dbuser"
      <4>1. t = TableOf(k) /\ Counts(a, k, x)  BY <1>2, <1>8, <3>2 DEF Puts, Holds, Counts
      <4>2. t \in Named  BY <1>0, <3>2, <4>1 DEF Named, TableOf
      <4>3. /\ x.acc = b /\ b = a
            /\ (\E y \in rows[t] : SameRow(t, y, x)) \/ NewChecked(a, t, x)
        BY <1>2, <4>1, <4>2 DEF Passed, Counts
      <4>4. ~\E y \in rows[t] : SameRow(t, y, x)
        <5>1. SUFFICES ASSUME NEW y \in rows[t], SameRow(t, y, x)  PROVE FALSE  OBVIOUS
        <5>2. k \in DomainKinds => t = "domain" /\ y.type = x.type  BY <4>1, <5>1 DEF TableOf, SameRow
        <5>3. y.id = x.id /\ Counts(a, k, y)  BY <4>1, <5>1, <5>2 DEF Counts, SameRow
        <5> QED  BY <1>8, <4>1, <5>1, <5>3, RowIdsAre
      <4>5. NewChecked(a, t, x)  BY <4>3, <4>4
      <4>6. CASE k \in DomainKinds
        <5>1. DomainKind(x.type) = k /\ t = "domain"  BY <4>1, <4>6 DEF Counts, TableOf
        <5>2. CountDomains(a, k) < Package[k]
          BY <4>5, <5>1 DEF NewChecked, EnforceDomainLimit, WithinLimit
        <5>3. UsedRows(a, k) = {d \in Of(a, "domain") : DomainKind(d.type) = k}
          BY <4>1, <4>6, <5>1 DEF UsedRows, Of, Counts
        <5> QED  BY <5>2, <5>3 DEF CountDomains
      <4>7. CASE k \notin DomainKinds
        <5>1. t = k /\ k \in Counted
          BY <3>2, <4>1, <4>7 DEF TableOf, Counted, LimitedRows, Limited, DomainKinds
        <5>2. Cardinality(Of(a, k)) < Package[k]  BY <4>5, <5>1 DEF NewChecked, WithinLimit
        <5>3. UsedRows(a, k) = Of(a, k)  BY <4>7 DEF UsedRows, Of, Counts, TableOf
        <5> QED  BY <5>2, <5>3
      <4> QED  BY <4>6, <4>7
    <3> QED  BY <3>1, <3>2
  <2>2. PICK H : H = HeldIds(a, k)'  OBVIOUS
  <2>3. H = {req'[d].row.id : d \in {e \in Clients : Puts(e, a, k)'}}  BY <2>2 DEF HeldIds
  <2>4. IsFiniteSet(H) /\ Cardinality(H) \in Nat /\ Cardinality(H) <= Cardinality(Clients)
    BY <2>3, HeldByClients
  <2>5. S = RowIds(a, k) \cup H  BY <1>3, <1>6, <2>2
  <2>6. /\ Cardinality(S) = Cardinality(RowIds(a, k)) + Cardinality(H) - Cardinality(RowIds(a, k) \cap H)
        /\ IsFiniteSet(RowIds(a, k) \cap H)
    BY <1>4, <2>4, <2>5, FS_Union, FS_Intersection
  <2>7. Cardinality(RowIds(a, k) \cap H) \in Nat  BY <2>6, FS_CardinalityType
  <2>8. Cardinality(S) <= Package[k] + Cardinality(Clients) - 1  BY <1>4, <2>1, <2>4, <2>6, <2>7
  <2> QED  BY <1>2, <1>3, <1>6, <2>8
<1> QED  BY <1>7, <1>8

\* The disk: a request that passed the quota may still write.
LEMMA DiskOn ==
    ASSUME Base, ChecksHold, NEW c \in Clients, Accepts(c) \/ Leaves(c) \/ Fail(c),
           NEW a \in Accounts, Package["disk"] # 0,
           disk[a] + Cardinality(Writers(a)) <= Package["disk"] + Cardinality(Clients) - 1,
           ~raced => disk[a] <= Package["disk"]
    PROVE  /\ disk'[a] + Cardinality(Writers(a)') <= Package["disk"] + Cardinality(Clients) - 1
           /\ ~raced' => disk'[a] <= Package["disk"]
<1>0. /\ Typed /\ "disk" \in Limited /\ disk[a] \in Nat /\ raced \in BOOLEAN
  BY DEF Base, Typed, Limited
<1>1. Package["disk"] \in Nat /\ Cardinality(Clients) \in Nat /\ IsFiniteSet(Clients)
  BY <1>0, PackageIsNat
<1>2. IsFiniteSet(Writers(a)) /\ Cardinality(Writers(a)) \in Nat
  BY <1>1, FS_Subset, FS_CardinalityType DEF Writers
<1>3. PICK W : W = Writers(a)'  OBVIOUS
<1>4. W \subseteq Clients  BY <1>3 DEF Writers
<1>5. IsFiniteSet(W) /\ Cardinality(W) \in Nat /\ Cardinality(W) <= Cardinality(Clients)
  BY <1>1, <1>4, FS_Subset, FS_CardinalityType
<1>6. CASE Leaves(c) \/ Fail(c)
  <2>1. MovedOn(c)  BY <1>0, <1>6, AllMoveOn
  <2>2. W \subseteq Writers(a) \ {c}
    <3>1. ASSUME NEW d \in W  PROVE d \in Writers(a) /\ d # c
      <4>1. /\ d \in Clients /\ req'[d] # Idle /\ req'[d].step = "commit" /\ req'[d].acc = a
            /\ req'[d].kind = "disk" /\ req'[d].how = "write"
        BY <1>3, <3>1 DEF Writers
      <4>2. d # c  BY <2>1, <4>1 DEF MovedOn
      <4>3. Kept(d)  BY <2>1, <4>1, <4>2 DEF MovedOn
      <4> QED  BY <4>1, <4>2, <4>3 DEF Kept, Writers
    <3> QED  BY <3>1
  <2>3. /\ IsFiniteSet(Writers(a) \ {c}) /\ Cardinality(Writers(a) \ {c}) \in Nat
        /\ Cardinality(Writers(a) \ {c}) = IF c \in Writers(a) THEN Cardinality(Writers(a)) - 1
                                           ELSE Cardinality(Writers(a))
    BY <1>2, FS_RemoveElement, FS_CardinalityType
  <2>4. Cardinality(W) <= Cardinality(Writers(a) \ {c})  BY <2>2, <2>3, FS_Subset
  <2>5. raced => raced'
    <3>1. CASE Fail(c)  BY <3>1 DEF Fail
    <3>2. CASE Leaves(c)  BY <1>0, <3>2, LeavesMovesOn DEF Continue
    <3> QED  BY <1>6, <3>1, <3>2
  <2>6. CASE disk'[a] <= disk[a] /\ disk'[a] \in Nat
    <3>1. disk'[a] + Cardinality(W) <= Package["disk"] + Cardinality(Clients) - 1
      BY <1>0, <1>1, <1>2, <1>5, <2>3, <2>4, <2>6
    <3>2. ~raced' => disk'[a] <= Package["disk"]  BY <1>0, <1>1, <2>5, <2>6
    <3> QED  BY <1>3, <3>1, <3>2
  <2>7. CASE StoreFile(c)
    <3>1. /\ req[c] # Idle /\ req[c].step = "commit" /\ req[c].kind = "disk"
          /\ disk' = [disk EXCEPT ![req[c].acc] = IF req[c].how = "write" THEN @ + 1
                                                  ELSE IF @ = 0 THEN 0 ELSE @ - 1]
          /\ raced' = (raced \/ req[c].stale)
      BY <2>7 DEF StoreFile, Commits, Over, Continue
    <3>2. disk \in [Accounts -> Nat]  BY <1>0 DEF Typed
    <3>3. CASE req[c].acc = a /\ req[c].how = "write"
      <4>1. disk'[a] = disk[a] + 1  BY <3>1, <3>2, <3>3
      <4>2. c \in Writers(a)  BY <3>1, <3>3 DEF Writers
      <4>3. disk'[a] + Cardinality(W) <= Package["disk"] + Cardinality(Clients) - 1
        BY <1>0, <1>1, <1>2, <1>5, <2>3, <2>4, <4>1, <4>2
      <4>4. ASSUME ~raced'  PROVE disk'[a] <= Package["disk"]
        <5>1. Checked(a, "disk", "write", req[c].row)  BY <3>1, <3>3, <4>4 DEF ChecksHold
        <5>2. disk[a] + 1 <= Package["disk"]  BY <5>1 DEF Checked, EnforceDiskQuota
        <5> QED  BY <4>1, <5>2
      <4> QED  BY <1>3, <4>3, <4>4
    <3>4. CASE ~(req[c].acc = a /\ req[c].how = "write")
      <4>1. disk'[a] = disk[a] \/ (disk'[a] = IF disk[a] = 0 THEN 0 ELSE disk[a] - 1)
        BY <3>1, <3>2, <3>4
      <4>2. disk'[a] <= disk[a] /\ disk'[a] \in Nat  BY <1>0, <4>1
      <4> QED  BY <2>6, <4>2
    <3> QED  BY <3>3, <3>4
  <2>8. ASSUME ~StoreFile(c)  PROVE disk' = disk
    BY <1>6, <2>8 DEF Leaves, Stores, Drops, Ends, ListSSH, ApplyAuthorizedKeys, Fail
  <2>9. CASE ~StoreFile(c)
    <3>1. disk'[a] <= disk[a] /\ disk'[a] \in Nat  BY <1>0, <2>8, <2>9
    <3> QED  BY <2>6, <3>1
  <2> QED  BY <2>7, <2>9
<1>7. CASE Accepts(c)
  <2>1. PICK b, t, how, x : \E key \in Keys \cup {NoKey} : Passed(b, t, how, x) /\ Accept(c, b, t, how, x, key)
    BY <1>7 DEF Accepts
  <2>2. /\ Passed(b, t, how, x) /\ req[c] = Idle /\ req'[c] # Idle /\ req'[c].step = "commit"
        /\ req'[c].kind = t /\ req'[c].how = how /\ req'[c].acc = b
        /\ \A d \in Clients \ {c} : req'[d] = req[d]
        /\ disk' = disk /\ raced' = raced
    BY <1>0, <2>1, AcceptedRequest
  <2>3. CASE b = a /\ t = "disk" /\ how = "write"
    <3>1. disk[a] + 1 <= Package["disk"]  BY <2>2, <2>3 DEF Passed, EnforceDiskQuota
    <3>2. disk'[a] + Cardinality(W) <= Package["disk"] + Cardinality(Clients) - 1
      BY <1>0, <1>1, <1>5, <2>2, <3>1
    <3> QED  BY <1>3, <2>2, <3>2
  <2>4. CASE ~(b = a /\ t = "disk" /\ how = "write")
    <3>1. W \subseteq Writers(a)  BY <1>3, <2>2, <2>4 DEF Writers
    <3>2. Cardinality(W) <= Cardinality(Writers(a))  BY <1>2, <3>1, FS_Subset
    <3>3. disk'[a] + Cardinality(W) <= Package["disk"] + Cardinality(Clients) - 1
      BY <1>0, <1>1, <1>2, <1>5, <2>2, <3>2
    <3> QED  BY <1>3, <2>2, <3>3
  <2> QED  BY <2>3, <2>4
<1> QED  BY <1>6, <1>7

\* Every step stays within the package.
LEMMA WithinOn ==
    ASSUME Base, ChecksHold, WithinPackage, NEW c \in Clients, Accepts(c) \/ Leaves(c) \/ Fail(c)
    PROVE  WithinPackage'
<1>1. ASSUME NEW a \in Accounts, NEW k \in LimitedRows, Package[k] # 0
      PROVE  /\ Cardinality(RowIds(a, k)' \cup HeldIds(a, k)') <= Package[k] + Cardinality(Clients) - 1
             /\ ~raced' => Cardinality(RowIds(a, k)') <= Package[k]
  <2>0. k \in Limited  BY DEF LimitedRows
  <2>1. /\ Cardinality(RowIds(a, k) \cup HeldIds(a, k)) <= Package[k] + Cardinality(Clients) - 1
        /\ ~raced => Cardinality(RowIds(a, k)) <= Package[k]
    BY <1>1 DEF WithinPackage
  <2>2. CASE Accepts(c)  BY <1>1, <2>1, <2>2, AcceptsIds
  <2>3. CASE Leaves(c) \/ Fail(c)
    <3>1. PICK S : S = RowIds(a, k)' \cup HeldIds(a, k)'  OBVIOUS
    <3>2. S \subseteq RowIds(a, k) \cup HeldIds(a, k)  BY <2>3, <3>1, IdsShrink
    <3>3. IsFiniteSet(RowIds(a, k) \cup HeldIds(a, k))
      BY UsedAreRows, HeldByClients, FS_Union DEF HeldIds
    <3>4. /\ Cardinality(S) <= Cardinality(RowIds(a, k) \cup HeldIds(a, k)) /\ Cardinality(S) \in Nat
          /\ Cardinality(RowIds(a, k) \cup HeldIds(a, k)) \in Nat
      BY <3>2, <3>3, FS_Subset, FS_CardinalityType
    <3>5. Package[k] \in Nat /\ Cardinality(Clients) \in Nat  BY <2>0, PackageIsNat
    <3>6. Cardinality(S) <= Package[k] + Cardinality(Clients) - 1  BY <2>1, <3>4, <3>5
    <3>7. ~raced' => Cardinality(RowIds(a, k)') <= Package[k]  BY <1>1, <2>1, <2>3, SerialIds
    <3> QED  BY <3>1, <3>6, <3>7
  <2> QED  BY <2>2, <2>3
<1>2. ASSUME NEW a \in Accounts, Package["disk"] # 0
      PROVE  /\ disk'[a] + Cardinality(Writers(a)') <= Package["disk"] + Cardinality(Clients) - 1
             /\ ~raced' => disk'[a] <= Package["disk"]
  <2>1. /\ disk[a] + Cardinality(Writers(a)) <= Package["disk"] + Cardinality(Clients) - 1
        /\ ~raced => disk[a] <= Package["disk"]
    BY <1>2 DEF WithinPackage
  <2> QED  BY <1>2, <2>1, DiskOn
<1> QED  BY <1>1, <1>2 DEF WithinPackage

\* The accounts begin within their package.
LEMMA InitWithin ==
    ASSUME Init
    PROVE  WithinPackage
<1>0. Base  BY InitBase
<1>1. ASSUME NEW a \in Accounts, NEW k \in LimitedRows, Package[k] # 0
      PROVE  /\ Cardinality(RowIds(a, k) \cup HeldIds(a, k)) <= Package[k] + Cardinality(Clients) - 1
             /\ Cardinality(RowIds(a, k)) <= Package[k]
  <2>0. /\ k \in Limited /\ Package[k] \in Nat /\ Package[k] >= InitiallyUsed(k)
        /\ Cardinality(Clients) \in Nat /\ Cardinality(Clients) >= 1
    BY <1>1, PackageIsNat, RequestsAssumption DEF LimitedRows
  <2>1. HeldIds(a, k) = {}
    <3>1. \A c \in Clients : ~Puts(c, a, k)  BY DEF Init, Puts, Holds
    <3> QED  BY <3>1 DEF HeldIds
  <2>2. Cardinality(RowIds(a, k)) \in Nat  BY <1>0, UsedAreRows
  <2>3. \A i \in RowIds(a, k) : \E x \in rows[TableOf(k)] : Counts(a, k, x) /\ x.id = i  BY RowIdsAre
  <2>4. Cardinality({a}) = 1 /\ IsFiniteSet({a}) /\ Cardinality({a, 0}) <= 2 /\ IsFiniteSet({a, 0})
        /\ Cardinality({a, 0}) \in Nat
    <3>1. {a, 0} = {a} \cup {0}  OBVIOUS
    <3>2. Cardinality({a}) = 1 /\ IsFiniteSet({a})  BY FS_Singleton
    <3>3. PICK S : S = {a}  OBVIOUS
    <3>4. IsFiniteSet(S) /\ Cardinality(S) = 1  BY <3>2, <3>3
    <3>5. PICK e : e = 0  OBVIOUS
    <3>6. /\ IsFiniteSet(S \cup {e})
          /\ Cardinality(S \cup {e}) = IF e \in S THEN Cardinality(S) ELSE Cardinality(S) + 1
      BY <3>4, FS_AddElement
    <3>7. Cardinality(S \cup {e}) = 1 \/ Cardinality(S \cup {e}) = 2  BY <3>4, <3>6
    <3>8. S \cup {e} = {a, 0}  BY <3>1, <3>3, <3>5
    <3>9. IsFiniteSet({a, 0}) /\ (Cardinality({a, 0}) = 1 \/ Cardinality({a, 0}) = 2)
      BY <3>6, <3>7, <3>8, Zenon
    <3>10. \A n : n = 1 \/ n = 2 => n <= 2 /\ n \in Nat  OBVIOUS
    <3> QED  BY <3>2, <3>9, <3>10, Zenon
  <2>5. Cardinality(RowIds(a, k)) <= InitiallyUsed(k)
    <3>1. CASE k \in {"domain", "website"}
      <4>1. TableOf(k) = k /\ k \in Tables  BY <3>1 DEF TableOf, DomainKinds, Tables
      <4>2. RowIds(a, k) \subseteq {a, 0}  BY <2>3, <4>1, InitRow DEF Counts
      <4>3. Cardinality(RowIds(a, k)) <= Cardinality({a, 0})  BY <2>4, <4>2, FS_Subset
      <4>4. InitiallyUsed(k) = 2  BY <3>1 DEF InitiallyUsed
      <4> QED  BY <2>2, <2>4, <4>3, <4>4
    <3>2. CASE k \in {"app", "mailbox", "cron", "ftp"}
      <4>1. TableOf(k) = k  BY <3>2 DEF TableOf, DomainKinds
      <4>2. \A x \in rows[k] : x.id = x.acc  BY <3>2, InitRows
      <4>3. RowIds(a, k) \subseteq {a}  BY <2>3, <4>1, <4>2 DEF Counts
      <4>4. Cardinality(RowIds(a, k)) <= 1  BY <2>4, <4>3, FS_Subset
      <4>5. InitiallyUsed(k) = 1  BY <3>2 DEF InitiallyUsed
      <4> QED  BY <4>4, <4>5
    <3>3. CASE k \in {"subdomain", "alias_domain"}
      <4>1. TableOf(k) = "domain" /\ k \in DomainKinds  BY <3>3 DEF TableOf, DomainKinds
      <4>2. \A x \in rows["domain"] : x.type = "primary" \/ x.type = "addon"  BY InitRows
      <4>3. \A x \in rows["domain"] : DomainKind(x.type) = "domain"  BY <4>2 DEF DomainKind
      <4>4. RowIds(a, k) = {}  BY <2>3, <3>3, <4>1, <4>3 DEF Counts
      <4>5. InitiallyUsed(k) = 0  BY <3>3 DEF InitiallyUsed
      <4> QED  BY <4>4, <4>5, FS_EmptySet
    <3>4. CASE k \in {"db", "dbuser"}
      <4>1. TableOf(k) = k /\ rows[k] = {}  BY <3>4, InitRows DEF TableOf, DomainKinds
      <4>2. RowIds(a, k) = {}  BY <2>3, <4>1
      <4>3. InitiallyUsed(k) = 0  BY <3>4 DEF InitiallyUsed
      <4> QED  BY <4>2, <4>3, FS_EmptySet
    <3> QED  BY <3>1, <3>2, <3>3, <3>4 DEF LimitedRows, Limited
  <2>6. InitiallyUsed(k) \in Nat  BY DEF InitiallyUsed
  <2>7. Cardinality(RowIds(a, k)) <= Package[k]  BY <2>0, <2>2, <2>5, <2>6
  <2>8. RowIds(a, k) \cup HeldIds(a, k) = RowIds(a, k)  BY <2>1
  <2>9. Cardinality(RowIds(a, k)) <= Package[k] + Cardinality(Clients) - 1  BY <2>0, <2>2, <2>7
  <2> QED  BY <2>7, <2>8, <2>9
<1>2. ASSUME NEW a \in Accounts
      PROVE  disk[a] = 0 /\ Cardinality(Writers(a)) = 0
  <2>1. Writers(a) = {}  BY DEF Init, Writers
  <2> QED  BY <2>1, FS_EmptySet DEF Init
<1>3. Package["disk"] \in Nat /\ Cardinality(Clients) \in Nat /\ Cardinality(Clients) >= 1
  BY PackageIsNat DEF Limited
<1> QED  BY <1>1, <1>2, <1>3 DEF WithinPackage

\* The core with the layer of the limits.
LimitsInv == CoreInv /\ WithinPackage

\* The layer of the limits is inductive.
LEMMA LimitsOn ==
    ASSUME LimitsInv, [Next]_vars
    PROVE  LimitsInv'
<1>0. CoreInv /\ Base /\ Typed /\ ChecksHold /\ WithinPackage  BY DEF LimitsInv, CoreInv, Base
<1>1. CoreInv'  BY <1>0, CoreOn
<1>2. CASE Next
  <2>1. PICK c \in Clients : Accepts(c) \/ Leaves(c) \/ Fail(c)  BY <1>0, <1>2, NextForms
  <2> QED  BY <1>0, <1>1, <2>1, WithinOn DEF LimitsInv
<1>3. CASE UNCHANGED vars
  <2>1. rows' = rows /\ req' = req /\ disk' = disk /\ raced' = raced  BY <1>3 DEF vars
  <2>2. ASSUME NEW a \in Accounts, NEW k \in LimitedRows
        PROVE  RowIds(a, k)' = RowIds(a, k) /\ HeldIds(a, k)' = HeldIds(a, k) /\ Writers(a)' = Writers(a)
    <3>1. \A c \in Clients : Puts(c, a, k)' <=> Puts(c, a, k)  BY <2>1 DEF Puts, Holds, Counts
    <3> QED  BY <2>1, <3>1 DEF RowIds, UsedRows, Counts, HeldIds, Writers
  <2>3. \A a \in Accounts : Writers(a)' = Writers(a)  BY <2>1 DEF Writers
  <2>4. WithinPackage'  BY <1>0, <2>1, <2>2, <2>3 DEF WithinPackage
  <2> QED  BY <1>1, <2>4 DEF LimitsInv
<1> QED  BY <1>2, <1>3

\* The ids of the rows that count against a limit, with those that requests may
\* still put there, exceed it by no more than the clients beyond one (api.go,
\* enforceCountLimit before the transaction).
THEOREM LimitsHold == Spec => []LimitsInv
<1>1. Init => LimitsInv  BY InitBase, InitWithin DEF LimitsInv, CoreInv
<1>2. LimitsInv /\ [Next]_vars => LimitsInv'  BY LimitsOn
<1> QED  BY <1>1, <1>2, PTL DEF Spec

\* The layer of the limits implies the property.
LEMMA UsedWithin ==
    ASSUME LimitsInv
    PROVE  OvershootOnlyByOverlap
<1>0. Base /\ Typed /\ WithinPackage /\ DOMAIN Package = Limited
  BY RequestsAssumption DEF LimitsInv, CoreInv, Base
<1>1. Cardinality(Clients) \in Nat /\ Cardinality(Clients) >= 1  BY PackageIsNat
<1>2. ASSUME NEW a \in Accounts, NEW k \in Limited, Package[k] # 0
      PROVE  /\ Used(a, k) <= Package[k] + Cardinality(Clients) - 1
             /\ ~raced => Used(a, k) <= Package[k]
  <2>0. Package[k] \in Nat  BY PackageIsNat
  <2>1. CASE k = "disk"
    <3>1. /\ disk[a] + Cardinality(Writers(a)) <= Package["disk"] + Cardinality(Clients) - 1
          /\ ~raced => disk[a] <= Package["disk"]
      BY <1>0, <1>2, <2>1 DEF WithinPackage
    <3>2. Cardinality(Writers(a)) \in Nat  BY PackageIsNat, FS_Subset, FS_CardinalityType DEF Writers
    <3>3. disk[a] \in Nat  BY <1>0 DEF Typed
    <3> QED  BY <1>1, <2>0, <2>1, <3>1, <3>2, <3>3 DEF Used
  <2>2. CASE k # "disk"
    <3>0. k \in LimitedRows  BY <2>2 DEF LimitedRows
    <3>1. UsedRows(a, k) = IF k \in DomainKinds THEN {d \in Of(a, "domain") : DomainKind(d.type) = k}
                           ELSE Of(a, k)
      BY DEF UsedRows, Of, Counts, TableOf
    <3>2. Used(a, k) = Cardinality(UsedRows(a, k))
      BY <2>2, <3>1 DEF Used, CountDomains, DomainKinds
    <3>3. /\ Cardinality(RowIds(a, k) \cup HeldIds(a, k)) <= Package[k] + Cardinality(Clients) - 1
          /\ ~raced => Cardinality(RowIds(a, k)) <= Package[k]
      BY <1>0, <1>2, <3>0 DEF WithinPackage
    <3>4. /\ IsFiniteSet(RowIds(a, k)) /\ Cardinality(RowIds(a, k)) \in Nat
          /\ Cardinality(RowIds(a, k)) = Cardinality(UsedRows(a, k))
      BY <1>0, <3>0, UsedAreRows
    <3>5. IsFiniteSet(RowIds(a, k) \cup HeldIds(a, k))  BY <3>4, HeldByClients, FS_Union DEF HeldIds
    <3>6. /\ Cardinality(RowIds(a, k)) <= Cardinality(RowIds(a, k) \cup HeldIds(a, k))
          /\ Cardinality(RowIds(a, k) \cup HeldIds(a, k)) \in Nat
      BY <3>5, FS_Subset, FS_CardinalityType
    <3> QED  BY <1>1, <2>0, <3>2, <3>3, <3>4, <3>6
  <2> QED  BY <2>1, <2>2
<1>3. ASSUME NEW a \in Accounts, NEW k \in DOMAIN Package, Package[k] # 0
      PROVE  Used(a, k) <= Package[k] + IF raced THEN Cardinality(Clients) - 1 ELSE 0
  <2>1. k \in Limited /\ Package[k] \in Nat  BY <1>0, <1>3, PackageIsNat
  <2>2. CASE raced  BY <1>2, <1>3, <2>1, <2>2
  <2>3. CASE ~raced  BY <1>2, <1>3, <2>1, <2>3
  <2> QED  BY <2>2, <2>3
<1> QED  BY <1>3 DEF OvershootOnlyByOverlap

\* The limits of a package are checked before the transaction, and no lock is held
\* in between.  Whatever overlaps, an account has at most as many resources above
\* a limit as requests beyond one can be in progress; while none overlapped it has
\* none above.
THEOREM Overshoot == Spec => []OvershootOnlyByOverlap
<1>1. LimitsInv => OvershootOnlyByOverlap  BY UsedWithin
<1> QED  BY <1>1, LimitsHold, PTL

(***************************************************************************)
(* The type invariant; the number of a job is its place.                   *)
(***************************************************************************)

JobsNumbered == IsFiniteSet(jobs) /\ \A j \in jobs : j.n \in 1 .. Cardinality(jobs)

\* A step leaves the jobs what they are, or inserts one.
LEMMA JobsStep ==
    ASSUME Typed, Next
    PROVE  jobs' = jobs \/ \E c \in Clients : jobs' = jobs \cup {NewJob(req[c])}
<1>1. PICK c \in Clients : Accepts(c) \/ Leaves(c) \/ Fail(c)  BY NextForms
<1>2. CASE Accepts(c)  BY <1>2, AcceptedRequest DEF Accepts
<1>3. CASE Leaves(c) \/ Fail(c)
  BY <1>3 DEF Leaves, Stores, Drops, Ends, JobsGrow, JobsSame, ListSSH, ApplyAuthorizedKeys, StoreFile, Fail
<1> QED  BY <1>1, <1>2, <1>3

\* Jobs are numbered by their place.
LEMMA NumbersOn ==
    ASSUME Typed, JobsNumbered, [Next]_vars
    PROVE  JobsNumbered'
<1>1. CASE jobs' = jobs  BY <1>1 DEF JobsNumbered
<1>2. ASSUME NEW c \in Clients, jobs' = jobs \cup {NewJob(req[c])}  PROVE JobsNumbered'
  <2>1. PICK job : job = NewJob(req[c])  OBVIOUS
  <2>2. job.n = Cardinality(jobs) + 1  BY <2>1 DEF NewJob
  <2>3. IsFiniteSet(jobs) /\ Cardinality(jobs) \in Nat  BY FS_CardinalityType DEF JobsNumbered
  <2>4. \A j \in jobs : j.n \in 1 .. Cardinality(jobs)  BY DEF JobsNumbered
  <2>5. job \notin jobs  BY <2>2, <2>3, <2>4
  <2>6. IsFiniteSet(jobs \cup {job}) /\ Cardinality(jobs \cup {job}) = Cardinality(jobs) + 1
    BY <2>3, <2>5, FS_AddElement
  <2>7. \A j \in jobs \cup {job} : j.n \in 1 .. Cardinality(jobs) + 1  BY <2>2, <2>3, <2>4
  <2>8. jobs' = jobs \cup {job}  BY <1>2, <2>1
  <2> QED  BY <2>6, <2>7, <2>8 DEF JobsNumbered
<1>3. CASE UNCHANGED vars  BY <1>1, <1>3 DEF vars
<1> QED  BY <1>1, <1>2, <1>3, JobsStep

\* The handlers store rows of the types of domain.go, with the statuses and the
\* revisions they write, of known accounts, and every audit event is of a job.
THEOREM RequestsTypeCorrect == Spec => []TypeOK
<1>1. Init => JobsNumbered
  <2>1. Init => jobs = {}  BY DEF Init
  <2> QED  BY <2>1, FS_EmptySet DEF JobsNumbered
<1>2. CoreInv /\ JobsNumbered /\ [Next]_vars => JobsNumbered'  BY NumbersOn DEF CoreInv, Base
<1>3. CoreInv /\ JobsNumbered => TypeOK
  <2>1. SUFFICES ASSUME CoreInv, JobsNumbered  PROVE TypeOK  OBVIOUS
  <2>2. Typed /\ audits = {j.n : j \in jobs}
    BY <2>1 DEF CoreInv, Base, Whole, RequestCommitsWhole, ChangeHasJob
  <2>3. audits \subseteq 1 .. Cardinality(jobs)  BY <2>1, <2>2 DEF JobsNumbered
  <2>4. \A k \in Tables : \A x \in rows[k] : TypedRow(k, x)  BY <2>2 DEF Typed
  <2>5. /\ rows["domain"] \subseteq Domain /\ rows["website"] \subseteq Website
        /\ rows["app"] \subseteq Application /\ rows["db"] \subseteq HostedDatabase
        /\ rows["maildomain"] \subseteq MailDomain /\ rows["mailbox"] \subseteq Mailbox
        /\ rows["alias"] \subseteq MailAlias /\ rows["ftp"] \subseteq FTPAccount
        /\ rows["cron"] \subseteq CronJob /\ rows["dbuser"] \subseteq CronJob
    BY <2>4 DEF TypedRow, Tables
  <2> QED  BY <2>2, <2>3, <2>5 DEF TypeOK, Typed
<1> QED  BY <1>1, <1>2, <1>3, CoreHolds, PTL DEF Spec
=============================================================================
