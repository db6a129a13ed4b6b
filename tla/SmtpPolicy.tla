------------------------------ MODULE SmtpPolicy ------------------------------
(***************************************************************************)
(* The daily limit on sent mail: Postfix asks panel-smtp-policy about each *)
(* message, on one connection per question (cmd/panel-smtp-policy), and a  *)
(* handler counts the message in a file per account and day under flock    *)
(* (internal/mail/policy.go).  The count is rewritten in place: truncated, *)
(* then written.  Every error is answered with DUNNO, so that mail goes    *)
(* out when the service is broken.                                         *)
(***************************************************************************)
EXTENDS Integers, FiniteSets

CONSTANTS Handlers,      \* connections
          Days,          \* consecutive days, as numbers
          Limit,         \* email_daily_limit of the account; 0: none
          MaxMessages    \* bound: messages of a day

VARIABLES today,      \* the day
          count,      \* count[d]: the file of the day; 0: absent or empty
          lock,       \* lock[d]: the handler that has the file's lock
          handlers,   \* each handler's step, its day and the count it read
          asked,      \* asked[d]: messages of the day Postfix asked about
          sent,       \* history, sent[d]: messages of the day let through
          refused,    \* history, refused[d]: messages of the day refused
          broken      \* history: days on which a handler died or failed

vars == <<today, count, lock, handlers, asked, sent, refused, broken>>

Free == "free"

ASSUME PolicyAssumption ==
    /\ IsFiniteSet(Handlers) /\ Free \notin Handlers
    /\ Days \subseteq Int /\ Limit \in Int /\ MaxMessages \in Nat

Steps == {"idle", "lookup", "open", "scan", "truncate", "write", "decide"}

TypeOK ==
    /\ today \in Days
    /\ count \in [Days -> Nat]
    /\ lock \in [Days -> Handlers \cup {Free}]
    /\ handlers \in [Handlers -> [pc : Steps, day : Days, n : Nat]]
    /\ asked \in [Days -> 0..MaxMessages]
    /\ sent \in [Days -> Nat] /\ refused \in [Days -> Nat]
    /\ broken \subseteq Days

Idle(d) == [pc |-> "idle", day |-> d, n |-> 0]

Init ==
    /\ today \in {d \in Days : \A e \in Days : d <= e}
    /\ count = [d \in Days |-> 0]
    /\ lock = [d \in Days |-> Free]
    /\ handlers = [h \in Handlers |-> Idle(today)]
    /\ asked = [d \in Days |-> 0]
    /\ sent = [d \in Days |-> 0] /\ refused = [d \in Days |-> 0]
    /\ broken = {}

Move(h, step) == handlers' = [handlers EXCEPT ![h].pc = step]
Unlock(h) == lock' = [lock EXCEPT ![handlers[h].day] =
                          IF @ = h THEN Free ELSE @]

\* Dunno and Reject answer Postfix; the deferred calls drop the lock.
Dunno(h) ==
    /\ handlers' = [handlers EXCEPT ![h] = Idle(today)]
    /\ sent' = [sent EXCEPT ![handlers[h].day] = @ + 1]
    /\ Unlock(h)
    /\ UNCHANGED refused
Reject(h) ==
    /\ handlers' = [handlers EXCEPT ![h] = Idle(today)]
    /\ refused' = [refused EXCEPT ![handlers[h].day] = @ + 1]
    /\ Unlock(h)
    /\ UNCHANGED sent

\* handle: the question is read, and time.Now() taken.
Ask(h) ==
    /\ handlers[h].pc = "idle" /\ asked[today] < MaxMessages
    /\ handlers' = [handlers EXCEPT ![h] =
                        [pc |-> "lookup", day |-> today, n |-> 0]]
    /\ asked' = [asked EXCEPT ![today] = @ + 1]
    /\ UNCHANGED <<today, count, lock, sent, refused, broken>>

\* Decide, up to bumpCount: the sender has a row in the send-limits map, and
\* the row has a limit.
LookupLimit(h) ==
    /\ handlers[h].pc = "lookup"
    /\ \/ Limit > 0 /\ Move(h, "open") /\ UNCHANGED <<lock, sent, refused>>
       \/ Limit <= 0 /\ Dunno(h)
    /\ UNCHANGED <<today, count, asked, broken>>

\* Mutant: the file is read without its lock.
OpenUnlocked(h) ==
    /\ handlers[h].pc = "open"
    /\ Move(h, "scan")
    /\ UNCHANGED <<today, count, lock, asked, sent, refused, broken>>

\* bumpCount opens the file of its day and waits for the lock.
Open(h) ==
    /\ handlers[h].pc = "open"
    /\ lock[handlers[h].day] = Free
    /\ lock' = [lock EXCEPT ![handlers[h].day] = h]
    /\ Move(h, "scan")
    /\ UNCHANGED <<today, count, asked, sent, refused, broken>>

\* Mutant: the messages of the day before are counted in.
ScanAnyDay(h) ==
    /\ handlers[h].pc = "scan"
    /\ LET d == handlers[h].day
           before == IF d - 1 \in Days THEN count[d - 1] ELSE 0
       IN handlers' = [handlers EXCEPT ![h].pc = "truncate",
                                       ![h].n = before + count[d] + 1]
    /\ UNCHANGED <<today, count, lock, asked, sent, refused, broken>>

\* An empty file, or one that does not parse, counts as zero.
Scan(h) ==
    /\ handlers[h].pc = "scan"
    /\ handlers' = [handlers EXCEPT ![h].pc = "truncate",
                                    ![h].n = count[handlers[h].day] + 1]
    /\ UNCHANGED <<today, count, lock, asked, sent, refused, broken>>

Truncate(h) ==
    /\ handlers[h].pc = "truncate"
    /\ count' = [count EXCEPT ![handlers[h].day] = 0]
    /\ Move(h, "write")
    /\ UNCHANGED <<today, lock, asked, sent, refused, broken>>

\* The new count is written, and the lock dropped as bumpCount returns.
Write(h) ==
    /\ handlers[h].pc = "write"
    /\ count' = [count EXCEPT ![handlers[h].day] = handlers[h].n]
    /\ Move(h, "decide")
    /\ Unlock(h)
    /\ UNCHANGED <<today, asked, sent, refused, broken>>

\* Decide compares the count, this message included, with the limit.
Decide(h) ==
    /\ handlers[h].pc = "decide"
    /\ IF handlers[h].n > Limit THEN Reject(h) ELSE Dunno(h)
    /\ UNCHANGED <<today, count, asked, broken>>

\* A system call of bumpCount fails; the message goes out.
Fail(h) ==
    /\ handlers[h].pc \in {"lookup", "open", "scan", "truncate", "write"}
    /\ Dunno(h)
    /\ broken' = broken \cup {handlers[h].day}
    /\ UNCHANGED <<today, count, asked>>

\* panel-smtp-policy dies: Postfix gets no answer, the locks are dropped and
\* the service starts again.
Crash ==
    /\ \E h \in Handlers : handlers[h].pc # "idle"
    /\ broken' = broken \cup {handlers[h].day : h \in
                                 {g \in Handlers : handlers[g].pc # "idle"}}
    /\ handlers' = [h \in Handlers |-> Idle(today)]
    /\ lock' = [d \in Days |-> Free]
    /\ UNCHANGED <<today, count, asked, sent, refused>>

Midnight ==
    /\ today + 1 \in Days
    /\ today' = today + 1
    /\ UNCHANGED <<count, lock, handlers, asked, sent, refused, broken>>

Next == \/ Crash \/ Midnight
        \/ \E h \in Handlers : \/ Ask(h) \/ LookupLimit(h) \/ Open(h) \/ Scan(h)
                               \/ Truncate(h) \/ Write(h) \/ Decide(h) \/ Fail(h)

Spec == Init /\ [][Next]_vars

-----------------------------------------------------------------------------
\* Handlers that race for the file never let more than the limit of a day
\* through, unless a handler died or failed that day.
WithinDailyLimit ==
    \A d \in Days \ broken : Limit > 0 => sent[d] <= Limit

\* A message is refused only when the limit of its own day is used up by
\* messages of that day, crashes and failures included: they lower a count.
RefusedOnlyOverLimit ==
    \A d \in Days : refused[d] > 0 => asked[d] > Limit

\* Handlers that race for the count of a day, over midnight, let no more than
\* the limit through unless one of them died or failed that day, and refuse a
\* message only when those of its own day used the limit up (policy.go,
\* bumpCount, Decide).
DailyLimitKept == WithinDailyLimit /\ RefusedOnlyOverLimit
=============================================================================
