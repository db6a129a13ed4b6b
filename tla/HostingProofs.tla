---------------------------- MODULE HostingProofs ----------------------------
(***************************************************************************)
(* Proofs about the hosted services, for any domains, logins, accounts,    *)
(* months and bounds: the sending limits of SmtpPolicy, then the inductive *)
(* invariant of each part of Hosting, that of the sites being proved in    *)
(* HostingSiteProofs, then the parts side by side.                         *)
(***************************************************************************)
EXTENDS HostingSiteProofs

-----------------------------------------------------------------------------
(* The sending limits.                                                     *)

Handler == [pc : Steps, day : Days, n : Nat]

\* The handlers of a day whose message is asked about and not in the count yet,
\* and those whose message is in the count and will be let through.
Uncounted == {"lookup", "open", "scan", "truncate", "write"}
Pending(d) == {h \in Handlers : handlers[h].day = d /\ handlers[h].pc \in Uncounted}
Passing(d) == {h \in Handlers : /\ handlers[h].day = d /\ handlers[h].pc = "decide"
                                /\ handlers[h].n <= Limit}

\* bumpCount reads and rewrites the file under its lock.
LockHeld == \A h \in Handlers :
    handlers[h].pc \in {"scan", "truncate", "write"} => lock[handlers[h].day] = h

\* No message is counted that was not asked about: what the file says, or will
\* say, is at most the messages of the day that are not still to be counted.
CountAsked ==
    /\ \A d \in Days : count[d] + Cardinality(Pending(d)) <= asked[d]
    /\ \A h \in Handlers : LET d == handlers[h].day IN
          /\ handlers[h].pc \in {"truncate", "write"} =>
                handlers[h].n + Cardinality(Pending(d)) <= asked[d] + 1
          /\ handlers[h].pc = "decide" => handlers[h].n <= asked[d]

\* On a day without faults, the messages let through and those that will be are
\* within the limit and in the count, which is in the file or, while the file is
\* rewritten, with the handler that has the lock.
LetThrough(d) == sent[d] + Cardinality(Passing(d))
SentCounted == Limit > 0 => \A d \in Days \ broken :
    /\ LetThrough(d) <= Limit
    /\ (\A h \in Handlers : handlers[h].day = d => handlers[h].pc # "write") =>
          LetThrough(d) <= count[d]
    /\ \A h \in Handlers :
          handlers[h].day = d /\ handlers[h].pc \in {"truncate", "write"} =>
             LetThrough(d) + 1 <= handlers[h].n

PolicyInv == /\ TypeOK /\ LockHeld /\ CountAsked /\ SentCounted
             /\ RefusedOnlyOverLimit

-----------------------------------------------------------------------------
\* Two finite sets that differ at most in one element.
LEMMA CardinalityStep ==
    ASSUME NEW S, NEW T, NEW x, IsFiniteSet(S), T \ {x} = S \ {x}
    PROVE  /\ Cardinality(S) \in Nat /\ Cardinality(T) \in Nat
           /\ Cardinality(T) = Cardinality(S) + (IF x \in T THEN 1 ELSE 0)
                                              - (IF x \in S THEN 1 ELSE 0)
<1> DEFINE R == S \ {x}
<1>1. /\ IsFiniteSet(R) /\ Cardinality(S) \in Nat /\ Cardinality(R) \in Nat
      /\ Cardinality(R) = IF x \in S THEN Cardinality(S) - 1 ELSE Cardinality(S)
  BY FS_RemoveElement, FS_CardinalityType
<1>2. T = R \/ (x \in T /\ T = R \cup {x})
  OBVIOUS
<1>3. /\ x \notin R /\ IsFiniteSet(R \cup {x})
      /\ Cardinality(R \cup {x}) = Cardinality(R) + 1
  BY <1>1, FS_AddElement
<1>4. CASE T = R
  BY <1>1, <1>4
<1>5. CASE x \in T /\ T = R \cup {x}
  BY <1>1, <1>3, <1>5
<1> QED
  BY <1>2, <1>4, <1>5

Pends(p, d) == p.day = d /\ p.pc \in Uncounted
Passes(p, d) == p.day = d /\ p.pc = "decide" /\ p.n <= Limit

\* What the move of one handler does to the two sets.
SetsMove(h, p) == \A d \in Days :
    /\ Cardinality(Pending(d)) \in Nat /\ Cardinality(Passing(d)) \in Nat
    /\ Cardinality(Pending(d))' \in Nat /\ Cardinality(Passing(d))' \in Nat
    /\ Cardinality(Pending(d))' = Cardinality(Pending(d))
          + (IF Pends(p, d) THEN 1 ELSE 0) - (IF Pends(handlers[h], d) THEN 1 ELSE 0)
    /\ Cardinality(Passing(d))' = Cardinality(Passing(d))
          + (IF Passes(p, d) THEN 1 ELSE 0) - (IF Passes(handlers[h], d) THEN 1 ELSE 0)

LEMMA HandlerMoves ==
    ASSUME TypeOK, NEW h \in Handlers, NEW p \in Handler,
           handlers' = [handlers EXCEPT ![h] = p]
    PROVE  SetsMove(h, p)
<1> SUFFICES ASSUME NEW d \in Days
             PROVE  /\ Cardinality(Pending(d)) \in Nat /\ Cardinality(Passing(d)) \in Nat
                    /\ Cardinality(Pending(d))' \in Nat /\ Cardinality(Passing(d))' \in Nat
                    /\ Cardinality(Pending(d))' = Cardinality(Pending(d))
                          + (IF Pends(p, d) THEN 1 ELSE 0)
                          - (IF Pends(handlers[h], d) THEN 1 ELSE 0)
                    /\ Cardinality(Passing(d))' = Cardinality(Passing(d))
                          + (IF Passes(p, d) THEN 1 ELSE 0)
                          - (IF Passes(handlers[h], d) THEN 1 ELSE 0)
  BY DEF SetsMove
<1>1. IsFiniteSet(Pending(d)) /\ IsFiniteSet(Passing(d))
  BY PolicyAssumption, FS_Subset DEF Pending, Passing
<1>2. /\ Pending(d)' \ {h} = Pending(d) \ {h}
      /\ Passing(d)' \ {h} = Passing(d) \ {h}
  BY DEF TypeOK, Pending, Passing
<1>3. /\ h \in Pending(d)' <=> Pends(p, d)
      /\ h \in Passing(d)' <=> Passes(p, d)
      /\ h \in Pending(d) <=> Pends(handlers[h], d)
      /\ h \in Passing(d) <=> Passes(handlers[h], d)
  BY DEF TypeOK, Pending, Passing, Pends, Passes
<1>4. /\ Cardinality(Pending(d)) \in Nat /\ Cardinality(Pending(d)') \in Nat
      /\ Cardinality(Pending(d)') = Cardinality(Pending(d))
            + (IF h \in Pending(d)' THEN 1 ELSE 0) - (IF h \in Pending(d) THEN 1 ELSE 0)
  BY <1>1, <1>2, CardinalityStep
<1>5. /\ Cardinality(Passing(d)) \in Nat /\ Cardinality(Passing(d)') \in Nat
      /\ Cardinality(Passing(d)') = Cardinality(Passing(d))
            + (IF h \in Passing(d)' THEN 1 ELSE 0) - (IF h \in Passing(d) THEN 1 ELSE 0)
  BY <1>1, <1>2, CardinalityStep
<1>6. /\ Cardinality(Pending(d))' = Cardinality(Pending(d)')
      /\ Cardinality(Passing(d))' = Cardinality(Passing(d)')
  OBVIOUS
<1> QED
  BY <1>3, <1>4, <1>5, <1>6

-----------------------------------------------------------------------------
(* The invariant is preserved by every step of a handler.                  *)

\* The move of a handler, as the proofs below use it.
LEMMA Moved ==
    ASSUME TypeOK, NEW h \in Handlers, NEW p \in Handler,
           handlers' = [handlers EXCEPT ![h] = p]
    PROVE  /\ handlers' \in [Handlers -> Handler]
           /\ handlers'[h] = p
           /\ \A g \in Handlers \ {h} : handlers'[g] = handlers[g]
  BY DEF TypeOK, Handler

LEMMA AskKeeps ==
    ASSUME PolicyInv, NEW h \in Handlers, Ask(h) PROVE PolicyInv'
<1> DEFINE p == [pc |-> "lookup", day |-> today, n |-> 0]
<1>1. /\ TypeOK /\ LockHeld /\ CountAsked /\ SentCounted /\ RefusedOnlyOverLimit
      /\ handlers[h].pc = "idle" /\ asked[today] < MaxMessages
      /\ handlers' = [handlers EXCEPT ![h] = p]
      /\ asked' = [asked EXCEPT ![today] = @ + 1]
      /\ UNCHANGED <<today, count, lock, sent, refused, broken>>
  BY DEF PolicyInv, Ask
<1>2. p \in Handler /\ today \in Days /\ p.pc = "lookup" /\ p.day = today
  BY <1>1 DEF TypeOK, Handler, Steps
<1> HIDE DEF p
<1>3. /\ handlers' \in [Handlers -> Handler] /\ handlers'[h] = p
      /\ \A g \in Handlers \ {h} : handlers'[g] = handlers[g]
  BY <1>1, <1>2, Moved
<1>4. SetsMove(h, p)
  BY <1>1, <1>2, HandlerMoves
<1>5. TypeOK'
  BY <1>1, <1>2, <1>3, PolicyAssumption DEF TypeOK, Handler
<1>6. LockHeld'
  BY <1>1, <1>2, <1>3 DEF LockHeld
<1>7. CountAsked'
  BY <1>1, <1>2, <1>3, <1>4
     DEF CountAsked, TypeOK, Handler, SetsMove, Pends, Uncounted
<1>8. SentCounted'
  BY <1>1, <1>2, <1>3, <1>4 DEF SentCounted, LetThrough, SetsMove, Passes
<1>9. RefusedOnlyOverLimit'
  BY <1>1, PolicyAssumption DEF RefusedOnlyOverLimit, TypeOK
<1> QED
  BY <1>5, <1>6, <1>7, <1>8, <1>9 DEF PolicyInv

LEMMA OpenKeeps ==
    ASSUME PolicyInv, NEW h \in Handlers, Open(h) PROVE PolicyInv'
<1> DEFINE p == [handlers[h] EXCEPT !.pc = "scan"]
<1>1. /\ TypeOK /\ LockHeld /\ CountAsked /\ SentCounted /\ RefusedOnlyOverLimit
      /\ handlers[h].pc = "open" /\ lock[handlers[h].day] = Free
      /\ lock' = [lock EXCEPT ![handlers[h].day] = h]
      /\ handlers' = [handlers EXCEPT ![h] = p]
      /\ UNCHANGED <<today, count, asked, sent, refused, broken>>
  BY DEF PolicyInv, Open, Move
<1>2. p \in Handler /\ p.pc = "scan" /\ p.day = handlers[h].day /\ handlers[h].day \in Days
  BY <1>1 DEF TypeOK, Handler, Steps
<1> HIDE DEF p
<1>3. /\ handlers' \in [Handlers -> Handler] /\ handlers'[h] = p
      /\ \A g \in Handlers \ {h} : handlers'[g] = handlers[g]
  BY <1>1, <1>2, Moved
<1>4. SetsMove(h, p)
  BY <1>1, <1>2, HandlerMoves
<1>5. TypeOK'
  BY <1>1, <1>2, <1>3, PolicyAssumption DEF TypeOK, Handler
<1>6. LockHeld'
  BY <1>1, <1>2, <1>3, PolicyAssumption DEF LockHeld, TypeOK, Handler
<1>7. CountAsked'
  BY <1>1, <1>2, <1>3, <1>4
     DEF CountAsked, TypeOK, Handler, SetsMove, Pends, Uncounted
<1>8. SentCounted'
  BY <1>1, <1>2, <1>3, <1>4 DEF SentCounted, LetThrough, SetsMove, Passes
<1>9. RefusedOnlyOverLimit'
  BY <1>1, PolicyAssumption DEF RefusedOnlyOverLimit, TypeOK
<1> QED
  BY <1>5, <1>6, <1>7, <1>8, <1>9 DEF PolicyInv

LEMMA ScanKeeps ==
    ASSUME PolicyInv, NEW h \in Handlers, Scan(h) PROVE PolicyInv'
<1> DEFINE p == [handlers[h] EXCEPT !.pc = "truncate", !.n = count[handlers[h].day] + 1]
<1>1. /\ TypeOK /\ LockHeld /\ CountAsked /\ SentCounted /\ RefusedOnlyOverLimit
      /\ handlers[h].pc = "scan"
      /\ handlers' = [handlers EXCEPT ![h] = p]
      /\ UNCHANGED <<today, count, lock, asked, sent, refused, broken>>
  BY DEF PolicyInv, Scan
<1>2. p \in Handler /\ p.pc = "truncate" /\ p.day = handlers[h].day
      /\ handlers[h].day \in Days /\ p.n = count[handlers[h].day] + 1
  <2>1. handlers[h] \in Handler /\ count[handlers[h].day] + 1 \in Nat
    BY <1>1 DEF TypeOK, Handler
  <2> QED
    BY <2>1 DEF Handler, Steps
<1> HIDE DEF p
<1>3. /\ handlers' \in [Handlers -> Handler] /\ handlers'[h] = p
      /\ \A g \in Handlers \ {h} : handlers'[g] = handlers[g]
  BY <1>1, <1>2, Moved
<1>4. SetsMove(h, p)
  BY <1>1, <1>2, HandlerMoves
<1>5. TypeOK'
  BY <1>1, <1>2, <1>3, PolicyAssumption DEF TypeOK, Handler
<1>6. LockHeld'
  BY <1>1, <1>2, <1>3 DEF LockHeld
<1>7. CountAsked'
  BY <1>1, <1>2, <1>3, <1>4
     DEF CountAsked, TypeOK, Handler, SetsMove, Pends, Uncounted
<1>8. SentCounted'
  BY <1>1, <1>2, <1>3, <1>4 DEF SentCounted, LetThrough, SetsMove, Passes, LockHeld, TypeOK, Handler
<1>9. RefusedOnlyOverLimit'
  BY <1>1, PolicyAssumption DEF RefusedOnlyOverLimit, TypeOK
<1> QED
  BY <1>5, <1>6, <1>7, <1>8, <1>9 DEF PolicyInv

LEMMA TruncateKeeps ==
    ASSUME PolicyInv, NEW h \in Handlers, Truncate(h) PROVE PolicyInv'
<1> DEFINE p == [handlers[h] EXCEPT !.pc = "write"]
<1>1. /\ TypeOK /\ LockHeld /\ CountAsked /\ SentCounted /\ RefusedOnlyOverLimit
      /\ handlers[h].pc = "truncate"
      /\ count' = [count EXCEPT ![handlers[h].day] = 0]
      /\ handlers' = [handlers EXCEPT ![h] = p]
      /\ UNCHANGED <<today, lock, asked, sent, refused, broken>>
  BY DEF PolicyInv, Truncate, Move
<1>2. p \in Handler /\ p.pc = "write" /\ p.day = handlers[h].day
      /\ handlers[h].day \in Days /\ p.n = handlers[h].n
  BY <1>1 DEF TypeOK, Handler, Steps
<1> HIDE DEF p
<1>3. /\ handlers' \in [Handlers -> Handler] /\ handlers'[h] = p
      /\ \A g \in Handlers \ {h} : handlers'[g] = handlers[g]
  BY <1>1, <1>2, Moved
<1>4. SetsMove(h, p)
  BY <1>1, <1>2, HandlerMoves
<1>5. TypeOK'
  BY <1>1, <1>2, <1>3, PolicyAssumption DEF TypeOK, Handler
<1>6. LockHeld'
  BY <1>1, <1>2, <1>3 DEF LockHeld
<1>7. CountAsked'
  BY <1>1, <1>2, <1>3, <1>4
     DEF CountAsked, TypeOK, Handler, SetsMove, Pends, Uncounted
<1>8. SentCounted'
  BY <1>1, <1>2, <1>3, <1>4 DEF SentCounted, LetThrough, SetsMove, Passes, TypeOK, Handler
<1>9. RefusedOnlyOverLimit'
  BY <1>1, PolicyAssumption DEF RefusedOnlyOverLimit, TypeOK
<1> QED
  BY <1>5, <1>6, <1>7, <1>8, <1>9 DEF PolicyInv

LEMMA WriteKeeps ==
    ASSUME PolicyInv, NEW h \in Handlers, Write(h) PROVE PolicyInv'
<1> DEFINE p == [handlers[h] EXCEPT !.pc = "decide"]
<1>1. /\ TypeOK /\ LockHeld /\ CountAsked /\ SentCounted /\ RefusedOnlyOverLimit
      /\ handlers[h].pc = "write"
      /\ count' = [count EXCEPT ![handlers[h].day] = handlers[h].n]
      /\ lock' = [lock EXCEPT ![handlers[h].day] = IF @ = h THEN Free ELSE @]
      /\ handlers' = [handlers EXCEPT ![h] = p]
      /\ UNCHANGED <<today, asked, sent, refused, broken>>
  BY DEF PolicyInv, Write, Move, Unlock
<1>2. p \in Handler /\ p.pc = "decide" /\ p.day = handlers[h].day
      /\ handlers[h].day \in Days /\ p.n = handlers[h].n
  BY <1>1 DEF TypeOK, Handler, Steps
<1> HIDE DEF p
<1>3. /\ handlers' \in [Handlers -> Handler] /\ handlers'[h] = p
      /\ \A g \in Handlers \ {h} : handlers'[g] = handlers[g]
  BY <1>1, <1>2, Moved
<1>4. SetsMove(h, p)
  BY <1>1, <1>2, HandlerMoves
<1>5. TypeOK'
  BY <1>1, <1>2, <1>3, PolicyAssumption DEF TypeOK, Handler
<1>6. LockHeld'
  BY <1>1, <1>2, <1>3 DEF LockHeld, TypeOK, Handler
<1>a. \A g \in Handlers : g # h /\ handlers[g].day = handlers[h].day =>
         handlers[g].pc \notin {"truncate", "write"}
  BY <1>1 DEF LockHeld
<1>7. CountAsked'
  <2>1. ASSUME NEW d \in Days PROVE (count[d] + Cardinality(Pending(d)) <= asked[d])'
    <3>1. CASE d = handlers[h].day
      BY <1>1, <1>2, <1>4, <3>1 DEF CountAsked, TypeOK, Handler, SetsMove, Pends, Uncounted
    <3>2. CASE d # handlers[h].day
      BY <1>1, <1>2, <1>4, <3>2 DEF CountAsked, TypeOK, Handler, SetsMove, Pends, Uncounted
    <3> QED
      BY <3>1, <3>2
  <2>2. ASSUME NEW g \in Handlers, handlers'[g].pc \in {"truncate", "write"}
        PROVE  handlers'[g].n + Cardinality(Pending(handlers[g].day))'
                  <= asked'[handlers'[g].day] + 1
    <3>1. g # h /\ handlers'[g] = handlers[g] /\ handlers[g].day # handlers[h].day
      BY <1>a, <1>2, <1>3, <2>2
    <3> QED
      BY <1>1, <1>2, <1>4, <2>2, <3>1 DEF CountAsked, TypeOK, Handler, SetsMove, Pends
  <2>3. ASSUME NEW g \in Handlers, handlers'[g].pc = "decide"
        PROVE  handlers'[g].n <= asked'[handlers'[g].day]
    <3>1. CASE g = h
      <4>1. Cardinality(Pending(handlers[h].day)) >= 1
        BY <1>1, <1>2, <1>4 DEF SetsMove, Pends, Uncounted
      <4> QED
        BY <1>1, <1>2, <1>3, <1>4, <3>1, <4>1 DEF CountAsked, TypeOK, Handler, SetsMove
    <3>2. CASE g # h
      BY <1>1, <1>3, <2>3, <3>2 DEF CountAsked
    <3> QED
      BY <3>1, <3>2
  <2> QED
    BY <2>1, <2>2, <2>3 DEF CountAsked
<1>8. SentCounted'
  <2> SUFFICES ASSUME Limit > 0, NEW d \in Days \ broken
               PROVE  /\ LetThrough(d)' <= Limit
                      /\ (\A g \in Handlers :
                             handlers'[g].day = d => handlers'[g].pc # "write")
                            => LetThrough(d)' <= count'[d]
                      /\ \A g \in Handlers :
                            handlers'[g].day = d /\ handlers'[g].pc \in {"truncate", "write"}
                               => LetThrough(d)' + 1 <= handlers'[g].n
    BY <1>1 DEF SentCounted
  <2>1. CASE d = handlers[h].day
    BY <1>a, <1>1, <1>2, <1>3, <1>4, <2>1, PolicyAssumption
       DEF SentCounted, LetThrough, SetsMove, Passes, TypeOK, Handler
  <2>2. CASE d # handlers[h].day
    BY <1>1, <1>2, <1>3, <1>4, <2>2 DEF SentCounted, LetThrough, SetsMove, Passes, TypeOK
  <2> QED
    BY <2>1, <2>2
<1>9. RefusedOnlyOverLimit'
  BY <1>1, PolicyAssumption DEF RefusedOnlyOverLimit, TypeOK
<1> QED
  BY <1>5, <1>6, <1>7, <1>8, <1>9 DEF PolicyInv

\* A handler that answers is idle again and has dropped its lock.
Answers(h) ==
    /\ handlers' = [handlers EXCEPT ![h] = Idle(today)]
    /\ Unlock(h)

LEMMA AnswerKeeps ==
    ASSUME PolicyInv, NEW h \in Handlers, Answers(h),
           UNCHANGED <<today, count, asked>>
    PROVE  /\ handlers' \in [Handlers -> Handler] /\ lock' \in [Days -> Handlers \cup {Free}]
           /\ handlers'[h] = Idle(today)
           /\ \A g \in Handlers \ {h} : handlers'[g] = handlers[g]
           /\ LockHeld' /\ CountAsked' /\ SetsMove(h, Idle(today))
<1>1. /\ TypeOK /\ LockHeld /\ CountAsked
      /\ handlers' = [handlers EXCEPT ![h] = Idle(today)]
      /\ lock' = [lock EXCEPT ![handlers[h].day] = IF @ = h THEN Free ELSE @]
  BY DEF PolicyInv, Answers, Unlock
<1>2. Idle(today) \in Handler /\ Idle(today).pc = "idle" /\ handlers[h].day \in Days
  BY <1>1 DEF TypeOK, Handler, Steps, Idle
<1>3. /\ handlers' \in [Handlers -> Handler] /\ handlers'[h] = Idle(today)
      /\ \A g \in Handlers \ {h} : handlers'[g] = handlers[g]
  BY <1>1, <1>2, Moved
<1>4. SetsMove(h, Idle(today))
  BY <1>1, <1>2, HandlerMoves
<1>5. lock' \in [Days -> Handlers \cup {Free}]
  BY <1>1 DEF TypeOK
<1>6. LockHeld'
  BY <1>1, <1>2, <1>3 DEF LockHeld, TypeOK, Handler
<1>7. CountAsked'
  <2>1. \A d \in Days : /\ Cardinality(Pending(d))' <= Cardinality(Pending(d))
                        /\ Cardinality(Pending(d)) \in Nat /\ Cardinality(Pending(d))' \in Nat
    BY <1>2, <1>4 DEF SetsMove, Pends, Uncounted
  <2> QED
    BY <1>1, <1>2, <1>3, <2>1 DEF CountAsked, TypeOK, Handler
<1> QED
  BY <1>3, <1>4, <1>5, <1>6, <1>7

LEMMA LookupKeeps ==
    ASSUME PolicyInv, NEW h \in Handlers, LookupLimit(h) PROVE PolicyInv'
<1>1. /\ TypeOK /\ LockHeld /\ CountAsked /\ SentCounted /\ RefusedOnlyOverLimit
      /\ handlers[h].pc = "lookup" /\ UNCHANGED <<today, count, asked, broken>>
  BY DEF PolicyInv, LookupLimit
<1>2. CASE Limit > 0 /\ Move(h, "open") /\ UNCHANGED <<lock, sent, refused>>
  <2> DEFINE p == [handlers[h] EXCEPT !.pc = "open"]
  <2>1. handlers' = [handlers EXCEPT ![h] = p]
    BY <1>2 DEF Move
  <2>2. /\ p \in Handler /\ p.pc = "open" /\ p.day = handlers[h].day
    BY <1>1 DEF TypeOK, Handler, Steps
  <2> HIDE DEF p
  <2>3. /\ handlers' \in [Handlers -> Handler] /\ handlers'[h] = p
        /\ \A g \in Handlers \ {h} : handlers'[g] = handlers[g]
    BY <1>1, <2>1, <2>2, Moved
  <2>4. SetsMove(h, p)
    BY <1>1, <2>1, <2>2, HandlerMoves
  <2>5. TypeOK' /\ LockHeld' /\ RefusedOnlyOverLimit'
    BY <1>1, <1>2, <2>2, <2>3 DEF TypeOK, Handler, LockHeld, RefusedOnlyOverLimit
  <2>6. CountAsked'
    BY <1>1, <1>2, <2>2, <2>3, <2>4 DEF CountAsked, SetsMove, Pends, Uncounted, TypeOK
  <2>7. SentCounted'
    BY <1>1, <1>2, <2>2, <2>3, <2>4 DEF SentCounted, LetThrough, SetsMove, Passes
  <2> QED
    BY <2>5, <2>6, <2>7 DEF PolicyInv
<1>3. CASE Limit <= 0 /\ Dunno(h)
  <2>1. /\ handlers' \in [Handlers -> Handler] /\ lock' \in [Days -> Handlers \cup {Free}]
        /\ LockHeld' /\ CountAsked'
    BY <1>1, <1>3, AnswerKeeps DEF Dunno, Answers
  <2>2. sent' \in [Days -> Nat] /\ UNCHANGED refused
    BY <1>1, <1>3 DEF Dunno, TypeOK
  <2>3. TypeOK' /\ RefusedOnlyOverLimit'
    BY <1>1, <2>1, <2>2 DEF TypeOK, Handler, RefusedOnlyOverLimit
  <2>4. SentCounted'
    BY <1>3, PolicyAssumption DEF SentCounted
  <2> QED
    BY <2>1, <2>3, <2>4 DEF PolicyInv
<1> QED
  BY <1>2, <1>3 DEF LookupLimit

LEMMA DecideKeeps ==
    ASSUME PolicyInv, NEW h \in Handlers, Decide(h) PROVE PolicyInv'
<1> DEFINE d == handlers[h].day
<1>1. /\ TypeOK /\ SentCounted /\ RefusedOnlyOverLimit /\ CountAsked
      /\ handlers[h].pc = "decide" /\ UNCHANGED <<today, count, asked, broken>>
      /\ Answers(h)
  BY DEF PolicyInv, Decide, Reject, Dunno, Answers
<1>2. /\ handlers' \in [Handlers -> Handler] /\ lock' \in [Days -> Handlers \cup {Free}]
      /\ handlers'[h] = Idle(today)
      /\ \A g \in Handlers \ {h} : handlers'[g] = handlers[g]
      /\ LockHeld' /\ CountAsked' /\ SetsMove(h, Idle(today))
  BY <1>1, AnswerKeeps
<1>d. d \in Days /\ handlers[h].n \in Nat
  BY <1>1 DEF TypeOK, Handler
<1>3. Idle(today).pc = "idle" /\ d \in Days /\ handlers[h].n \in Nat
  BY <1>d DEF Idle
<1>4. CASE handlers[h].n > Limit
  <2>1. refused' = [refused EXCEPT ![d] = @ + 1] /\ UNCHANGED sent
    BY <1>4 DEF Decide, Reject
  <2>2. TypeOK'
    BY <1>1, <1>2, <2>1 DEF TypeOK, Handler
  <2>3. asked[d] > Limit
    <3>1. handlers[h].n <= asked[d]
      BY <1>1 DEF CountAsked
    <3>2. \A e \in Days : asked[e] \in Int
      BY <1>1, PolicyAssumption DEF TypeOK
    <3> HIDE DEF d
    <3>3. asked[d] \in Int
      BY <1>d, <3>2
    <3>4. handlers[h].n \in Int
      BY <1>d
    <3>5. Limit \in Int
      BY PolicyAssumption
    <3> QED
      BY <1>4, <3>1, <3>3, <3>4, <3>5
  <2>4. RefusedOnlyOverLimit'
    BY <1>1, <1>3, <2>1, <2>3 DEF RefusedOnlyOverLimit, TypeOK
  <2>5. SentCounted'
    BY <1>1, <1>2, <1>3, <1>4, <2>1, PolicyAssumption
       DEF SentCounted, LetThrough, SetsMove, Passes
  <2> QED
    BY <1>2, <2>2, <2>4, <2>5 DEF PolicyInv
<1>5. CASE ~(handlers[h].n > Limit)
  <2>1. sent' = [sent EXCEPT ![d] = @ + 1] /\ UNCHANGED refused
    BY <1>5 DEF Decide, Dunno
  <2>2. TypeOK' /\ RefusedOnlyOverLimit'
    BY <1>1, <1>2, <2>1 DEF TypeOK, Handler, RefusedOnlyOverLimit
  <2>3. \A e \in Days : LetThrough(e)' = LetThrough(e)
    BY <1>1, <1>2, <1>3, <1>5, <2>1, PolicyAssumption
       DEF LetThrough, SetsMove, Passes, TypeOK
  <2>4. SentCounted'
    BY <1>1, <1>2, <1>3, <2>3 DEF SentCounted
  <2> QED
    BY <1>2, <2>2, <2>4 DEF PolicyInv
<1> QED
  BY <1>4, <1>5

LEMMA FailKeeps ==
    ASSUME PolicyInv, NEW h \in Handlers, Fail(h) PROVE PolicyInv'
<1> DEFINE d == handlers[h].day
<1>1. /\ TypeOK /\ SentCounted /\ RefusedOnlyOverLimit
      /\ handlers[h].pc \in Uncounted /\ UNCHANGED <<today, count, asked, refused>>
      /\ Answers(h) /\ sent' = [sent EXCEPT ![d] = @ + 1] /\ broken' = broken \cup {d}
  BY DEF PolicyInv, Fail, Dunno, Answers, Uncounted
<1>2. /\ handlers' \in [Handlers -> Handler] /\ lock' \in [Days -> Handlers \cup {Free}]
      /\ handlers'[h] = Idle(today)
      /\ \A g \in Handlers \ {h} : handlers'[g] = handlers[g]
      /\ LockHeld' /\ CountAsked' /\ SetsMove(h, Idle(today))
  BY <1>1, AnswerKeeps
<1>3. Idle(today).pc = "idle" /\ d \in Days
  BY <1>1 DEF Idle, TypeOK, Handler
<1>4. TypeOK' /\ RefusedOnlyOverLimit'
  <2>1. sent' \in [Days -> Nat] /\ broken' \subseteq Days
    BY <1>1, <1>3 DEF TypeOK
  <2> QED
    BY <1>1, <1>2, <2>1 DEF TypeOK, Handler, RefusedOnlyOverLimit
<1>5. \A e \in Days \ {d} : LetThrough(e)' = LetThrough(e)
  BY <1>1, <1>2, <1>3 DEF LetThrough, SetsMove, Passes, TypeOK
<1>6. SentCounted'
  BY <1>1, <1>2, <1>3, <1>5 DEF SentCounted
<1> QED
  BY <1>2, <1>4, <1>6 DEF PolicyInv

\* After a crash nobody is at work, and every day that had a handler is broken.
LEMMA CrashKeeps == ASSUME PolicyInv, Crash PROVE PolicyInv'
<1>1. /\ TypeOK /\ CountAsked /\ SentCounted /\ RefusedOnlyOverLimit
      /\ UNCHANGED <<today, count, asked, sent, refused>>
      /\ handlers' = [h \in Handlers |-> Idle(today)]
      /\ lock' = [d \in Days |-> Free]
      /\ broken' = broken \cup {handlers[h].day : h \in
                                  {g \in Handlers : handlers[g].pc # "idle"}}
  BY DEF PolicyInv, Crash
<1>2. Idle(today) \in Handler /\ Idle(today).pc = "idle"
  BY <1>1 DEF Idle, Handler, TypeOK, Steps
<1>3. TypeOK' /\ LockHeld' /\ RefusedOnlyOverLimit'
  BY <1>1, <1>2 DEF TypeOK, Handler, LockHeld, RefusedOnlyOverLimit
<1>4. \A d \in Days : /\ Cardinality(Pending(d)) \in Nat /\ Cardinality(Passing(d)) \in Nat
                      /\ Cardinality(Pending(d))' = 0 /\ Cardinality(Passing(d))' = 0
  <2> SUFFICES ASSUME NEW d \in Days
               PROVE  /\ Cardinality(Pending(d)) \in Nat /\ Cardinality(Passing(d)) \in Nat
                      /\ Cardinality(Pending(d)') = 0 /\ Cardinality(Passing(d)') = 0
    OBVIOUS
  <2>1. IsFiniteSet(Pending(d)) /\ IsFiniteSet(Passing(d))
    BY PolicyAssumption, FS_Subset DEF Pending, Passing
  <2>2. Pending(d)' = {} /\ Passing(d)' = {}
    BY <1>1, <1>2 DEF Pending, Passing, Uncounted
  <2> QED
    BY <2>1, <2>2, FS_CardinalityType, FS_EmptySet
<1>5. CountAsked'
  BY <1>1, <1>2, <1>4 DEF CountAsked, TypeOK
<1>6. SentCounted'
  <2> SUFFICES ASSUME Limit > 0, NEW d \in Days \ broken'
               PROVE  LetThrough(d)' <= Limit /\ LetThrough(d)' <= count'[d]
    BY <1>1, <1>2 DEF SentCounted
  <2>1. d \in Days \ broken /\ \A h \in Handlers : handlers[h].day = d => handlers[h].pc = "idle"
    BY <1>1
  <2> QED
    BY <1>1, <1>4, <2>1, PolicyAssumption DEF SentCounted, LetThrough, TypeOK
<1> QED
  BY <1>3, <1>5, <1>6 DEF PolicyInv

LEMMA PolicyInvInitial == Init => PolicyInv
<1> SUFFICES ASSUME Init PROVE PolicyInv
  OBVIOUS
<1>1. today \in Days /\ Idle(today) \in Handler /\ Idle(today).pc = "idle"
  BY DEF Init, Idle, Handler, Steps
<1>2. handlers \in [Handlers -> Handler] /\ \A h \in Handlers : handlers[h].pc = "idle"
  BY <1>1 DEF Init
<1>3. TypeOK /\ LockHeld /\ RefusedOnlyOverLimit
  BY <1>1, <1>2, PolicyAssumption DEF Init, TypeOK, Handler, LockHeld, RefusedOnlyOverLimit
<1>4. \A d \in Days : Cardinality(Pending(d)) = 0 /\ Cardinality(Passing(d)) = 0
  <2>1. \A d \in Days : Pending(d) = {} /\ Passing(d) = {}
    BY <1>2 DEF Pending, Passing, Uncounted
  <2> QED
    BY <2>1, FS_EmptySet
<1>5. CountAsked /\ SentCounted
  BY <1>2, <1>4, PolicyAssumption DEF Init, CountAsked, SentCounted, LetThrough
<1> QED
  BY <1>3, <1>5 DEF PolicyInv

LEMMA PolicyInvInductive == PolicyInv /\ [Next]_vars => PolicyInv'
<1> SUFFICES ASSUME PolicyInv, [Next]_vars PROVE PolicyInv'
  OBVIOUS
<1>1. CASE UNCHANGED handlers /\ UNCHANGED <<count, lock, asked, sent, refused, broken>>
           /\ today' \in Days
  <2>1. \A d \in Days : /\ Cardinality(Pending(d))' = Cardinality(Pending(d))
                        /\ Cardinality(Passing(d))' = Cardinality(Passing(d))
    BY <1>1 DEF Pending, Passing
  <2> QED
    BY <1>1, <2>1 DEF PolicyInv, TypeOK, LockHeld, CountAsked, SentCounted, LetThrough,
                      RefusedOnlyOverLimit
<1>2. CASE Midnight
  BY <1>1, <1>2 DEF Midnight
<1>3. CASE UNCHANGED vars
  BY <1>1, <1>3 DEF vars, PolicyInv, TypeOK
<1>4. CASE Crash
  BY <1>4, CrashKeeps
<1>5. ASSUME NEW h \in Handlers,
             \/ Ask(h) \/ LookupLimit(h) \/ Open(h) \/ Scan(h)
             \/ Truncate(h) \/ Write(h) \/ Decide(h) \/ Fail(h)
      PROVE  PolicyInv'
  BY <1>5, AskKeeps, LookupKeeps, OpenKeeps, ScanKeeps, TruncateKeeps, WriteKeeps,
     DecideKeeps, FailKeeps
<1> QED
  BY <1>2, <1>3, <1>4, <1>5 DEF Next

-----------------------------------------------------------------------------
\* Every state the policy service and its files reach is well typed.
THEOREM PolicyTypeCorrect == Spec => []TypeOK
<1>1. PolicyInv => TypeOK
  BY DEF PolicyInv
<1> QED
  BY <1>1, PolicyInvInitial, PolicyInvInductive, PTL DEF Spec

LEMMA PolicyLimit == PolicyInv => DailyLimitKept
<1> SUFFICES ASSUME PolicyInv, NEW d \in Days \ broken, Limit > 0 PROVE sent[d] <= Limit
  BY DEF PolicyInv, DailyLimitKept, WithinDailyLimit
<1>1. IsFiniteSet(Passing(d))
  BY PolicyAssumption, FS_Subset DEF Passing
<1>2. Cardinality(Passing(d)) \in Nat /\ sent[d] \in Nat
  BY <1>1, FS_CardinalityType DEF PolicyInv, TypeOK
<1> QED
  <2>1. LetThrough(d) <= Limit
    BY DEF PolicyInv, SentCounted
  <2> QED
    BY <1>2, <2>1, PolicyAssumption DEF LetThrough

\* However many handlers race for the count of a day, with any limit: no more
\* messages than the limit leave on a day without a fault, and a message is
\* refused only when those of its day used the limit up (policy.go, bumpCount,
\* Decide).
THEOREM DailyLimit == Spec => []DailyLimitKept
  BY PolicyLimit, PolicyInvInitial, PolicyInvInductive, PTL DEF Spec

-----------------------------------------------------------------------------
(* The lists of logins and cron entries.                                   *)

ListsRunning == [pc : Lists!Steps \ {"idle"}, job : Lists!Job,
                 users : SUBSET (Logins \X Nat), body : BOOLEAN]
ListsWorker == worker.pc = "idle" \/ worker \in ListsRunning

FtpSteps == {"list", "conf", "passwd", "stale"}
FtpTypes == {"ftp.apply", "account.reconcile"}
CronTypes == {"cron.apply", "account.reconcile"}

\* The attempt's step belongs to its job.
ListsStepOfJob ==
    /\ worker.pc \in FtpSteps => worker.job.type \in FtpTypes
    /\ worker.pc \notin FtpSteps \cup {"idle"} => worker.job.type \in CronTypes

\* applyFTPUsers has the file of every login of its list before the passwd
\* file has the list, and until the list is written over.
ConfBeforePasswd ==
    /\ Lists!LoginConfined
    /\ worker.pc \in {"passwd", "stale"} => Lists!Names(worker.users) \subseteq host.conf
    /\ worker.pc = "stale" => host.passwd = worker.users

\* What the rows say of the logins is in the passwd file, or will be.
FtpApplied ==
    \/ \E j \in jobs : j.type \in FtpTypes
    \/ worker.pc = "list"
    \/ worker.pc \in {"conf", "passwd"} /\ worker.users = Lists!Listed
    \/ worker.pc \notin {"list", "conf", "passwd"} /\ host.passwd = Lists!Listed

\* What the rows say of an account's entries is in its files, or will be.
CronApplied(a) ==
    \/ \E j \in jobs : j.acc = a /\ j.type \in CronTypes
    \/ /\ worker.pc = "idle" \/ worker.job.acc # a \/ worker.job.type \notin CronTypes
       /\ a \in host.cron <=> a \in rows.cron
       /\ a \in host.crond <=> a \in rows.cron
    \/ /\ worker.pc # "idle" /\ worker.job.acc = a /\ worker.job.type \in CronTypes
       /\ \/ worker.pc \in FtpSteps \cup {"crons"}
          \/ worker.pc = "cron" /\ (worker.body <=> a \in rows.cron)
          \/ /\ worker.pc = "crond" /\ (worker.body <=> a \in rows.cron)
             /\ a \in host.cron <=> a \in rows.cron

ListsApplied == ~lost => FtpApplied /\ \A a \in Accounts : CronApplied(a)

ListsInv == /\ Lists!TypeOK /\ ListsWorker /\ ListsStepOfJob
            /\ ConfBeforePasswd /\ ListsApplied

\* The fields of the rows, the host and the attempt.
ListsRow == [ftp : [Logins -> Nat], cron : SUBSET Accounts,
             status : [Accounts -> {"active", "suspended"}]]
ListsHost == [conf : SUBSET Logins, passwd : SUBSET (Logins \X Nat),
              cron : SUBSET Accounts, crond : SUBSET Accounts]

LEMMA ListsInitially == Lists!Init => ListsInv
<1> SUFFICES ASSUME Lists!Init PROVE ListsInv
  OBVIOUS
<1> USE DEF Lists!Init
<1>1. Lists!TypeOK
  <2>1. /\ rows \in ListsRow /\ host \in ListsHost
        /\ jobs \subseteq Lists!Job /\ worker.pc \in Lists!Steps /\ worker.pc = "idle"
        /\ changes \in 0..MaxChanges /\ failures \in 0..MaxFailures
    BY Bounds DEF ListsRow, ListsHost, Lists!Steps
  <2>2. lost \in BOOLEAN
    BY Zenon
  <2> QED
    BY <2>1, <2>2 DEF Lists!TypeOK, ListsRow, ListsHost
<1>2. ListsWorker /\ ListsStepOfJob
  BY DEF ListsWorker, ListsStepOfJob, FtpSteps
<1>3. ConfBeforePasswd
  BY DEF ConfBeforePasswd, Lists!LoginConfined, Lists!Names
<1>4. Lists!Listed = {}
  BY OwnersAssumption DEF Lists!Listed
<1>5. ListsApplied
  BY <1>4 DEF ListsApplied, FtpApplied, CronApplied
<1> QED
  BY <1>1, <1>2, <1>3, <1>5 DEF ListsInv

LEMMA ListsRequest == ListsInv /\ Lists!Request => ListsInv'
<1> SUFFICES ASSUME ListsInv, Lists!Request PROVE ListsInv'
  OBVIOUS
<1> USE DEF ListsInv
<1> DEFINE Asks(t, a) ==
              /\ Lists!Enqueue(t, a) /\ rows' \in ListsRow
              /\ \/ t \in FtpTypes
                 \/ rows'.ftp = rows.ftp /\ rows'.status = rows.status
              /\ \A b \in Accounts : \/ b = a /\ t \in CronTypes
                                     \/ b \in rows.cron <=> b \in rows'.cron
<1>1. \E t \in Lists!Types, a \in Accounts : Asks(t, a)
  <2> USE DEF Lists!TypeOK, Lists!Types, ListsRow, FtpTypes, CronTypes
  <2>1. ASSUME NEW l \in Logins, Lists!PutFTP(l) \/ Lists!DeleteFTP(l)
        PROVE  Asks("ftp.apply", LoginOwner[l]) /\ LoginOwner[l] \in Accounts
    BY <2>1, OwnersAssumption DEF Lists!PutFTP, Lists!DeleteFTP, Lists!Enqueue
  <2>2. ASSUME NEW a \in Accounts, Lists!ChangeCron(a) PROVE Asks("cron.apply", a)
    BY <2>2 DEF Lists!ChangeCron
  <2>3. ASSUME NEW a \in Accounts, Lists!ChangeStatus(a)
        PROVE  Asks("account.reconcile", a)
    BY <2>3 DEF Lists!ChangeStatus
  <2> HIDE DEF Asks
  <2> QED
    BY <2>1, <2>2, <2>3 DEF Lists!Request
<1>2. PICK t \in Lists!Types, a \in Accounts : Asks(t, a)
  BY <1>1
<1> DEFINE j == [n |-> changes + 1, type |-> t, acc |-> a, attempts |-> 0]
<1>3. j \in Lists!Job /\ jobs' = jobs \cup {j} /\ j.type = t /\ j.acc = a
  BY <1>2 DEF Lists!Enqueue, Lists!TypeOK, Lists!Job
<1> HIDE DEF j
<1>4. Lists!TypeOK'
  BY <1>2, <1>3, Bounds DEF Lists!TypeOK, Lists!Enqueue, ListsRow
<1>5. ListsWorker' /\ ListsStepOfJob' /\ ConfBeforePasswd'
  BY <1>2 DEF Lists!Enqueue, ListsWorker, ListsStepOfJob, ConfBeforePasswd,
     Lists!LoginConfined, Lists!Names
<1>6. ASSUME ~lost' PROVE FtpApplied'
  <2>1. CASE t \in FtpTypes
    BY <2>1, <1>3 DEF FtpApplied
  <2>2. CASE rows'.ftp = rows.ftp /\ rows'.status = rows.status
    <3>1. Lists!Listed' = Lists!Listed
      BY <2>2 DEF Lists!Listed
    <3>2. FtpApplied
      BY <1>2, <1>6 DEF ListsApplied, Lists!Enqueue
    <3> QED
      BY <3>1, <3>2, <1>2, <1>3 DEF FtpApplied, Lists!Enqueue
  <2> QED
    BY <2>1, <2>2, <1>2
<1>7. ASSUME ~lost', NEW b \in Accounts PROVE CronApplied(b)'
  <2>1. CronApplied(b)
    BY <1>2, <1>7 DEF ListsApplied, Lists!Enqueue
  <2>2. CASE b = a /\ t \in CronTypes
    BY <2>2, <1>3 DEF CronApplied
  <2>3. CASE b \in rows.cron <=> b \in rows'.cron
    BY <2>1, <2>3, <1>2, <1>3 DEF CronApplied, Lists!Enqueue
  <2> QED
    BY <2>2, <2>3, <1>2
<1> QED
  BY <1>4, <1>5, <1>6, <1>7 DEF ListsApplied

\* A step of the attempt that is not its end.
LEMMA ListsRetry ==
    ASSUME ListsInv, worker.pc # "idle", Lists!Retry
    PROVE  /\ worker'.pc = "idle" /\ worker' = [pc |-> "idle"]
           /\ jobs' \in SUBSET Lists!Job /\ jobs \subseteq jobs'
           /\ failures' \in 0..MaxFailures /\ lost' \in BOOLEAN
           /\ ~lost' => ~lost /\ worker.job \in jobs'
<1>1. /\ worker'.pc = "idle" /\ worker' = [pc |-> "idle"]
      /\ jobs' \in SUBSET Lists!Job /\ jobs \subseteq jobs'
      /\ failures' \in 0..MaxFailures
  BY Bounds DEF ListsInv, Lists!Retry, Lists!Fails, Lists!TypeOK
<1>2. lost' \in BOOLEAN /\ (~lost' => ~lost)
  BY Zenon DEF ListsInv, Lists!Retry, Lists!TypeOK
<1>3. ~lost' => worker.job \in jobs'
  BY DEF Lists!Retry
<1> QED
  BY <1>1, <1>2, <1>3

\* An attempt that ends early leaves its job behind.
LEMMA ListsEndsEarly ==
    ASSUME ListsInv, worker.pc # "idle", Lists!Retry, UNCHANGED <<rows, changes>>,
           host' \in ListsHost, Lists!LoginConfined',
           host'.passwd = host.passwd \/ worker.pc \in FtpSteps,
           \A a \in Accounts : \/ a = worker.job.acc /\ worker.job.type \in CronTypes
                               \/ /\ a \in host'.cron <=> a \in host.cron
                                  /\ a \in host'.crond <=> a \in host.crond
    PROVE  ListsInv'
<1> USE DEF ListsInv
<1>1. /\ worker'.pc = "idle" /\ worker' = [pc |-> "idle"]
      /\ jobs' \in SUBSET Lists!Job /\ jobs \subseteq jobs'
      /\ failures' \in 0..MaxFailures /\ lost' \in BOOLEAN
      /\ ~lost' => ~lost /\ worker.job \in jobs'
  BY ListsRetry
<1>2. Lists!TypeOK' /\ ListsWorker' /\ ListsStepOfJob' /\ ConfBeforePasswd'
  BY <1>1 DEF Lists!TypeOK, Lists!Steps, ListsHost, ListsWorker, ListsStepOfJob,
     ConfBeforePasswd, FtpSteps
<1>3. Lists!Listed' = Lists!Listed
  BY DEF Lists!Listed
<1>4. ASSUME ~lost' PROVE FtpApplied'
  <2>1. FtpApplied
    BY <1>1, <1>4 DEF ListsApplied
  <2>2. CASE worker.job.type \in FtpTypes
    BY <2>2, <1>1, <1>4 DEF FtpApplied
  <2>3. CASE worker.pc \notin FtpSteps
    BY <2>1, <2>3, <1>1, <1>3 DEF FtpApplied, FtpSteps
  <2> QED
    BY <2>2, <2>3 DEF ListsStepOfJob
<1>5. ASSUME ~lost', NEW a \in Accounts PROVE CronApplied(a)'
  <2>1. CronApplied(a)
    BY <1>1, <1>5 DEF ListsApplied
  <2>2. CASE a = worker.job.acc /\ worker.job.type \in CronTypes
    BY <2>2, <1>1, <1>5 DEF CronApplied
  <2>3. CASE /\ a \in host'.cron <=> a \in host.cron
             /\ a \in host'.crond <=> a \in host.crond
             /\ ~(a = worker.job.acc /\ worker.job.type \in CronTypes)
    BY <2>1, <2>3, <1>1 DEF CronApplied, ListsStepOfJob, CronTypes, FtpSteps
  <2> QED
    BY <2>2, <2>3
<1> QED
  BY <1>2, <1>4, <1>5 DEF ListsApplied

\* So does one whose call fails, unless reconcileAccount drops the error.
LEMMA ListsCallFails ==
    ASSUME ListsInv, worker.pc # "idle", NEW next \in {"crons", "idle"},
           Lists!CallFails(next), UNCHANGED <<rows, changes>>,
           host' \in ListsHost, Lists!LoginConfined',
           host'.passwd = host.passwd \/ worker.pc \in FtpSteps,
           \A a \in Accounts : \/ a = worker.job.acc /\ worker.job.type \in CronTypes
                               \/ /\ a \in host'.cron <=> a \in host.cron
                                  /\ a \in host'.crond <=> a \in host.crond
    PROVE  ListsInv'
<1>1. CASE Lists!Retry
  BY <1>1, ListsEndsEarly
<1>2. CASE ~Lists!Retry
  <2>1. /\ worker.job.type = "account.reconcile" /\ Lists!Fails /\ lost' = TRUE
        /\ worker' = [worker EXCEPT !.pc = next] /\ UNCHANGED jobs
    BY <1>2 DEF Lists!CallFails
  <2>2. lost' \in BOOLEAN /\ lost'
    BY <2>1, Zenon
  <2>3. worker'.pc = next /\ worker'.job = worker.job /\ ListsWorker'
    BY <2>1 DEF ListsInv, ListsWorker, ListsRunning, Lists!Steps
  <2>4. failures' \in 0..MaxFailures
    BY <2>1, Bounds DEF Lists!Fails, ListsInv, Lists!TypeOK
  <2>5. Lists!TypeOK'
    BY <2>1, <2>2, <2>3, <2>4 DEF Lists!TypeOK, Lists!Steps, ListsHost, ListsInv
  <2>6. ListsStepOfJob' /\ ConfBeforePasswd' /\ ListsApplied'
    BY <2>1, <2>2, <2>3 DEF ListsStepOfJob, ConfBeforePasswd, ListsApplied, FtpSteps,
       CronTypes
  <2> QED
    BY <2>3, <2>5, <2>6 DEF ListsInv
<1> QED
  BY <1>1, <1>2

LEMMA ListsClaim == ListsInv /\ Lists!Claim => ListsInv'
<1> SUFFICES ASSUME ListsInv, Lists!Claim PROVE ListsInv'
  OBVIOUS
<1> USE DEF ListsInv
<1>1. PICK j \in jobs :
        /\ jobs' = jobs \ {j}
        /\ worker' = [pc |-> IF j.type = "cron.apply" THEN "crons" ELSE "list",
                      job |-> [j EXCEPT !.attempts = @ + 1], users |-> {},
                      body |-> FALSE]
  BY DEF Lists!Claim
<1>2. /\ worker.pc = "idle" /\ UNCHANGED <<rows, host, changes, failures, lost>>
      /\ j \in Lists!Job
  BY DEF Lists!Claim, Lists!TypeOK
<1> DEFINE job == [j EXCEPT !.attempts = @ + 1]
<1>3. job \in Lists!Job /\ job.type = j.type /\ job.acc = j.acc
  BY <1>2 DEF Lists!Job
<1> HIDE DEF job
<1>4. /\ worker' \in ListsRunning /\ worker'.job = job
      /\ worker'.pc = IF j.type = "cron.apply" THEN "crons" ELSE "list"
  BY <1>1, <1>3 DEF ListsRunning, Lists!Steps, job
<1>5. Lists!TypeOK' /\ ListsWorker' /\ ListsStepOfJob'
  BY <1>1, <1>2, <1>3, <1>4 DEF Lists!TypeOK, Lists!Steps, Lists!Job, Lists!Types,
     ListsWorker, ListsRunning, ListsStepOfJob, FtpSteps, FtpTypes, CronTypes
<1>6. ConfBeforePasswd'
  BY <1>2, <1>4 DEF ConfBeforePasswd, Lists!LoginConfined, Lists!Names
<1>7. Lists!Listed' = Lists!Listed
  BY <1>2 DEF Lists!Listed
<1>8. ASSUME ~lost' PROVE FtpApplied'
  BY <1>1, <1>2, <1>3, <1>4, <1>7, <1>8 DEF ListsApplied, FtpApplied, FtpTypes
<1>9. ASSUME ~lost', NEW a \in Accounts PROVE CronApplied(a)'
  BY <1>1, <1>2, <1>3, <1>4, <1>9 DEF ListsApplied, CronApplied, CronTypes, FtpSteps
<1> QED
  BY <1>5, <1>6, <1>8, <1>9 DEF ListsApplied

LEMMA ListsCrash == ListsInv /\ Lists!Crash => ListsInv'
<1> SUFFICES ASSUME ListsInv, Lists!Crash PROVE ListsInv'
  OBVIOUS
<1>1. \/ host' = host
      \/ worker.pc = "passwd" /\ host' = [host EXCEPT !.passwd = {}]
  BY DEF Lists!Crash
<1>2. /\ host' \in ListsHost /\ Lists!LoginConfined'
      /\ host'.cron = host.cron /\ host'.crond = host.crond
      /\ host'.passwd = host.passwd \/ worker.pc \in FtpSteps
  BY <1>1 DEF ListsInv, Lists!TypeOK, ListsHost, ConfBeforePasswd, FtpSteps,
     Lists!LoginConfined, Lists!Names
<1> QED
  BY <1>2, ListsEndsEarly DEF Lists!Crash

LEMMA ListsSync == ListsInv /\ Lists!SyncFTPUsers => ListsInv'
<1> SUFFICES ASSUME ListsInv, Lists!SyncFTPUsers PROVE ListsInv'
  OBVIOUS
<1> USE DEF ListsInv
<1>1. /\ worker.pc = "list" /\ worker' = [worker EXCEPT !.pc = "conf", !.users = Lists!Listed]
      /\ UNCHANGED <<rows, host, jobs, changes, failures, lost>>
  BY DEF Lists!SyncFTPUsers
<1>2. Lists!Listed \in SUBSET (Logins \X Nat) /\ Lists!Listed' = Lists!Listed
  BY <1>1 DEF Lists!Listed, Lists!TypeOK
<1>3. /\ worker' \in ListsRunning /\ worker'.pc = "conf" /\ worker'.job = worker.job
      /\ worker'.users = Lists!Listed /\ worker.job \in Lists!Job
  BY <1>1, <1>2 DEF ListsWorker, ListsRunning, Lists!Steps
<1>4. Lists!TypeOK' /\ ListsWorker' /\ ListsStepOfJob' /\ ConfBeforePasswd'
  BY <1>1, <1>3 DEF Lists!TypeOK, Lists!Steps, ListsWorker, ListsStepOfJob, FtpSteps,
     ConfBeforePasswd, Lists!LoginConfined, Lists!Names
<1>5. ListsApplied'
  BY <1>1, <1>2, <1>3 DEF ListsApplied, FtpApplied, CronApplied, FtpSteps
<1> QED
  BY <1>4, <1>5

\* The next step of the attempt, or its end, with the host as it is by then.
ListsGoesOn(step) ==
    /\ worker'.pc = step /\ ListsWorker'
    /\ step # "idle" => worker' \in ListsRunning /\ worker'.job = worker.job
                        /\ worker'.users = worker.users /\ worker'.body = worker.body
    /\ UNCHANGED <<jobs, failures, lost>>

LEMMA ListsGoto ==
    ASSUME ListsInv, worker.pc # "idle", NEW step \in Lists!Steps \ {"idle"},
           Lists!Goto(step)
    PROVE  ListsGoesOn(step)
  BY DEF ListsInv, ListsWorker, ListsRunning, Lists!Goto, ListsGoesOn

LEMMA ListsSettle ==
    ASSUME Lists!Settle
    PROVE  ListsGoesOn("idle")
  BY DEF Lists!Settle, ListsGoesOn, ListsWorker

LEMMA ListsTypeKept ==
    ASSUME ListsInv, NEW step \in Lists!Steps, ListsGoesOn(step), host' \in ListsHost,
           UNCHANGED <<rows, changes>>
    PROVE  Lists!TypeOK' /\ ListsWorker' /\ Lists!Listed' = Lists!Listed
  BY DEF ListsInv, ListsGoesOn, Lists!TypeOK, ListsHost, ListsRunning, Lists!Listed

LEMMA ListsConf == ListsInv /\ Lists!WriteUserConf => ListsInv'
<1> SUFFICES ASSUME ListsInv, Lists!WriteUserConf PROVE ListsInv'
  OBVIOUS
<1>1. PICK done \in SUBSET Lists!Names(worker.users) :
        /\ host' = [host EXCEPT !.conf = @ \cup done]
        /\ \/ done = Lists!Names(worker.users) /\ Lists!Goto("passwd")
           \/ done # Lists!Names(worker.users) /\ Lists!CallFails("crons")
  BY DEF Lists!WriteUserConf
<1>2. worker.pc = "conf" /\ UNCHANGED <<rows, changes>> /\ worker \in ListsRunning
  BY DEF Lists!WriteUserConf, ListsInv, ListsWorker
<1>3. Lists!Names(worker.users) \subseteq Logins
  BY <1>2 DEF ListsRunning, Lists!Names
<1>4. /\ host' \in ListsHost /\ host'.conf = host.conf \cup done
      /\ host'.passwd = host.passwd /\ host'.cron = host.cron /\ host'.crond = host.crond
  BY <1>1, <1>3 DEF ListsInv, Lists!TypeOK, ListsHost
<1>5. Lists!LoginConfined'
  BY <1>4 DEF ListsInv, ConfBeforePasswd, Lists!LoginConfined, Lists!Names
<1>6. CASE Lists!CallFails("crons")
  BY <1>2, <1>4, <1>5, <1>6, ListsCallFails
<1>7. CASE done = Lists!Names(worker.users) /\ Lists!Goto("passwd")
  <2>1. ListsGoesOn("passwd")
    BY <1>2, <1>7, ListsGoto DEF Lists!Steps
  <2>2. Lists!TypeOK' /\ ListsWorker' /\ Lists!Listed' = Lists!Listed
    BY <1>2, <1>4, <2>1, ListsTypeKept DEF Lists!Steps
  <2>3. ListsStepOfJob'
    BY <1>2, <2>1 DEF ListsInv, ListsStepOfJob, ListsGoesOn, FtpSteps
  <2>4. ConfBeforePasswd'
    BY <1>4, <1>5, <1>7, <2>1 DEF ConfBeforePasswd, ListsGoesOn, Lists!Names
  <2>5. ListsApplied'
    BY <1>2, <1>4, <2>1, <2>2 DEF ListsInv, ListsApplied, FtpApplied, CronApplied,
       FtpSteps, ListsGoesOn
  <2> QED
    BY <2>2, <2>3, <2>4, <2>5 DEF ListsInv
<1> QED
  BY <1>1, <1>6, <1>7

LEMMA ListsPasswd == ListsInv /\ Lists!WritePasswd => ListsInv'
<1> SUFFICES ASSUME ListsInv, Lists!WritePasswd PROVE ListsInv'
  OBVIOUS
<1>1. worker.pc = "passwd" /\ UNCHANGED <<rows, changes>> /\ worker \in ListsRunning
  BY DEF Lists!WritePasswd, ListsInv, ListsWorker
<1>2. CASE UNCHANGED host /\ Lists!CallFails("crons")
  BY <1>1, <1>2, ListsCallFails DEF ListsInv, Lists!TypeOK, ListsHost, ConfBeforePasswd,
     Lists!LoginConfined, Lists!Names
<1>3. CASE host' = [host EXCEPT !.passwd = worker.users] /\ Lists!Goto("stale")
  <2>1. ListsGoesOn("stale")
    BY <1>1, <1>3, ListsGoto DEF Lists!Steps
  <2>2. /\ host' \in ListsHost /\ host'.conf = host.conf /\ host'.passwd = worker.users
        /\ host'.cron = host.cron /\ host'.crond = host.crond
    BY <1>1, <1>3 DEF ListsInv, Lists!TypeOK, ListsHost, ListsRunning
  <2>3. Lists!TypeOK' /\ ListsWorker' /\ Lists!Listed' = Lists!Listed
    BY <1>1, <2>1, <2>2, ListsTypeKept DEF Lists!Steps
  <2>4. ListsStepOfJob'
    BY <1>1, <2>1 DEF ListsInv, ListsStepOfJob, ListsGoesOn, FtpSteps
  <2>5. ConfBeforePasswd'
    BY <1>1, <2>1, <2>2 DEF ListsInv, ConfBeforePasswd, ListsGoesOn, Lists!LoginConfined,
       Lists!Names
  <2>6. ASSUME ~lost' PROVE FtpApplied'
    BY <1>1, <2>1, <2>2, <2>3, <2>6 DEF ListsInv, ListsApplied, FtpApplied, FtpSteps, ListsGoesOn
  <2>7. ASSUME ~lost', NEW a \in Accounts PROVE CronApplied(a)'
    <3>1. CronApplied(a)
      BY <2>1, <2>7 DEF ListsInv, ListsApplied, ListsGoesOn
    <3> QED
      BY <1>1, <2>1, <2>2, <2>3, <3>1 DEF CronApplied, FtpSteps, ListsGoesOn
  <2> QED
    BY <2>3, <2>4, <2>5, <2>6, <2>7 DEF ListsInv, ListsApplied
<1> QED
  BY <1>2, <1>3 DEF Lists!WritePasswd

LEMMA ListsStale == ListsInv /\ Lists!RemoveStale => ListsInv'
<1> SUFFICES ASSUME ListsInv, Lists!RemoveStale PROVE ListsInv'
  OBVIOUS
<1>1. /\ worker.pc = "stale" /\ UNCHANGED <<rows, changes>> /\ worker \in ListsRunning
      /\ host' = [host EXCEPT !.conf = @ \cap Lists!Names(worker.users)]
      /\ Lists!AfterList
  BY DEF Lists!RemoveStale, ListsInv, ListsWorker
<1>2. /\ host' \in ListsHost /\ host'.conf = host.conf \cap Lists!Names(worker.users)
      /\ host'.passwd = host.passwd /\ host'.cron = host.cron /\ host'.crond = host.crond
  BY <1>1 DEF ListsInv, Lists!TypeOK, ListsHost
<1> DEFINE step == IF worker.job.type = "account.reconcile" THEN "crons" ELSE "idle"
<1>3. ListsGoesOn(step) /\ step \in Lists!Steps
  BY <1>1, ListsGoto, ListsSettle DEF Lists!AfterList, Lists!Steps
<1>4. Lists!TypeOK' /\ ListsWorker' /\ Lists!Listed' = Lists!Listed
  BY <1>1, <1>2, <1>3, ListsTypeKept
<1>5. ListsStepOfJob'
  BY <1>3 DEF ListsStepOfJob, ListsGoesOn, FtpSteps, CronTypes
<1>6. ConfBeforePasswd'
  BY <1>1, <1>2, <1>3 DEF ListsInv, ConfBeforePasswd, ListsGoesOn, Lists!LoginConfined,
     Lists!Names
<1>7. worker.job.type \in FtpTypes
  BY <1>1 DEF ListsInv, ListsStepOfJob, FtpSteps
<1>8. ASSUME ~lost' PROVE FtpApplied'
  BY <1>1, <1>2, <1>3, <1>4, <1>8 DEF ListsInv, ListsApplied, FtpApplied, ListsGoesOn,
     ConfBeforePasswd
<1>9. ASSUME ~lost', NEW a \in Accounts PROVE CronApplied(a)'
  <2>1. CronApplied(a)
    BY <1>3, <1>9 DEF ListsInv, ListsApplied, ListsGoesOn
  <2> QED
    BY <1>1, <1>2, <1>3, <1>7, <2>1 DEF CronApplied, FtpSteps, FtpTypes, CronTypes,
       ListsGoesOn
<1> QED
  BY <1>4, <1>5, <1>6, <1>8, <1>9 DEF ListsInv, ListsApplied

LEMMA ListsCrons == ListsInv /\ Lists!ListCrons => ListsInv'
<1> SUFFICES ASSUME ListsInv, Lists!ListCrons PROVE ListsInv'
  OBVIOUS
<1> USE DEF ListsInv
<1>1. /\ worker.pc = "crons" /\ worker \in ListsRunning
      /\ worker' = [worker EXCEPT !.pc = "cron", !.body = worker.job.acc \in rows.cron]
      /\ UNCHANGED <<rows, host, jobs, changes, failures, lost>>
  BY DEF Lists!ListCrons, ListsWorker
<1>2. PICK b \in BOOLEAN : b = (worker.job.acc \in rows.cron)
  <2> WITNESS (worker.job.acc \in rows.cron) \in BOOLEAN
  <2> QED
    OBVIOUS
<1>3. /\ worker' \in ListsRunning /\ worker'.pc = "cron" /\ worker'.job = worker.job
      /\ worker'.users = worker.users /\ worker.job \in Lists!Job
      /\ worker'.body = b
  <2>1. worker' = [worker EXCEPT !.pc = "cron", !.body = b]
    BY <1>1, <1>2
  <2> QED
    BY <1>1, <2>1 DEF ListsRunning, Lists!Steps
<1>4. Lists!TypeOK' /\ ListsWorker' /\ ListsStepOfJob' /\ ConfBeforePasswd'
  BY <1>1, <1>3 DEF Lists!TypeOK, Lists!Steps, ListsWorker, ListsStepOfJob, FtpSteps,
     ConfBeforePasswd, Lists!LoginConfined, Lists!Names
<1>5. worker'.body <=> worker.job.acc \in rows.cron
  BY <1>2, <1>3
<1>6. Lists!Listed' = Lists!Listed
  BY <1>1 DEF Lists!Listed
<1>7. ListsApplied'
  BY <1>1, <1>3, <1>5, <1>6 DEF ListsApplied, FtpApplied, CronApplied, FtpSteps
<1> QED
  BY <1>4, <1>7

\* What a crontab file of the account says, and of the others.
LEMMA ListsWith ==
    ASSUME NEW S, NEW a
    PROVE  /\ a # worker.job.acc => (a \in Lists!With(S) <=> a \in S)
           /\ a = worker.job.acc => (a \in Lists!With(S) <=> worker.body)
  BY DEF Lists!With

LEMMA ListsCronCopy == ListsInv /\ Lists!WriteCronCopy => ListsInv'
<1> SUFFICES ASSUME ListsInv, Lists!WriteCronCopy PROVE ListsInv'
  OBVIOUS
<1>1. worker.pc = "cron" /\ UNCHANGED <<rows, changes>> /\ worker \in ListsRunning
  BY DEF Lists!WriteCronCopy, ListsInv, ListsWorker
<1>2. CASE UNCHANGED host /\ Lists!CallFails("idle")
  BY <1>1, <1>2, ListsCallFails DEF ListsInv, Lists!TypeOK, ListsHost, ConfBeforePasswd,
     Lists!LoginConfined, Lists!Names
<1>3. CASE host' = [host EXCEPT !.cron = Lists!With(@)] /\ Lists!Goto("crond")
  <2>1. ListsGoesOn("crond")
    BY <1>1, <1>3, ListsGoto DEF Lists!Steps
  <2>2. Lists!With(host.cron) \subseteq Accounts
    BY <1>1 DEF Lists!With, ListsInv, Lists!TypeOK, ListsRunning, Lists!Job
  <2>3. /\ host' \in ListsHost /\ host'.conf = host.conf /\ host'.passwd = host.passwd
        /\ host'.cron = Lists!With(host.cron) /\ host'.crond = host.crond
    BY <1>1, <1>3, <2>2 DEF ListsInv, Lists!TypeOK, ListsHost
  <2>4. Lists!TypeOK' /\ ListsWorker' /\ Lists!Listed' = Lists!Listed
    BY <1>1, <2>1, <2>3, ListsTypeKept DEF Lists!Steps
  <2>5. ListsStepOfJob' /\ ConfBeforePasswd'
    BY <1>1, <2>1, <2>3 DEF ListsInv, ListsStepOfJob, ListsGoesOn, FtpSteps,
       ConfBeforePasswd, Lists!LoginConfined, Lists!Names
  <2>6. ASSUME ~lost' PROVE FtpApplied'
    BY <1>1, <2>1, <2>3, <2>4, <2>6 DEF ListsInv, ListsApplied, FtpApplied, FtpSteps, ListsGoesOn
  <2>7. ASSUME ~lost', NEW a \in Accounts PROVE CronApplied(a)'
    <3>1. CronApplied(a)
      BY <2>1, <2>7 DEF ListsInv, ListsApplied, ListsGoesOn
    <3>2. worker.job.type \in CronTypes
      BY <1>1 DEF ListsInv, ListsStepOfJob, FtpSteps
    <3>3. /\ a # worker.job.acc => (a \in host'.cron <=> a \in host.cron)
          /\ a = worker.job.acc => (a \in host'.cron <=> worker.body)
      BY <2>3, ListsWith
    <3>4. CASE a = worker.job.acc
      BY <1>1, <2>1, <2>3, <3>1, <3>2, <3>3, <3>4 DEF CronApplied, FtpSteps, ListsGoesOn
    <3>5. CASE a # worker.job.acc
      BY <1>1, <2>1, <2>3, <3>1, <3>3, <3>5 DEF CronApplied, ListsGoesOn
    <3> QED
      BY <3>4, <3>5
  <2> QED
    BY <2>4, <2>5, <2>6, <2>7 DEF ListsInv, ListsApplied
<1> QED
  BY <1>2, <1>3 DEF Lists!WriteCronCopy

LEMMA ListsCron == ListsInv /\ Lists!WriteCron => ListsInv'
<1> SUFFICES ASSUME ListsInv, Lists!WriteCron PROVE ListsInv'
  OBVIOUS
<1>1. worker.pc = "crond" /\ UNCHANGED <<rows, changes>> /\ worker \in ListsRunning
  BY DEF Lists!WriteCron, ListsInv, ListsWorker
<1>2. CASE UNCHANGED host /\ Lists!CallFails("idle")
  BY <1>1, <1>2, ListsCallFails DEF ListsInv, Lists!TypeOK, ListsHost, ConfBeforePasswd,
     Lists!LoginConfined, Lists!Names
<1>3. CASE host' = [host EXCEPT !.crond = Lists!With(@)] /\ Lists!Settle
  <2>1. ListsGoesOn("idle")
    BY <1>3, ListsSettle
  <2>2. Lists!With(host.crond) \subseteq Accounts
    BY <1>1 DEF Lists!With, ListsInv, Lists!TypeOK, ListsRunning, Lists!Job
  <2>3. /\ host' \in ListsHost /\ host'.conf = host.conf /\ host'.passwd = host.passwd
        /\ host'.cron = host.cron /\ host'.crond = Lists!With(host.crond)
    BY <1>1, <1>3, <2>2 DEF ListsInv, Lists!TypeOK, ListsHost
  <2>4. Lists!TypeOK' /\ ListsWorker' /\ Lists!Listed' = Lists!Listed
    BY <1>1, <2>1, <2>3, ListsTypeKept DEF Lists!Steps
  <2>5. ListsStepOfJob' /\ ConfBeforePasswd'
    BY <1>1, <2>1, <2>3 DEF ListsInv, ListsStepOfJob, ListsGoesOn, FtpSteps,
       ConfBeforePasswd, Lists!LoginConfined, Lists!Names
  <2>6. ASSUME ~lost' PROVE FtpApplied'
    BY <1>1, <2>1, <2>3, <2>4, <2>6 DEF ListsInv, ListsApplied, FtpApplied, FtpSteps, ListsGoesOn
  <2>7. ASSUME ~lost', NEW a \in Accounts PROVE CronApplied(a)'
    <3>1. CronApplied(a)
      BY <2>1, <2>7 DEF ListsInv, ListsApplied, ListsGoesOn
    <3>2. worker.job.type \in CronTypes
      BY <1>1 DEF ListsInv, ListsStepOfJob, FtpSteps
    <3>3. /\ a # worker.job.acc => (a \in host'.crond <=> a \in host.crond)
          /\ a = worker.job.acc => (a \in host'.crond <=> worker.body)
      BY <2>3, ListsWith
    <3>4. CASE a = worker.job.acc
      BY <1>1, <2>1, <2>3, <3>1, <3>2, <3>3, <3>4 DEF CronApplied, FtpSteps, ListsGoesOn
    <3>5. CASE a # worker.job.acc
      BY <1>1, <2>1, <2>3, <3>1, <3>3, <3>5 DEF CronApplied, ListsGoesOn
    <3> QED
      BY <3>4, <3>5
  <2> QED
    BY <2>4, <2>5, <2>6, <2>7 DEF ListsInv, ListsApplied
<1> QED
  BY <1>2, <1>3 DEF Lists!WriteCron

\* Every step keeps the lists' invariant.
LEMMA ListsStep == ListsInv /\ (Lists!Next \/ UNCHANGED Lists!vars) => ListsInv'
<1>1. ASSUME ListsInv, UNCHANGED Lists!vars PROVE ListsInv'
  <2>1. UNCHANGED <<rows, host, jobs, worker, changes, failures, lost>>
    BY <1>1 DEF Lists!vars
  <2> QED
    BY <1>1, <2>1 DEF ListsInv, Lists!TypeOK, ListsWorker, ListsStepOfJob, ConfBeforePasswd,
       Lists!LoginConfined, Lists!Names, ListsApplied, FtpApplied, CronApplied,
       Lists!Listed
<1> QED
  BY <1>1, ListsRequest, ListsClaim, ListsCrash, ListsSync, ListsConf, ListsPasswd,
     ListsStale, ListsCrons, ListsCronCopy, ListsCron DEF Lists!Next

\* What the invariant says once the lists are settled.
LEMMA ListsSettled == ListsInv => Lists!ListsAgreeWhenSettled /\ Lists!LoginConfined
<1> SUFFICES ASSUME ListsInv PROVE Lists!ListsAgreeWhenSettled /\ Lists!LoginConfined
  OBVIOUS
<1>1. Lists!LoginConfined
  BY DEF ListsInv, ConfBeforePasswd
<1>2. ASSUME worker.pc = "idle", jobs = {}, ~lost
      PROVE  host.passwd = Lists!Listed /\ host.crond = rows.cron /\ host.cron = rows.cron
  <2>1. host.passwd = Lists!Listed
    BY <1>2 DEF ListsInv, ListsApplied, FtpApplied
  <2>2. ASSUME NEW a \in Accounts
        PROVE  (a \in host.cron <=> a \in rows.cron) /\ (a \in host.crond <=> a \in rows.cron)
    BY <1>2, <2>2 DEF ListsInv, ListsApplied, CronApplied
  <2>3. host.cron \subseteq Accounts /\ host.crond \subseteq Accounts /\ rows.cron \subseteq Accounts
    BY DEF ListsInv, Lists!TypeOK
  <2> QED
    BY <2>1, <2>2, <2>3
<1> QED
  BY <1>1, <1>2 DEF Lists!ListsAgreeWhenSettled

-----------------------------------------------------------------------------
(* The mail.                                                               *)

MailSnap == [domains : SUBSET MailDomains, catchall : SUBSET MailDomains,
             alias : SUBSET MailDomains, box : [MailDomains -> Mail!Box]]
MailRunning == [pc : Mail!Steps \ {"idle"}, job : Mail!Job, snap : MailSnap,
                copy : Mail!Box, left : SUBSET MailDomains, dom : MailDomains]
MailWorker == worker.pc = "idle" \/ worker \in MailRunning

\* The steps of deleteDomain, and those of an attempt that has its snapshot and
\* has not written the maps yet.
DeletionSteps == {"retire", "delAliases", "delBoxes", "delMailDomain", "delZone",
                  "delDomain"}
BeforeMaps == {"homes", "catchall", "maps"}

MailStepOfJob ==
    /\ worker.pc \in DeletionSteps =>
          /\ worker.job.type = "domain.delete" /\ worker.dom = worker.job.dom
          /\ worker.dom \in rows.domain
    /\ worker.pc = "put" => worker.job.type = "mailbox.provision"

\* The foreign keys of the tables: what belongs to a mail domain goes before
\* it, and it goes before its domain.
MailRowsNested ==
    /\ rows.mail \subseteq rows.domain
    /\ rows.catchall \subseteq rows.mail /\ rows.alias \subseteq rows.mail
    /\ \A d \in MailDomains : rows.box[d].id # 0 => d \in rows.mail

\* provisionMailbox holds the row as it is, unless a request changed it, which
\* left its own job.
CopyOfRow ==
    worker.pc # "idle" /\ worker.job.type = "mailbox.provision" =>
        \/ worker.copy = rows.box[worker.job.dom]
        \/ \E j \in jobs : j.dom = worker.job.dom /\ j.type # "domain.delete"

\* ... and which the history notes.
BoxAcked ==
    /\ Mail!ChangeLostOnlyByOverlap
    /\ worker.pc # "idle" /\ worker.job.type = "mailbox.provision"
          /\ worker.job.dom \notin overlap =>
          /\ worker.copy.id = rows.box[worker.job.dom].id
          /\ worker.copy.hash = rows.box[worker.job.dom].hash

\* deleteDomain takes the aliases, the mailboxes and the mail domain before the
\* zone; without the mail domain no request brings a mailbox back.
ZoneLast ==
    \A d \in MailDomains \ overlap :
        /\ d \notin rows.zone => rows.box[d].id = 0 /\ d \notin rows.mail
        /\ worker.pc \in DeletionSteps /\ worker.dom = d =>
              /\ worker.pc \in {"delBoxes", "delMailDomain"} => d \notin rows.alias
              /\ worker.pc = "delMailDomain" => rows.box[d].id = 0
              /\ worker.pc \in {"delZone", "delDomain"} =>
                    rows.box[d].id = 0 /\ d \notin rows.mail

\* A domain of the snapshot has its key served once its turn has come.
KeyServed(d) == host.key[d] # 0 /\ host.served[d] = host.key[d]
KeysServed ==
    /\ Mail!SignedWithServedKey
    /\ worker.pc \in {"dkim", "publish", "sign"} =>
          \A d \in Mail!Recipients(worker.snap) \ (worker.left \cup retired) :
              KeyServed(d) \/ (worker.pc = "publish" /\ worker.dom = d)
    /\ worker.pc = "publish" => host.key[worker.dom] # 0
    /\ worker.pc = "sign" => worker.left = {}

\* A mailbox that the rows, the maps or the snapshot know of has its home, or a
\* job of its account waits that makes it, or the attempt will.
BoxKnown(d) ==
    \/ rows.box[d].id # 0
    \/ <<d, "box", 0>> \in host.files["virtual"]
    \/ worker.pc \in BeforeMaps /\ d \in Mail!Recipients(worker.snap)
HomeComes(d) ==
    /\ worker.pc # "idle" /\ worker.job.type # "domain.delete"
    /\ DomainOwner[worker.job.dom] = DomainOwner[d]
    /\ \/ worker.pc \in {"snapDomains", "snapBoxes"}
       \/ worker.pc = "homes" /\ d \in Mail!Recipients(worker.snap)
       \/ /\ worker.pc \in BeforeMaps /\ rows.box[d].id = 0
          /\ d \notin Mail!Recipients(worker.snap)
HomeWaits(d) == \E j \in jobs : /\ j.type # "domain.delete"
                                /\ DomainOwner[j.dom] = DomainOwner[d]
HomesMade ==
    /\ worker.pc = "snapBoxes" => rows.mail \subseteq worker.snap.domains
    /\ ~lost => \A d \in MailDomains \ retired :
          BoxKnown(d) => <<d, "box">> \in host.homes \/ HomeWaits(d) \/ HomeComes(d)

\* A job that will apply the maps: a domain.delete finds nothing to do when its
\* domain is gone.
MapsWait == \E j \in jobs : j.type # "domain.delete" \/ j.dom \in rows.domain

\* With no such job waiting, the snapshot, the maps and what Postfix compiled of them
\* agree with the rows, as far as the attempt has come.
SnapAgrees ==
    /\ worker.snap.domains = rows.domain \cap rows.mail
    /\ worker.snap.catchall = rows.catchall
    /\ worker.snap.alias = rows.alias /\ worker.snap.box = rows.box
MapAgrees(f, map) ==
    \/ map = Mail!Render(Mail!Now)[f]
    \/ f \in {"uids", "gids"} /\ Mail!Recipients(Mail!Now) = {}
MapsAgree ==
    ~lost /\ ~MapsWait =>
        /\ worker.pc = "snapBoxes" => /\ worker.snap.domains = rows.domain \cap rows.mail
                                      /\ worker.snap.catchall = rows.catchall
        /\ worker.pc \in BeforeMaps \cup {"postmap"} => SnapAgrees
        /\ worker.pc = "postmap" =>
              \A f \in Mail!MapNames : MapAgrees(f, host.files[f])
        /\ worker.pc \in {"idle", "dkim", "publish", "sign", "put"} =>
              \A f \in Mail!MapNames : MapAgrees(f, Mail!InForce(f))

MailInv == /\ Mail!TypeOK /\ MailWorker /\ MailStepOfJob /\ MailRowsNested
           /\ CopyOfRow /\ BoxAcked /\ ZoneLast /\ KeysServed /\ HomesMade
           /\ MapsAgree

MailRow == [domain : SUBSET MailDomains, mail : SUBSET MailDomains, zone : SUBSET MailDomains,
            catchall : SUBSET MailDomains, alias : SUBSET MailDomains,
            box : [MailDomains -> Mail!Box]]
MailHost == [homes : SUBSET (MailDomains \X {"box", "all"}), files : Mail!Maps,
             db : Mail!Maps, key : [MailDomains -> Nat], served : [MailDomains -> Nat],
             signing : SUBSET MailDomains]

\* The maps, by name and by place.
LEMMA MapFacts ==
    /\ Mail!MapNames = {"virtual", "vdomains", "passwd", "uids", "gids", "limits",
                        "aliases", "senders"}
    /\ Mail!FirstOf(Mail!Compiled, Len(Mail!Compiled)) =
          {"virtual", "vdomains", "uids", "gids", "aliases", "senders"}
    /\ \A n \in 0..Len(Mail!MapFiles) : n >= 1 => "virtual" \in Mail!FirstOf(Mail!MapFiles, n)
    /\ Mail!FirstOf(Mail!MapFiles, 0) = {}
    /\ Len(Mail!MapFiles) = 8 /\ Len(Mail!Compiled) = 6
<1> USE DEF Mail!MapNames, Mail!FirstOf, Mail!Compiled, Mail!MapFiles
<1>1. Len(Mail!MapFiles) = 8 /\ Len(Mail!Compiled) = 6
  OBVIOUS
<1>2. /\ 1..8 = {1, 2, 3, 4, 5, 6, 7, 8} /\ 1..6 = {1, 2, 3, 4, 5, 6}
  OBVIOUS
<1>3. Mail!MapNames = {"virtual", "vdomains", "passwd", "uids", "gids", "limits",
                       "aliases", "senders"}
  BY <1>1, <1>2
<1>4. Mail!FirstOf(Mail!Compiled, Len(Mail!Compiled)) =
          {"virtual", "vdomains", "uids", "gids", "aliases", "senders"}
  BY <1>1, <1>2
<1> QED
  BY <1>1, <1>3, <1>4

\* What Render makes of a snapshot, map by map.
LEMMA MapsRendered ==
    ASSUME NEW snap \in MailSnap
    PROVE  /\ Mail!Render(snap) \in Mail!Maps
           /\ \A d \in MailDomains : <<d, "box", 0>> \in Mail!Render(snap)["virtual"] <=>
                                     d \in Mail!Recipients(snap)
           /\ Mail!Recipients(snap) \subseteq MailDomains
           /\ Mail!Recipients(snap) = {} =>
                 Mail!Render(snap)["uids"] = {} /\ Mail!Render(snap)["gids"] = {}
           /\ Mail!Render(snap)["uids"] = {} \/ Mail!Render(snap)["gids"] = {} =>
                 Mail!Recipients(snap) = {}
<1> DEFINE recs == Mail!Recipients(snap)
           plain == {<<d, "box", 0>> : d \in recs}
           aliases == {<<d, "alias", 0>> : d \in snap.alias}
<1>1. recs \subseteq MailDomains
  BY DEF Mail!Recipients, MailSnap
<1>2. \A d \in recs : snap.box[d].hash \in Nat
  BY <1>1 DEF MailSnap, Mail!Box
<1>3. /\ plain \subseteq Mail!Entry /\ aliases \subseteq Mail!Entry
      /\ {<<d, "all", 0>> : d \in snap.catchall} \subseteq Mail!Entry
      /\ {<<d, "box", 0>> : d \in snap.domains} \subseteq Mail!Entry
      /\ {<<d, "box", snap.box[d].hash>> : d \in recs} \subseteq Mail!Entry
  BY <1>1, <1>2 DEF Mail!Entry, MailSnap
<1>4. /\ Mail!Render(snap)["virtual"] = plain \cup {<<d, "all", 0>> : d \in snap.catchall}
      /\ Mail!Render(snap)["uids"] = plain /\ Mail!Render(snap)["gids"] = plain
  BY DEF Mail!Render
<1>5. Mail!Render(snap) \in [virtual : SUBSET Mail!Entry, vdomains : SUBSET Mail!Entry,
            passwd : SUBSET Mail!Entry, uids : SUBSET Mail!Entry, gids : SUBSET Mail!Entry,
            limits : SUBSET Mail!Entry, aliases : SUBSET Mail!Entry,
            senders : SUBSET Mail!Entry]
  BY <1>3 DEF Mail!Render
<1>6. Mail!Render(snap) \in Mail!Maps
  BY <1>5, MapFacts DEF Mail!Maps
<1>7. \A d \in MailDomains : <<d, "box", 0>> \in Mail!Render(snap)["virtual"] <=> d \in recs
  BY <1>4
<1> QED
  BY <1>1, <1>4, <1>6, <1>7

\* The rows make a snapshot.
LEMMA MailNow ==
    ASSUME rows \in MailRow
    PROVE  Mail!Now \in MailSnap
  BY DEF Mail!Now, MailRow, MailSnap

LEMMA MailInitially == Mail!Init => MailInv
<1> SUFFICES ASSUME Mail!Init PROVE MailInv
  OBVIOUS
<1> DEFINE maps == [Mail!NoMaps EXCEPT !["vdomains"] = {<<d, "box", 0>> : d \in MailDomains}]
<1>1. maps \in Mail!Maps /\ maps["virtual"] = {}
  BY MapFacts DEF Mail!NoMaps, Mail!Maps, Mail!Entry
<1>2. Mail!NoBox \in Mail!Box /\ Mail!NoBox.id = 0
  BY DEF Mail!NoBox, Mail!Box
<1> HIDE DEF maps
<1>3. /\ rows = [domain |-> MailDomains, mail |-> MailDomains, zone |-> MailDomains,
                 catchall |-> {}, alias |-> {}, box |-> [d \in MailDomains |-> Mail!NoBox]]
      /\ host = [homes |-> {}, files |-> maps, db |-> maps,
                 key |-> [d \in MailDomains |-> 0], served |-> [d \in MailDomains |-> 0],
                 signing |-> {}]
      /\ jobs = {} /\ worker.pc = "idle" /\ changes = 0 /\ failures = 0
      /\ acked = [d \in MailDomains |-> Mail!NoBox] /\ overlap = {} /\ retired = {}
  BY DEF Mail!Init, maps
<1>4. lost = FALSE
  BY DEF Mail!Init
<1>5. rows \in MailRow /\ host \in MailHost
  BY <1>1, <1>2, <1>3 DEF MailRow, MailHost
<1>6. Mail!TypeOK
  <2>1. lost \in BOOLEAN
    BY <1>4, Zenon
  <2> QED
    BY <1>2, <1>3, <1>5, <2>1, Bounds DEF Mail!TypeOK, MailRow, MailHost, Mail!Steps
<1>7. /\ MailWorker /\ MailStepOfJob /\ CopyOfRow /\ MailRowsNested
  BY <1>2, <1>3 DEF MailWorker, MailStepOfJob, CopyOfRow, MailRowsNested, DeletionSteps
<1>8. BoxAcked /\ ZoneLast /\ KeysServed
  BY <1>2, <1>3 DEF BoxAcked, Mail!ChangeLostOnlyByOverlap, ZoneLast, KeysServed,
     Mail!SignedWithServedKey, DeletionSteps
<1>9. HomesMade
  BY <1>1, <1>2, <1>3 DEF HomesMade, BoxKnown, BeforeMaps
<1>10. Mail!Recipients(Mail!Now) = {}
  BY <1>2, <1>3 DEF Mail!Recipients, Mail!Now
<1>11. ASSUME NEW f \in Mail!MapNames PROVE MapAgrees(f, maps[f])
  <2>1. /\ Mail!Now.domains = MailDomains /\ Mail!Now.catchall = {} /\ Mail!Now.alias = {}
    BY <1>3 DEF Mail!Now
  <2>2. maps[f] = IF f = "vdomains" THEN {<<d, "box", 0>> : d \in MailDomains} ELSE {}
    BY MapFacts DEF maps, Mail!NoMaps
  <2>3. Mail!Render(Mail!Now)[f] = IF f = "vdomains"
                                   THEN {<<d, "box", 0>> : d \in MailDomains} ELSE {}
    <3>1. {<<d, "box", 0>> : d \in {}} = {} /\ {<<d, "alias", 0>> : d \in {}} = {}
          /\ {<<d, "all", 0>> : d \in {}} = {}
          /\ {<<d, "box", Mail!Now.box[d].hash>> : d \in {}} = {}
      OBVIOUS
    <3>2. f \in {"virtual", "vdomains", "passwd", "uids", "gids", "limits",
                 "aliases", "senders"}
      BY MapFacts
    <3> QED
      BY <1>10, <2>1, <3>1, <3>2 DEF Mail!Render
  <2> QED
    BY <2>2, <2>3 DEF MapAgrees
<1>12. MapsAgree
  BY <1>3, <1>11 DEF MapsAgree, BeforeMaps, Mail!InForce
<1> QED
  BY <1>6, <1>7, <1>8, <1>9, <1>12 DEF MailInv

-----------------------------------------------------------------------------
(* How an attempt goes on and ends.                                        *)

MailOn(step) ==
    /\ worker' \in MailRunning /\ worker'.pc = step
    /\ worker'.job = worker.job /\ worker'.copy = worker.copy
    /\ UNCHANGED <<jobs, failures, lost>>
MailSame == worker'.snap = worker.snap /\ worker'.left = worker.left
            /\ worker'.dom = worker.dom

LEMMA MailGoto ==
    ASSUME MailInv, worker.pc # "idle", NEW step \in Mail!Steps \ {"idle"},
           Mail!Goto(step)
    PROVE  MailOn(step) /\ MailSame
  BY DEF MailInv, MailWorker, MailRunning, Mail!Goto, MailOn, MailSame

\* The attempt ends; unless the history says so, its job is tried again.
MailStops ==
    /\ worker' = [pc |-> "idle"] /\ jobs' \subseteq Mail!Job /\ jobs \subseteq jobs'
    /\ failures' \in 0..MaxFailures /\ lost' \in BOOLEAN
    /\ ~lost' => /\ ~lost /\ worker.job \in jobs'
                 /\ worker.job.type # "domain.delete" \/ worker.job.dom \in rows.domain

LEMMA MailFails ==
    ASSUME MailInv, worker.pc # "idle",
           \/ /\ Mail!Retry
              /\ worker.job.type # "domain.delete" \/ worker.job.dom \in rows.domain
           \/ Mail!StackFails \/ (Mail!Ends /\ UNCHANGED failures)
    PROVE  MailStops
<1>1. worker.job \in Mail!Job /\ jobs \subseteq Mail!Job /\ failures \in 0..MaxFailures
  BY DEF MailInv, Mail!TypeOK
<1>2. lost \in BOOLEAN
  BY DEF MailInv, Mail!TypeOK
<1>3. CASE /\ Mail!Retry
           /\ worker.job.type # "domain.delete" \/ worker.job.dom \in rows.domain
  <2>1. /\ worker' = [pc |-> "idle"] /\ jobs' \subseteq Mail!Job /\ jobs \subseteq jobs'
        /\ failures' \in 0..MaxFailures /\ (~lost' => worker.job \in jobs')
    BY <1>1, <1>3, Bounds DEF Mail!Retry, Mail!Fails
  <2>2. lost' \in BOOLEAN /\ (~lost' => ~lost)
    BY <1>2, <1>3, Zenon DEF Mail!Retry
  <2> QED
    BY <1>3, <2>1, <2>2 DEF MailStops
<1>4. CASE Mail!Ends /\ (Mail!Fails \/ UNCHANGED failures)
  <2>1. /\ worker' = [pc |-> "idle"] /\ jobs' = jobs /\ failures' \in 0..MaxFailures
    BY <1>1, <1>4, Bounds DEF Mail!Ends, Mail!Fails
  <2>2. lost' \in BOOLEAN /\ lost'
    BY <1>4, Zenon DEF Mail!Ends
  <2> QED
    BY <1>1, <2>1, <2>2 DEF MailStops
<1> QED
  BY <1>3, <1>4 DEF Mail!StackFails

\* An attempt that stops leaves the rows, and homes and maps of what it knew.
LEMMA MailStopsEarly ==
    ASSUME MailInv, worker.pc # "idle", MailStops,
           UNCHANGED <<rows, changes, acked, overlap>>, host' \in MailHost,
           retired' \subseteq MailDomains, retired \subseteq retired',
           Mail!SignedWithServedKey',
           \A d \in MailDomains \ retired' :
              /\ <<d, "box">> \in host.homes => <<d, "box">> \in host'.homes
              /\ <<d, "box", 0>> \in host'.files["virtual"] =>
                    \/ <<d, "box", 0>> \in host.files["virtual"]
                    \/ worker.pc \in BeforeMaps /\ d \in Mail!Recipients(worker.snap)
    PROVE  MailInv'
<1>1. /\ worker'.pc = "idle" /\ jobs' \subseteq Mail!Job /\ jobs \subseteq jobs'
      /\ failures' \in 0..MaxFailures /\ lost' \in BOOLEAN
      /\ ~lost' => /\ ~lost /\ worker.job \in jobs'
                   /\ worker.job.type # "domain.delete" \/ worker.job.dom \in rows.domain
  BY DEF MailStops
<1>2. Mail!TypeOK' /\ MailWorker' /\ MailStepOfJob' /\ MailRowsNested'
  BY <1>1 DEF MailInv, Mail!TypeOK, MailHost, MailWorker, MailStepOfJob, MailRowsNested,
     DeletionSteps, Mail!Steps
<1>3. CopyOfRow' /\ BoxAcked' /\ ZoneLast' /\ KeysServed'
  BY <1>1 DEF MailInv, CopyOfRow, BoxAcked, ZoneLast, KeysServed, DeletionSteps,
     Mail!ChangeLostOnlyByOverlap
<1>4. MapsAgree'
  BY <1>1 DEF MapsAgree, MapsWait
<1>5. ASSUME ~lost', NEW d \in MailDomains \ retired', BoxKnown(d)'
      PROVE  <<d, "box">> \in host'.homes \/ HomeWaits(d)'
  <2>1. BoxKnown(d)
    BY <1>1, <1>5 DEF BoxKnown, BeforeMaps
  <2>2. <<d, "box">> \in host.homes \/ HomeWaits(d) \/ HomeComes(d)
    BY <1>1, <1>5, <2>1 DEF MailInv, HomesMade
  <2>3. HomeWaits(d) => HomeWaits(d)'
    BY <1>1 DEF HomeWaits
  <2>4. HomeComes(d) => HomeWaits(d)'
    BY <1>1, <1>5 DEF HomeWaits, HomeComes
  <2> QED
    BY <1>5, <2>2, <2>3, <2>4
<1>6. HomesMade'
  BY <1>1, <1>5 DEF HomesMade
<1> QED
  BY <1>2, <1>3, <1>4, <1>6 DEF MailInv

-----------------------------------------------------------------------------
(* Requests.                                                               *)

\* A request changes a mailbox or an alias of its domain and leaves a job.
LEMMA MailEnqueues ==
    ASSUME MailInv, NEW t \in Mail!Types, NEW d \in MailDomains, NEW id \in Nat,
           Mail!Enqueue(t, d, id), UNCHANGED <<host, worker, failures, retired, lost>>,
           rows' \in MailRow, acked' \in [MailDomains -> Mail!Box],
           MailRowsNested', rows'.mail = rows.mail, rows'.domain = rows.domain,
           rows'.zone = rows.zone, rows'.alias \subseteq rows.alias \cup {d},
           \A e \in MailDomains \ {d} : rows'.box[e] = rows.box[e] /\ acked'[e] = acked[e],
           t # "domain.delete" \/ rows' = rows,
           \/ rows'.box = rows.box /\ acked' = acked
           \/ /\ t # "domain.delete" /\ rows'.box[d].id = acked'[d].id
              /\ rows'.box[d].hash = acked'[d].hash,
           \/ overlap' = Mail!Touched(d)
           \/ overlap' = overlap /\ rows'.box = rows.box /\ rows'.alias \subseteq rows.alias
    PROVE  MailInv'
<1> DEFINE j == [n |-> changes + 1, type |-> t, dom |-> d, box |-> id, attempts |-> 0]
<1>1. /\ j \in Mail!Job /\ jobs' = jobs \cup {j} /\ j.type = t /\ j.dom = d
      /\ changes' \in 0..MaxChanges
  BY Bounds DEF Mail!Enqueue, MailInv, Mail!TypeOK, Mail!Job
<1> HIDE DEF j
<1>2. overlap' \subseteq MailDomains /\ overlap \subseteq overlap'
  BY DEF MailInv, Mail!TypeOK, Mail!Touched
<1>3. Mail!TypeOK'
  BY <1>1, <1>2 DEF MailInv, Mail!TypeOK, MailRow
<1>4. MailWorker' /\ MailStepOfJob'
  BY DEF MailInv, MailWorker, MailStepOfJob
<1>5. CopyOfRow'
  BY <1>1 DEF MailInv, CopyOfRow, MailWorker, MailRunning, Mail!Job
<1>6. d \in overlap' \/ (rows'.box = rows.box /\ rows'.alias \subseteq rows.alias)
      \/ worker.pc = "idle" \/ worker.job.dom # d
      \/ worker.job.type \notin {"mailbox.provision", "domain.delete"}
  BY DEF Mail!Touched
<1>7. BoxAcked'
  <2>1. Mail!ChangeLostOnlyByOverlap'
    BY <1>2 DEF MailInv, BoxAcked, Mail!ChangeLostOnlyByOverlap
  <2>2. ASSUME worker.pc # "idle", worker.job.type = "mailbox.provision",
               worker.job.dom \notin overlap'
        PROVE  /\ worker.copy.id = rows'.box[worker.job.dom].id
               /\ worker.copy.hash = rows'.box[worker.job.dom].hash
    <3>1. worker.job.dom \in MailDomains
      BY <2>2 DEF MailInv, Mail!TypeOK, Mail!Job
    <3>2. rows'.box[worker.job.dom] = rows.box[worker.job.dom]
      BY <1>6, <2>2, <3>1
    <3> QED
      BY <1>2, <2>2, <3>2 DEF MailInv, BoxAcked
  <2> QED
    BY <2>1, <2>2 DEF BoxAcked
<1>8. ZoneLast'
  <2> SUFFICES ASSUME NEW e \in MailDomains \ overlap'
               PROVE  /\ e \notin rows'.zone => rows'.box[e].id = 0 /\ e \notin rows'.mail
                      /\ worker.pc \in DeletionSteps /\ worker.dom = e =>
                          /\ worker.pc \in {"delBoxes", "delMailDomain"} => e \notin rows'.alias
                          /\ worker.pc = "delMailDomain" => rows'.box[e].id = 0
                          /\ worker.pc \in {"delZone", "delDomain"} =>
                                rows'.box[e].id = 0 /\ e \notin rows'.mail
    BY DEF ZoneLast
  <2>1. e \notin overlap
    BY <1>2
  <2>2. e \notin rows'.zone => rows'.box[e].id = 0 /\ e \notin rows'.mail
    BY <2>1 DEF MailInv, ZoneLast, MailRowsNested
  <2>3. ASSUME worker.pc \in DeletionSteps, worker.dom = e
        PROVE  rows'.box[e] = rows.box[e] /\ (e \in rows'.alias => e \in rows.alias)
    BY <1>6, <2>3 DEF MailInv, MailStepOfJob, DeletionSteps
  <2> QED
    BY <2>1, <2>2, <2>3 DEF MailInv, ZoneLast
<1>9. KeysServed'
  BY DEF MailInv, KeysServed, Mail!SignedWithServedKey, KeyServed, Mail!Recipients
<1>10. HomesMade'
  <2> SUFFICES ASSUME ~lost, NEW e \in MailDomains \ retired, BoxKnown(e)'
               PROVE  <<e, "box">> \in host.homes \/ HomeWaits(e)' \/ HomeComes(e)'
    BY DEF MailInv, HomesMade
  <2>1. CASE e = d /\ rows'.box # rows.box
    BY <1>1, <2>1 DEF HomeWaits
  <2>2. CASE rows'.box[e] = rows.box[e]
    <3>1. <<e, "box">> \in host.homes \/ HomeWaits(e) \/ HomeComes(e)
      BY <2>2 DEF MailInv, HomesMade, BoxKnown, Mail!Recipients
    <3> QED
      BY <1>1, <2>2, <3>1 DEF HomeWaits, HomeComes, Mail!Recipients
  <2> QED
    BY <2>1, <2>2
<1>11. MapsAgree'
  <2>1. CASE t # "domain.delete"
    BY <1>1, <2>1 DEF MapsAgree, MapsWait
  <2>2. CASE rows' = rows
    BY <1>1, <2>2 DEF MailInv, MapsAgree, MapsWait, SnapAgrees, MapAgrees, Mail!Now,
       Mail!InForce
  <2> QED
    BY <2>1, <2>2
<1> QED
  BY <1>3, <1>4, <1>5, <1>7, <1>8, <1>9, <1>10, <1>11 DEF MailInv

LEMMA MailRequest == MailInv /\ Mail!Request => MailInv'
<1> SUFFICES ASSUME MailInv, NEW d \in MailDomains,
                    \/ Mail!PutBox(d) \/ Mail!DeleteBox(d) \/ Mail!PutAlias(d)
                    \/ Mail!DeleteAlias(d) \/ Mail!SetCatchall(d) \/ Mail!RequestDelete(d)
             PROVE  MailInv'
  BY DEF Mail!Request
<1>0. rows \in MailRow /\ acked \in [MailDomains -> Mail!Box] /\ changes \in Nat
      /\ MailRowsNested /\ rows.box[d] \in Mail!Box
  BY DEF MailInv, Mail!TypeOK, MailRow
<1> USE DEF Mail!Types
<1>1. CASE Mail!PutBox(d)
  <2> DEFINE new == [id |-> IF rows.box[d].id = 0 THEN changes + 1 ELSE rows.box[d].id,
                     hash |-> changes + 1, status |-> "provisioning"]
  <2>1. new \in Mail!Box
    BY <1>0 DEF Mail!Box
  <2>2. /\ d \in rows.mail /\ Mail!Enqueue("mailbox.provision", d, new.id)
        /\ rows' = [rows EXCEPT !.box[d] = new] /\ acked' = [acked EXCEPT ![d] = new]
        /\ overlap' = Mail!Touched(d)
        /\ UNCHANGED <<host, worker, failures, retired, lost>>
    BY <1>1 DEF Mail!PutBox
  <2> HIDE DEF new
  <2>3. new.id \in Nat
    BY <2>1 DEF Mail!Box
  <2>4. /\ rows' \in MailRow /\ rows'.box = [rows.box EXCEPT ![d] = new]
        /\ rows'.mail = rows.mail /\ rows'.domain = rows.domain /\ rows'.zone = rows.zone
        /\ rows'.alias = rows.alias /\ rows'.catchall = rows.catchall
    BY <1>0, <2>1, <2>2 DEF MailRow
  <2>5. MailRowsNested'
    BY <1>0, <2>2, <2>4 DEF MailRowsNested, MailRow
  <2>6. /\ acked' \in [MailDomains -> Mail!Box]
        /\ \A e \in MailDomains \ {d} : rows'.box[e] = rows.box[e] /\ acked'[e] = acked[e]
        /\ rows'.box[d] = new /\ acked'[d] = new
    BY <1>0, <2>1, <2>2, <2>4, SMTT(30) DEF MailRow
  <2> QED
    BY <2>2, <2>3, <2>4, <2>5, <2>6, MailEnqueues
<1>2. CASE Mail!DeleteBox(d)
  <2>1. /\ d \notin rows.alias /\ Mail!Enqueue("mailbox.delete", d, rows.box[d].id)
        /\ rows' = [rows EXCEPT !.box[d] = Mail!NoBox]
        /\ acked' = [acked EXCEPT ![d] = Mail!NoBox] /\ overlap' = Mail!Touched(d)
        /\ UNCHANGED <<host, worker, failures, retired, lost>>
    BY <1>2 DEF Mail!DeleteBox
  <2>2. Mail!NoBox \in Mail!Box /\ Mail!NoBox.id = 0 /\ rows.box[d].id \in Nat
    BY <1>0 DEF Mail!NoBox, Mail!Box
  <2>3. /\ rows' \in MailRow /\ rows'.box = [rows.box EXCEPT ![d] = Mail!NoBox]
        /\ rows'.mail = rows.mail /\ rows'.domain = rows.domain /\ rows'.zone = rows.zone
        /\ rows'.alias = rows.alias /\ rows'.catchall = rows.catchall
    BY <1>0, <2>1, <2>2 DEF MailRow
  <2>4. MailRowsNested'
    BY <1>0, <2>2, <2>3 DEF MailRowsNested, MailRow
  <2>5. /\ acked' \in [MailDomains -> Mail!Box]
        /\ \A e \in MailDomains \ {d} : rows'.box[e] = rows.box[e] /\ acked'[e] = acked[e]
        /\ rows'.box[d] = Mail!NoBox /\ acked'[d] = Mail!NoBox
    BY <1>0, <2>1, <2>2, <2>3 DEF MailRow
  <2> QED
    BY <2>1, <2>2, <2>3, <2>4, <2>5, MailEnqueues
<1>3. CASE Mail!PutAlias(d)
  <2>1. /\ d \in rows.mail /\ Mail!Enqueue("mail.alias", d, 0)
        /\ rows' = [rows EXCEPT !.alias = @ \cup {d}] /\ overlap' = Mail!Touched(d)
        /\ UNCHANGED <<host, worker, failures, acked, retired, lost>>
    BY <1>3 DEF Mail!PutAlias
  <2>2. /\ rows' \in MailRow /\ rows'.box = rows.box
        /\ rows'.mail = rows.mail /\ rows'.domain = rows.domain /\ rows'.zone = rows.zone
        /\ rows'.alias = rows.alias \cup {d} /\ rows'.catchall = rows.catchall
    BY <1>0, <2>1 DEF MailRow
  <2>3. MailRowsNested'
    BY <1>0, <2>1, <2>2 DEF MailRowsNested
  <2> QED
    BY <1>0, <2>1, <2>2, <2>3, MailEnqueues
<1>4. CASE Mail!DeleteAlias(d)
  <2>1. /\ Mail!Enqueue("mail.alias", d, 0) /\ rows' = [rows EXCEPT !.alias = @ \ {d}]
        /\ UNCHANGED <<host, worker, failures, acked, overlap, retired, lost>>
    BY <1>4 DEF Mail!DeleteAlias
  <2>2. /\ rows' \in MailRow /\ rows'.box = rows.box
        /\ rows'.mail = rows.mail /\ rows'.domain = rows.domain /\ rows'.zone = rows.zone
        /\ rows'.alias = rows.alias \ {d} /\ rows'.catchall = rows.catchall
    BY <1>0, <2>1 DEF MailRow
  <2>3. MailRowsNested'
    BY <1>0, <2>1, <2>2 DEF MailRowsNested
  <2> QED
    BY <1>0, <2>1, <2>2, <2>3, MailEnqueues
<1>5. CASE Mail!SetCatchall(d)
  <2>1. /\ d \in rows.mail /\ Mail!Enqueue("mail.maps", d, 0)
        /\ rows' = [rows EXCEPT !.catchall = IF d \in @ THEN @ \ {d} ELSE @ \cup {d}]
        /\ UNCHANGED <<host, worker, failures, acked, overlap, retired, lost>>
    BY <1>5 DEF Mail!SetCatchall
  <2>2. /\ rows' \in MailRow /\ rows'.box = rows.box
        /\ rows'.mail = rows.mail /\ rows'.domain = rows.domain /\ rows'.zone = rows.zone
        /\ rows'.alias = rows.alias /\ rows'.catchall \subseteq rows.catchall \cup {d}
    BY <1>0, <2>1 DEF MailRow
  <2>3. MailRowsNested'
    BY <1>0, <2>1, <2>2 DEF MailRowsNested
  <2> QED
    BY <1>0, <2>1, <2>2, <2>3, MailEnqueues
<1>6. CASE Mail!RequestDelete(d)
  <2>1. /\ Mail!Enqueue("domain.delete", d, 0)
        /\ UNCHANGED <<rows, host, worker, failures, acked, overlap, retired, lost>>
    BY <1>6 DEF Mail!RequestDelete
  <2>2. MailRowsNested'
    BY <1>0, <2>1 DEF MailRowsNested
  <2> QED
    BY <1>0, <2>1, <2>2, MailEnqueues
<1> QED
  BY <1>1, <1>2, <1>3, <1>4, <1>5, <1>6

LEMMA MailClaim == MailInv /\ Mail!Claim => MailInv'
<1> SUFFICES ASSUME MailInv, Mail!Claim PROVE MailInv'
  OBVIOUS
<1> DEFINE Job(j) == [j EXCEPT !.attempts = @ + 1]
           Start(j, step) == worker' = [pc |-> step, job |-> Job(j), snap |-> Mail!NoSnap,
                                        copy |-> rows.box[j.dom], left |-> {},
                                        dom |-> j.dom]
<1>1. /\ worker.pc = "idle" /\ UNCHANGED <<rows, host, retired, failures>>
      /\ UNCHANGED <<changes, acked, overlap>>
  BY DEF Mail!Claim, Mail!NoRequest
<1>2. PICK j \in jobs : /\ jobs' = jobs \ {j}
        /\ \/ /\ j.type # "domain.delete" /\ Start(j, "snapDomains") /\ UNCHANGED lost
           \/ /\ j.type = "mailbox.provision" /\ rows.box[j.dom].id # j.box
              /\ lost' = TRUE /\ UNCHANGED worker
           \/ /\ j.type = "domain.delete" /\ j.dom \in rows.domain
              /\ Start(j, "retire") /\ UNCHANGED lost
           \/ /\ j.type = "domain.delete" /\ j.dom \notin rows.domain
              /\ UNCHANGED <<worker, lost>>
  BY DEF Mail!Claim
<1>3. j \in Mail!Job /\ j.dom \in MailDomains /\ jobs' \subseteq Mail!Job
  BY <1>2 DEF MailInv, Mail!TypeOK, Mail!Job
<1>4. Job(j) \in Mail!Job /\ Job(j).type = j.type /\ Job(j).dom = j.dom
  BY <1>3 DEF Mail!Job
<1>5. Mail!NoSnap \in MailSnap
  BY DEF Mail!NoSnap, MailSnap, Mail!NoBox, Mail!Box
<1>6. rows.box[j.dom] \in Mail!Box
  BY <1>3 DEF MailInv, Mail!TypeOK
<1> HIDE DEF Job
<1>7. ASSUME NEW step \in {"snapDomains", "retire"}, Start(j, step)
      PROVE  /\ worker' \in MailRunning /\ worker'.pc = step /\ worker'.job = Job(j)
             /\ worker'.copy = rows.box[j.dom] /\ worker'.dom = j.dom
  BY <1>3, <1>4, <1>5, <1>6, <1>7 DEF MailRunning, Mail!Steps
<1>8. lost' \in BOOLEAN /\ (~lost' => ~lost)
  <2>1. lost \in BOOLEAN
    BY DEF MailInv, Mail!TypeOK
  <2>2. lost' = lost \/ lost' = TRUE
    BY <1>2
  <2> QED
    BY <2>1, <2>2, Zenon
<1>9. /\ worker' = worker \/ (worker' \in MailRunning /\ worker'.job = Job(j)
            /\ worker'.copy = rows.box[j.dom] /\ worker'.dom = j.dom
            /\ \/ worker'.pc = "snapDomains" /\ j.type # "domain.delete"
               \/ /\ worker'.pc = "retire" /\ j.type = "domain.delete"
                  /\ j.dom \in rows.domain)
      /\ worker' = worker => lost' \/ (j.type = "domain.delete" /\ j.dom \notin rows.domain)
  BY <1>1, <1>2, <1>7
<1>10. Mail!TypeOK' /\ MailWorker'
  BY <1>1, <1>3, <1>8, <1>9 DEF MailInv, Mail!TypeOK, MailWorker, MailRunning
<1>11. MailStepOfJob' /\ MailRowsNested'
  BY <1>1, <1>4, <1>9 DEF MailInv, MailStepOfJob, MailRowsNested, DeletionSteps
<1>12. CopyOfRow' /\ BoxAcked'
  BY <1>1, <1>4, <1>9 DEF MailInv, CopyOfRow, BoxAcked, Mail!ChangeLostOnlyByOverlap
<1>13. ZoneLast' /\ KeysServed'
  BY <1>1, <1>9 DEF MailInv, ZoneLast, KeysServed, DeletionSteps, Mail!SignedWithServedKey
<1>14. HomesMade'
  <2> SUFFICES ASSUME ~lost', NEW d \in MailDomains \ retired, BoxKnown(d)'
               PROVE  <<d, "box">> \in host.homes \/ HomeWaits(d)' \/ HomeComes(d)'
    BY <1>1, <1>9 DEF MailInv, HomesMade
  <2>1. BoxKnown(d)
    BY <1>1, <1>9 DEF BoxKnown, BeforeMaps
  <2>2. <<d, "box">> \in host.homes \/ HomeWaits(d)
    BY <1>1, <1>8, <2>1 DEF MailInv, HomesMade, HomeComes
  <2>3. CASE HomeWaits(d)
    BY <1>2, <1>4, <1>9, <2>3 DEF HomeWaits, HomeComes, MailRunning
  <2> QED
    BY <2>2, <2>3
<1>15. MapsAgree'
  <2>1. CASE worker' = worker
    <3> SUFFICES ASSUME ~lost', ~MapsWait' PROVE ~MapsWait /\ ~lost
      BY <1>1, <2>1 DEF MailInv, MapsAgree, SnapAgrees, MapAgrees, Mail!Now, Mail!InForce,
         BeforeMaps
    <3> QED
      BY <1>1, <1>2, <1>8, <1>9, <2>1 DEF MapsWait
  <2>2. CASE worker' # worker
    BY <1>9, <2>2 DEF MapsAgree, BeforeMaps
  <2> QED
    BY <2>1, <2>2
<1> QED
  BY <1>10, <1>11, <1>12, <1>13, <1>14, <1>15 DEF MailInv

LEMMA MailCrash == MailInv /\ Mail!Crash => MailInv'
<1> SUFFICES ASSUME MailInv, Mail!Crash PROVE MailInv'
  OBVIOUS
<1>1. /\ worker.pc # "idle" /\ UNCHANGED <<rows, host, retired, changes, acked, overlap>>
  BY DEF Mail!Crash, Mail!NoRequest
<1>2. MailStops
  BY <1>1, MailFails DEF Mail!Crash
<1>3. host' \in MailHost /\ retired' \subseteq MailDomains /\ Mail!SignedWithServedKey'
  BY <1>1 DEF MailInv, Mail!TypeOK, MailHost, KeysServed, Mail!SignedWithServedKey
<1> QED
  BY <1>1, <1>2, <1>3, MailStopsEarly

-----------------------------------------------------------------------------
(* deleteDomain.                                                           *)

LEMMA MailRetires == MailInv /\ Mail!RetireDomain => MailInv'
<1> SUFFICES ASSUME MailInv, Mail!RetireDomain PROVE MailInv'
  OBVIOUS
<1>1. /\ worker.pc = "retire" /\ UNCHANGED <<rows, changes, acked, overlap>>
      /\ worker \in MailRunning
  BY DEF Mail!RetireDomain, Mail!NoRequest, MailInv, MailWorker
<1>2. /\ worker.job.type = "domain.delete" /\ worker.dom = worker.job.dom
      /\ worker.dom \in rows.domain /\ worker.dom \in MailDomains
  BY <1>1 DEF MailInv, MailStepOfJob, DeletionSteps, MailRunning
<1> DEFINE d == worker.dom
<1>3. CASE UNCHANGED <<host, retired>> /\ Mail!Retry
  <2>1. MailStops
    BY <1>1, <1>2, <1>3, MailFails
  <2>2. host' \in MailHost /\ retired' \subseteq MailDomains /\ Mail!SignedWithServedKey'
    BY <1>3 DEF MailInv, Mail!TypeOK, MailHost, KeysServed, Mail!SignedWithServedKey
  <2> QED
    BY <1>1, <1>3, <2>1, <2>2, MailStopsEarly
<1>4. CASE /\ host' = [host EXCEPT !.homes = {h \in @ : h[1] # d}, !.key[d] = 0,
                                   !.served[d] = 0]
           /\ retired' = retired \cup {d}
           /\ Mail!Goto("delAliases") \/ Mail!Retry
  <2>1. /\ host' \in MailHost /\ host'.homes = {h \in host.homes : h[1] # d}
        /\ host'.key = [host.key EXCEPT ![d] = 0]
        /\ host'.served = [host.served EXCEPT ![d] = 0]
        /\ host'.files = host.files /\ host'.db = host.db /\ host'.signing = host.signing
    BY <1>2, <1>4 DEF MailInv, Mail!TypeOK, MailHost
  <2>2. retired' \subseteq MailDomains /\ retired \subseteq retired' /\ d \in retired'
    BY <1>2, <1>4 DEF MailInv, Mail!TypeOK
  <2>3. Mail!SignedWithServedKey'
    BY <2>1, <2>2 DEF MailInv, Mail!TypeOK, MailHost, KeysServed, Mail!SignedWithServedKey
  <2>4. \A e \in MailDomains \ retired' :
              <<e, "box">> \in host.homes => <<e, "box">> \in host'.homes
    BY <2>1, <2>2
  <2>5. CASE Mail!Retry
    <3>1. MailStops
      BY <1>1, <1>2, <2>5, MailFails
    <3> QED
      BY <1>1, <2>1, <2>2, <2>3, <2>4, <3>1, MailStopsEarly
  <2>6. CASE Mail!Goto("delAliases")
    <3>1. MailOn("delAliases") /\ MailSame
      BY <1>1, <2>6, MailGoto DEF Mail!Steps
    <3>2. Mail!TypeOK' /\ MailWorker' /\ MailStepOfJob' /\ MailRowsNested'
      BY <1>1, <1>2, <2>1, <2>2, <3>1 DEF MailInv, Mail!TypeOK, MailHost, MailWorker,
         MailRunning, MailStepOfJob, MailRowsNested, DeletionSteps, MailOn, MailSame
    <3>3. CopyOfRow' /\ BoxAcked' /\ ZoneLast' /\ KeysServed'
      BY <1>1, <1>2, <2>3, <3>1 DEF MailInv, CopyOfRow, BoxAcked, ZoneLast, KeysServed,
         DeletionSteps, Mail!ChangeLostOnlyByOverlap, MailOn, MailSame
    <3>4. HomesMade'
      BY <1>1, <1>2, <2>1, <2>2, <2>4, <3>1 DEF MailInv, HomesMade, BoxKnown, HomeWaits,
         HomeComes, BeforeMaps, MailOn
    <3>5. MapsAgree'
      BY <3>1 DEF MapsAgree, BeforeMaps, MailOn
    <3> QED
      BY <3>2, <3>3, <3>4, <3>5 DEF MailInv
  <2> QED
    BY <1>4, <2>5, <2>6
<1> QED
  BY <1>3, <1>4 DEF Mail!RetireDomain

\* A statement of deleteDomain: rows go, and the attempt goes on.
LEMMA MailDeletes ==
    ASSUME MailInv, worker.pc \in DeletionSteps,
           NEW step \in DeletionSteps \cup {"snapDomains"}, Mail!Goto(step),
           UNCHANGED <<host, retired, changes, overlap>>,
           rows' \in MailRow, acked' \in [MailDomains -> Mail!Box], MailRowsNested',
           step \in DeletionSteps => rows'.domain = rows.domain,
           \A e \in MailDomains : rows'.box[e] = rows.box[e] \/ rows'.box[e].id = 0,
           Mail!ChangeLostOnlyByOverlap',
           \A e \in MailDomains \ overlap :
              /\ e \notin rows'.zone => rows'.box[e].id = 0 /\ e \notin rows'.mail
              /\ step \in DeletionSteps /\ worker.dom = e =>
                    /\ step \in {"delBoxes", "delMailDomain"} => e \notin rows'.alias
                    /\ step = "delMailDomain" => rows'.box[e].id = 0
                    /\ step \in {"delZone", "delDomain"} =>
                          rows'.box[e].id = 0 /\ e \notin rows'.mail
    PROVE  MailInv'
<1>1. MailOn(step) /\ MailSame
  BY MailGoto DEF DeletionSteps, Mail!Steps
<1>2. worker.job.type = "domain.delete" /\ worker.dom = worker.job.dom
      /\ worker.dom \in rows.domain
  BY DEF MailInv, MailStepOfJob
<1>3. Mail!TypeOK' /\ MailWorker' /\ MailStepOfJob'
  BY <1>1, <1>2 DEF MailInv, Mail!TypeOK, MailRow, MailWorker, MailRunning, MailStepOfJob,
     DeletionSteps, MailOn, MailSame
<1>4. CopyOfRow' /\ BoxAcked' /\ ZoneLast' /\ KeysServed'
  BY <1>1, <1>2 DEF MailInv, CopyOfRow, BoxAcked, ZoneLast, KeysServed,
     Mail!SignedWithServedKey, DeletionSteps, MailOn, MailSame
<1>5. HomesMade'
  <2> SUFFICES ASSUME ~lost, NEW d \in MailDomains \ retired, BoxKnown(d)'
               PROVE  <<d, "box">> \in host.homes \/ HomeWaits(d)'
    BY <1>1 DEF HomesMade, MailOn, DeletionSteps
  <2>1. BoxKnown(d)
    BY <1>1 DEF BoxKnown, BeforeMaps, DeletionSteps, MailOn
  <2> QED
    BY <1>1, <1>2, <2>1 DEF MailInv, HomesMade, HomeWaits, HomeComes, MailOn
<1>6. MapsAgree'
  BY <1>1 DEF MapsAgree, BeforeMaps, DeletionSteps, MailOn
<1> QED
  BY <1>3, <1>4, <1>5, <1>6 DEF MailInv

LEMMA MailDeletion == MailInv /\ Mail!DeleteDomain => MailInv'
<1> SUFFICES ASSUME MailInv, Mail!DeleteDomain PROVE MailInv'
  OBVIOUS
<1> DEFINE d == worker.dom
<1>0. CASE Mail!RetireDomain
  BY <1>0, MailRetires
<1>1. rows \in MailRow /\ acked \in [MailDomains -> Mail!Box] /\ MailRowsNested
      /\ Mail!ChangeLostOnlyByOverlap
  BY DEF MailInv, Mail!TypeOK, MailRow, BoxAcked
<1>2. worker.pc \in DeletionSteps => d \in MailDomains
  BY DEF MailInv, MailWorker, MailRunning, DeletionSteps
<1>3. Mail!NoBox \in Mail!Box /\ Mail!NoBox.id = 0
  BY DEF Mail!NoBox, Mail!Box
<1>4. CASE Mail!DeleteAliases
  <2>1. /\ worker.pc = "delAliases" /\ rows' = [rows EXCEPT !.alias = @ \ {d}]
        /\ Mail!Goto("delBoxes") /\ UNCHANGED <<host, retired, changes, acked, overlap>>
    BY <1>4 DEF Mail!DeleteAliases, Mail!NoRequest
  <2>2. /\ rows' \in MailRow /\ rows'.alias = rows.alias \ {d} /\ rows'.box = rows.box
        /\ rows'.mail = rows.mail /\ rows'.zone = rows.zone /\ rows'.domain = rows.domain
        /\ rows'.catchall = rows.catchall
    BY <1>1, <2>1 DEF MailRow
  <2>3. MailRowsNested' /\ Mail!ChangeLostOnlyByOverlap'
    BY <1>1, <2>1, <2>2 DEF MailRowsNested, Mail!ChangeLostOnlyByOverlap
  <2>4. ZoneLast
    BY DEF MailInv
  <2> QED
    BY <1>1, <2>1, <2>2, <2>3, <2>4, MailDeletes DEF DeletionSteps, ZoneLast
<1>5. CASE Mail!DeleteBoxes
  <2>1. /\ worker.pc = "delBoxes" /\ rows' = [rows EXCEPT !.box[d] = Mail!NoBox]
        /\ acked' = [acked EXCEPT ![d] = Mail!NoBox]
        /\ Mail!Goto("delMailDomain") /\ UNCHANGED <<host, retired, changes, overlap>>
    BY <1>5 DEF Mail!DeleteBoxes
  <2>2. d \in MailDomains
    BY <1>2, <2>1 DEF DeletionSteps
  <2>3. /\ rows' \in MailRow /\ rows'.box = [rows.box EXCEPT ![d] = Mail!NoBox]
        /\ rows'.mail = rows.mail /\ rows'.zone = rows.zone /\ rows'.domain = rows.domain
        /\ rows'.catchall = rows.catchall /\ rows'.alias = rows.alias
        /\ acked' \in [MailDomains -> Mail!Box]
    BY <1>1, <1>3, <2>1, <2>2 DEF MailRow
  <2>4. \A e \in MailDomains : /\ e = d => rows'.box[e] = Mail!NoBox /\ acked'[e] = Mail!NoBox
                               /\ e # d => rows'.box[e] = rows.box[e] /\ acked'[e] = acked[e]
    BY <1>1, <2>1, <2>3 DEF MailRow
  <2>5. MailRowsNested' /\ Mail!ChangeLostOnlyByOverlap'
    BY <1>1, <1>3, <2>1, <2>3, <2>4, SMTT(30) DEF MailRowsNested,
       Mail!ChangeLostOnlyByOverlap
  <2>6. ZoneLast
    BY DEF MailInv
  <2> QED
    BY <1>1, <1>3, <2>1, <2>3, <2>4, <2>5, <2>6, MailDeletes DEF DeletionSteps, ZoneLast
<1>6. CASE Mail!DeleteMailDomain
  <2>1. /\ worker.pc = "delMailDomain"
        /\ rows' = IF rows.box[d].id = 0 /\ d \notin rows.alias
                   THEN [rows EXCEPT !.mail = @ \ {d}, !.catchall = @ \ {d}] ELSE rows
        /\ Mail!Goto("delZone") /\ UNCHANGED <<host, retired, changes, acked, overlap>>
    BY <1>6 DEF Mail!DeleteMailDomain, Mail!NoRequest
  <2>2. /\ rows' \in MailRow /\ rows'.box = rows.box /\ rows'.alias = rows.alias
        /\ rows'.zone = rows.zone /\ rows'.domain = rows.domain
        /\ \/ /\ rows.box[d].id = 0 /\ d \notin rows.alias
              /\ rows'.mail = rows.mail \ {d} /\ rows'.catchall = rows.catchall \ {d}
           \/ /\ ~(rows.box[d].id = 0 /\ d \notin rows.alias)
              /\ rows'.mail = rows.mail /\ rows'.catchall = rows.catchall
    BY <1>1, <2>1 DEF MailRow
  <2>3. MailRowsNested' /\ Mail!ChangeLostOnlyByOverlap'
    BY <1>1, <2>1, <2>2 DEF MailRowsNested, Mail!ChangeLostOnlyByOverlap
  <2>4. ZoneLast
    BY DEF MailInv
  <2> QED
    BY <1>1, <2>1, <2>2, <2>3, <2>4, MailDeletes DEF DeletionSteps, ZoneLast
<1>7. CASE Mail!DeleteZone
  <2>1. /\ worker.pc = "delZone" /\ rows' = [rows EXCEPT !.zone = @ \ {d}]
        /\ Mail!Goto("delDomain") /\ UNCHANGED <<host, retired, changes, acked, overlap>>
    BY <1>7 DEF Mail!DeleteZone, Mail!NoRequest
  <2>2. /\ rows' \in MailRow /\ rows'.alias = rows.alias /\ rows'.box = rows.box
        /\ rows'.mail = rows.mail /\ rows'.zone = rows.zone \ {d}
        /\ rows'.domain = rows.domain /\ rows'.catchall = rows.catchall
    BY <1>1, <2>1 DEF MailRow
  <2>3. MailRowsNested' /\ Mail!ChangeLostOnlyByOverlap'
    BY <1>1, <2>1, <2>2 DEF MailRowsNested, Mail!ChangeLostOnlyByOverlap
  <2>4. ZoneLast
    BY DEF MailInv
  <2> QED
    BY <1>1, <2>1, <2>2, <2>3, <2>4, MailDeletes DEF DeletionSteps, ZoneLast
<1>8. CASE Mail!DeleteDomainRow
  <2>1. /\ worker.pc = "delDomain"
        /\ rows' = IF d \notin rows.mail THEN [rows EXCEPT !.domain = @ \ {d}] ELSE rows
        /\ Mail!Goto("snapDomains") /\ UNCHANGED <<host, retired, changes, acked, overlap>>
    BY <1>8 DEF Mail!DeleteDomainRow, Mail!NoRequest
  <2>2. /\ rows' \in MailRow /\ rows'.alias = rows.alias /\ rows'.box = rows.box
        /\ rows'.mail = rows.mail /\ rows'.zone = rows.zone
        /\ rows'.catchall = rows.catchall
        /\ \/ rows'.domain = rows.domain
           \/ d \notin rows.mail /\ rows'.domain = rows.domain \ {d}
    BY <1>1, <2>1 DEF MailRow
  <2>3. MailRowsNested' /\ Mail!ChangeLostOnlyByOverlap'
    BY <1>1, <2>1, <2>2 DEF MailRowsNested, Mail!ChangeLostOnlyByOverlap
  <2>4. ZoneLast
    BY DEF MailInv
  <2> QED
    BY <1>1, <2>1, <2>2, <2>3, <2>4, MailDeletes DEF DeletionSteps, ZoneLast
<1> QED
  BY <1>0, <1>4, <1>5, <1>6, <1>7, <1>8 DEF Mail!DeleteDomain

-----------------------------------------------------------------------------
(* applyMailStack.                                                         *)

StackSteps == {"snapDomains", "snapBoxes", "homes", "catchall", "maps", "postmap",
               "dkim", "publish", "sign", "put"}

\* A step of the stack leaves the rows and the jobs.
LEMMA MailGoesOn ==
    ASSUME MailInv, worker.pc \in StackSteps, NEW step \in StackSteps, MailOn(step),
           step = "put" => worker.job.type = "mailbox.provision",
           UNCHANGED <<rows, changes, acked, overlap, retired>>, host' \in MailHost
    PROVE  /\ Mail!TypeOK' /\ MailWorker' /\ MailStepOfJob' /\ MailRowsNested'
           /\ CopyOfRow' /\ BoxAcked' /\ ZoneLast'
<1> USE DEF MailOn, StackSteps
<1>1. Mail!TypeOK'
  BY DEF MailInv, Mail!TypeOK, MailHost, MailRunning
<1>2. MailWorker' /\ MailStepOfJob' /\ MailRowsNested'
  BY DEF MailInv, MailWorker, MailStepOfJob, MailRowsNested, DeletionSteps
<1>3. CopyOfRow' /\ BoxAcked'
  BY DEF MailInv, CopyOfRow, BoxAcked, Mail!ChangeLostOnlyByOverlap
<1>4. ZoneLast'
  BY DEF MailInv, ZoneLast, DeletionSteps
<1> QED
  BY <1>1, <1>2, <1>3, <1>4

\* The homes that exist stay, and what comes to be known was known.
LEMMA MailHomesStay ==
    ASSUME MailInv, worker.pc \in StackSteps, NEW step \in StackSteps, MailOn(step),
           UNCHANGED <<rows, retired>>, host.homes \subseteq host'.homes,
           step = "snapBoxes" => rows.mail \subseteq worker'.snap.domains,
           \A d \in MailDomains \ retired : BoxKnown(d)' =>
              BoxKnown(d) /\ (HomeComes(d) => HomeComes(d)' \/ <<d, "box">> \in host'.homes)
    PROVE  HomesMade'
<1> SUFFICES ASSUME ~lost, NEW d \in MailDomains \ retired, BoxKnown(d)'
             PROVE  <<d, "box">> \in host'.homes \/ HomeWaits(d)' \/ HomeComes(d)'
  BY DEF HomesMade, MailOn
<1>1. <<d, "box">> \in host.homes \/ HomeWaits(d) \/ HomeComes(d)
  BY DEF MailInv, HomesMade
<1>2. HomeWaits(d) => HomeWaits(d)'
  BY DEF HomeWaits, MailOn
<1> QED
  BY <1>1, <1>2

LEMMA MailSnapsDomains == MailInv /\ Mail!SnapDomains => MailInv'
<1> SUFFICES ASSUME MailInv, Mail!SnapDomains PROVE MailInv'
  OBVIOUS
<1>1. /\ worker.pc = "snapDomains" /\ UNCHANGED <<rows, host, retired, changes, acked, overlap>>
      /\ UNCHANGED <<jobs, lost, failures>>
      /\ worker' = [worker EXCEPT !.pc = "snapBoxes",
                     !.snap.domains = rows.domain \cap rows.mail,
                     !.snap.catchall = rows.catchall \cap rows.domain]
  BY DEF Mail!SnapDomains, Mail!NoRequest
<1>2. worker \in MailRunning /\ rows \in MailRow /\ host' \in MailHost
  BY <1>1 DEF MailInv, MailWorker, Mail!TypeOK, MailRow, MailHost
<1>3. /\ MailOn("snapBoxes") /\ worker'.snap.domains = rows.domain \cap rows.mail
      /\ worker'.snap.catchall = rows.catchall \cap rows.domain
  BY <1>1, <1>2 DEF MailOn, MailRunning, MailRow, MailSnap, Mail!Steps
<1>4. rows.mail \subseteq rows.domain /\ rows.catchall \subseteq rows.domain
  BY DEF MailInv, MailRowsNested
<1>5. /\ Mail!TypeOK' /\ MailWorker' /\ MailStepOfJob' /\ MailRowsNested'
      /\ CopyOfRow' /\ BoxAcked' /\ ZoneLast'
  BY <1>1, <1>2, <1>3, MailGoesOn DEF StackSteps
<1>6. KeysServed'
  BY <1>1, <1>3 DEF MailInv, KeysServed, Mail!SignedWithServedKey, MailOn
<1>7. HomesMade'
  <2>1. \A d \in MailDomains : /\ BoxKnown(d)' => BoxKnown(d)
                               /\ HomeComes(d) => HomeComes(d)'
    BY <1>1, <1>3 DEF BoxKnown, HomeComes, BeforeMaps, MailOn
  <2> QED
    BY <1>1, <1>3, <1>4, <2>1, MailHomesStay DEF StackSteps
<1>8. MapsAgree'
  BY <1>1, <1>3, <1>4 DEF MapsAgree, BeforeMaps, MailOn
<1> QED
  BY <1>5, <1>6, <1>7, <1>8 DEF MailInv

LEMMA MailSnapsBoxes == MailInv /\ Mail!SnapBoxes => MailInv'
<1> SUFFICES ASSUME MailInv, Mail!SnapBoxes PROVE MailInv'
  OBVIOUS
<1>1. /\ worker.pc = "snapBoxes" /\ UNCHANGED <<rows, host, retired, changes, acked, overlap>>
      /\ UNCHANGED <<jobs, lost, failures>>
      /\ worker' = [worker EXCEPT !.pc = "homes", !.snap.box = rows.box,
                     !.snap.alias = rows.alias \cap worker.snap.domains]
  BY DEF Mail!SnapBoxes, Mail!NoRequest
<1>2. worker \in MailRunning /\ rows \in MailRow /\ host' \in MailHost
  BY <1>1 DEF MailInv, MailWorker, Mail!TypeOK, MailRow, MailHost
<1>3. /\ MailOn("homes") /\ worker'.snap.domains = worker.snap.domains
      /\ worker'.snap.catchall = worker.snap.catchall
      /\ worker'.snap.box = rows.box
      /\ worker'.snap.alias = rows.alias \cap worker.snap.domains
  BY <1>1, <1>2 DEF MailOn, MailRunning, MailRow, MailSnap, Mail!Steps
<1>4. /\ rows.mail \subseteq worker.snap.domains /\ rows.alias \subseteq rows.mail
      /\ \A d \in MailDomains : rows.box[d].id # 0 => d \in rows.mail
  BY <1>1 DEF MailInv, MailRowsNested, HomesMade
<1>5. /\ Mail!TypeOK' /\ MailWorker' /\ MailStepOfJob' /\ MailRowsNested'
      /\ CopyOfRow' /\ BoxAcked' /\ ZoneLast'
  BY <1>1, <1>2, <1>3, MailGoesOn DEF StackSteps
<1>6. KeysServed'
  BY <1>1, <1>3 DEF MailInv, KeysServed, Mail!SignedWithServedKey, MailOn
<1>7. HomesMade'
  <2>1. \A d \in MailDomains : d \in Mail!Recipients(worker'.snap) <=> rows.box[d].id # 0
    BY <1>3, <1>4 DEF Mail!Recipients
  <2>2. \A d \in MailDomains : /\ BoxKnown(d)' => BoxKnown(d)
                               /\ HomeComes(d) => HomeComes(d)'
    BY <1>1, <1>3, <2>1 DEF BoxKnown, HomeComes, BeforeMaps, MailOn
  <2> QED
    BY <1>1, <1>3, <1>4, <2>2, MailHomesStay DEF StackSteps
<1>8. MapsAgree'
  <2>1. ASSUME ~lost, ~MapsWait
        PROVE  /\ worker.snap.domains = rows.domain \cap rows.mail
               /\ worker.snap.catchall = rows.catchall
    BY <1>1, <2>1 DEF MailInv, MapsAgree
  <2>2. ~lost /\ ~MapsWait => SnapAgrees'
    BY <1>1, <1>3, <1>4, <2>1 DEF SnapAgrees
  <2> QED
    BY <1>1, <1>3, <2>2 DEF MapsAgree, MapsWait, BeforeMaps, MailOn
<1> QED
  BY <1>5, <1>6, <1>7, <1>8 DEF MailInv

\* A call of the stack that fails.
LEMMA MailStackFails ==
    ASSUME MailInv, worker.pc \in StackSteps,
           Mail!StackFails \/ (Mail!Ends /\ UNCHANGED failures),
           UNCHANGED <<rows, changes, acked, overlap, retired>>, host' \in MailHost,
           host'.key = host.key, host'.served = host.served, host'.signing = host.signing,
           host.homes \subseteq host'.homes,
           \A d \in MailDomains : <<d, "box", 0>> \in host'.files["virtual"] =>
              \/ <<d, "box", 0>> \in host.files["virtual"]
              \/ worker.pc \in BeforeMaps /\ d \in Mail!Recipients(worker.snap)
    PROVE  MailInv'
<1>1. worker.pc # "idle"
  BY DEF StackSteps
<1>2. MailStops
  BY <1>1, MailFails
<1>3. Mail!SignedWithServedKey' /\ retired' \subseteq MailDomains
  BY DEF MailInv, KeysServed, Mail!SignedWithServedKey, Mail!TypeOK
<1> QED
  BY <1>1, <1>2, <1>3, MailStopsEarly

LEMMA MailHomes ==
    ASSUME MailInv,
           \/ Mail!ApplyHomes
           \/ Mail!EnsureCatchallHomes
    PROVE  MailInv'
<1> DEFINE own == {e \in Mail!Recipients(worker.snap) :
                       DomainOwner[e] = DomainOwner[worker.job.dom]}
           boxes == {<<d, "box">> : d \in own}
           alls == {<<d, "all">> : d \in rows.catchall \cap rows.domain}
<1>1. PICK todo, next :
         /\ \/ worker.pc = "homes" /\ todo = boxes /\ next = "catchall"
            \/ worker.pc = "catchall" /\ todo = alls /\ next = "maps"
         /\ Mail!CreateMailboxHomes(todo, next)
  BY Zenon DEF Mail!ApplyHomes, Mail!EnsureCatchallHomes
<1>2. PICK done \in SUBSET todo :
         /\ host' = [host EXCEPT !.homes = @ \cup done]
         /\ \/ done = todo /\ Mail!Goto(next)
            \/ done # todo /\ Mail!StackFails
  BY <1>1 DEF Mail!CreateMailboxHomes
<1>3. UNCHANGED <<rows, retired, changes, acked, overlap>>
  BY <1>1 DEF Mail!CreateMailboxHomes, Mail!NoRequest
<1>4. worker \in MailRunning /\ rows \in MailRow /\ host \in MailHost
  BY <1>1 DEF MailInv, MailWorker, Mail!TypeOK, MailRow, MailHost
<1>5. own \subseteq MailDomains
  BY <1>4 DEF Mail!Recipients, MailRunning, MailSnap
<1>6. todo \subseteq MailDomains \X {"box", "all"}
  BY <1>1, <1>4, <1>5 DEF MailRow
<1>7. /\ host' \in MailHost /\ host'.homes = host.homes \cup done
      /\ host'.files = host.files /\ host'.db = host.db /\ host'.key = host.key
      /\ host'.served = host.served /\ host'.signing = host.signing
  BY <1>2, <1>4, <1>6 DEF MailHost
<1>8. CASE Mail!StackFails
  BY <1>1, <1>3, <1>7, <1>8, MailStackFails DEF StackSteps
<1>9. CASE done = todo /\ Mail!Goto(next)
  <2>1. MailOn(next) /\ MailSame
    BY <1>1, <1>9, MailGoto DEF Mail!Steps
  <2>2. next \in StackSteps /\ worker.pc \in StackSteps /\ next \in {"catchall", "maps"}
        /\ worker.pc \in {"homes", "catchall"}
    BY <1>1 DEF StackSteps
  <2>3. /\ Mail!TypeOK' /\ MailWorker' /\ MailStepOfJob' /\ MailRowsNested'
        /\ CopyOfRow' /\ BoxAcked' /\ ZoneLast'
    BY <1>3, <1>7, <2>1, <2>2, MailGoesOn
  <2>4. KeysServed'
    BY <1>3, <1>7, <2>1, <2>2 DEF MailInv, KeysServed, Mail!SignedWithServedKey, MailOn
  <2>5. HomesMade'
    <3>1. \A d \in MailDomains : BoxKnown(d)' => BoxKnown(d)
      BY <1>3, <1>7, <2>1, <2>2 DEF BoxKnown, BeforeMaps, MailOn, MailSame
    <3>2. ASSUME NEW d \in MailDomains, HomeComes(d)
          PROVE  HomeComes(d)' \/ <<d, "box">> \in host'.homes
      <4>1. CASE worker.pc = "homes" /\ d \in Mail!Recipients(worker.snap)
        <5>1. d \in own
          BY <3>2, <4>1 DEF HomeComes
        <5> QED
          BY <1>1, <1>7, <1>9, <4>1, <5>1
      <4>2. CASE rows.box[d].id = 0 /\ d \notin Mail!Recipients(worker.snap)
        BY <1>3, <2>1, <2>2, <3>2, <4>2 DEF HomeComes, BeforeMaps, MailOn, MailSame
      <4> QED
        BY <2>2, <3>2, <4>1, <4>2 DEF HomeComes
    <3> QED
      BY <1>3, <1>7, <2>1, <2>2, <3>1, <3>2, MailHomesStay
  <2>6. MapsAgree'
    BY <1>3, <2>1, <2>2 DEF MailInv, MapsAgree, MapsWait, SnapAgrees, BeforeMaps, MailOn,
       MailSame
  <2> QED
    BY <2>3, <2>4, <2>5, <2>6 DEF MailInv
<1> QED
  BY <1>2, <1>8, <1>9

\* A snapshot with the fields of the rows is rendered as the rows are.
LEMMA MailRendersNow ==
    ASSUME NEW snap \in MailSnap, rows \in MailRow,
           snap.domains = rows.domain \cap rows.mail, snap.catchall = rows.catchall,
           snap.alias = rows.alias, snap.box = rows.box
    PROVE  snap = Mail!Now
  BY DEF MailSnap, Mail!Now

LEMMA MailWritesMaps == MailInv /\ Mail!ApplyMailMaps => MailInv'
<1> SUFFICES ASSUME MailInv, Mail!ApplyMailMaps PROVE MailInv'
  OBVIOUS
<1> DEFINE maps == Mail!Render(worker.snap)
           left == Mail!LeftAlone(maps)
<1>1. /\ worker.pc = "maps" /\ UNCHANGED <<rows, retired, changes, acked, overlap>>
  BY DEF Mail!ApplyMailMaps, Mail!NoRequest
<1>2. PICK n \in 0..Len(Mail!MapFiles) :
         /\ host' = [host EXCEPT !.files =
               [f \in Mail!MapNames |-> IF f \in Mail!FirstOf(Mail!MapFiles, n) \ left
                                        THEN maps[f] ELSE @[f]]]
         /\ \/ n = Len(Mail!MapFiles) /\ Mail!Goto("postmap")
            \/ n < Len(Mail!MapFiles) /\ Mail!StackFails
  BY DEF Mail!ApplyMailMaps
<1>3. worker \in MailRunning /\ worker.snap \in MailSnap /\ rows \in MailRow
      /\ host \in MailHost
  BY <1>1 DEF MailInv, MailWorker, Mail!TypeOK, MailRow, MailHost, MailRunning
<1>4. /\ maps \in Mail!Maps
      /\ \A d \in MailDomains : <<d, "box", 0>> \in maps["virtual"] <=>
                                d \in Mail!Recipients(worker.snap)
  BY <1>3, MapsRendered
<1>5. left \subseteq {"uids", "gids"}
  BY DEF Mail!LeftAlone
<1> HIDE DEF maps, left
<1>6. /\ host'.files = [f \in Mail!MapNames |->
                           IF f \in Mail!FirstOf(Mail!MapFiles, n) \ left
                           THEN maps[f] ELSE host.files[f]]
      /\ host'.homes = host.homes /\ host'.db = host.db /\ host'.key = host.key
      /\ host'.served = host.served /\ host'.signing = host.signing
  BY <1>2, <1>3 DEF MailHost
<1>7. host'.files \in Mail!Maps
  BY <1>3, <1>4, <1>6 DEF Mail!Maps, MailHost
<1>8. host' \in MailHost
  BY <1>2, <1>3, <1>7, <1>6 DEF MailHost
<1>9. host'.files["virtual"] = maps["virtual"] \/ host'.files["virtual"] = host.files["virtual"]
  BY <1>6, MapFacts
<1>10. CASE Mail!StackFails
  <2>1. \A d \in MailDomains : <<d, "box", 0>> \in host'.files["virtual"] =>
              \/ <<d, "box", 0>> \in host.files["virtual"]
              \/ worker.pc \in BeforeMaps /\ d \in Mail!Recipients(worker.snap)
    BY <1>1, <1>4, <1>9 DEF BeforeMaps
  <2> QED
    BY <1>1, <1>6, <1>8, <1>10, <2>1, MailStackFails DEF StackSteps
<1>11. CASE n = Len(Mail!MapFiles) /\ Mail!Goto("postmap")
  <2>1. MailOn("postmap") /\ MailSame
    BY <1>1, <1>11, MailGoto DEF Mail!Steps
  <2>2. /\ Mail!TypeOK' /\ MailWorker' /\ MailStepOfJob' /\ MailRowsNested'
        /\ CopyOfRow' /\ BoxAcked' /\ ZoneLast'
    BY <1>1, <1>8, <2>1, MailGoesOn DEF StackSteps
  <2>3. KeysServed'
    BY <1>1, <1>6, <2>1 DEF MailInv, KeysServed, Mail!SignedWithServedKey, MailOn
  <2>4. \A f \in Mail!MapNames \ left : host'.files[f] = maps[f]
    BY <1>6, <1>11 DEF Mail!MapNames
  <2>5. HomesMade'
    <3>1. ASSUME NEW d \in MailDomains, BoxKnown(d)'
          PROVE  BoxKnown(d) /\ ~HomeComes(d)
      <4>1. rows.box[d].id # 0 \/ d \in Mail!Recipients(worker.snap)
        BY <1>1, <1>4, <1>5, <2>1, <2>4, <3>1, MapFacts DEF BoxKnown, BeforeMaps, MailOn
      <4> QED
        BY <1>1, <4>1 DEF BoxKnown, HomeComes, BeforeMaps
    <3> QED
      BY <1>1, <1>6, <2>1, <3>1, MailHomesStay DEF StackSteps
  <2>6. MapsAgree'
    <3> SUFFICES ASSUME ~lost', ~MapsWait'
                 PROVE  SnapAgrees' /\ \A f \in Mail!MapNames : MapAgrees(f, host.files[f])'
      BY <2>1 DEF MapsAgree, BeforeMaps, MailOn
    <3>1. ~lost /\ ~MapsWait
      BY <1>1, <2>1 DEF MailOn, MapsWait
    <3>2. SnapAgrees
      BY <1>1, <3>1 DEF MailInv, MapsAgree, BeforeMaps
    <3>3. worker.snap = Mail!Now
      BY <1>3, <3>2, MailRendersNow DEF SnapAgrees
    <3>4. SnapAgrees' /\ Mail!Now' = Mail!Now
      BY <1>1, <2>1, <3>2 DEF SnapAgrees, MailSame, Mail!Now
    <3>5. ASSUME NEW f \in Mail!MapNames PROVE MapAgrees(f, host'.files[f])
      <4>1. CASE f \in left
        <5>1. f \in {"uids", "gids"} /\ maps[f] = {}
          BY <4>1 DEF left, Mail!LeftAlone
        <5>2. Mail!Recipients(worker.snap) = {}
          BY <1>3, <5>1, MapsRendered DEF maps
        <5> QED
          BY <3>3, <5>1, <5>2 DEF MapAgrees
      <4>2. CASE f \notin left
        BY <2>4, <3>3, <4>2 DEF MapAgrees, maps
      <4> QED
        BY <4>1, <4>2
    <3> QED
      BY <3>4, <3>5 DEF MapAgrees
  <2> QED
    BY <2>2, <2>3, <2>5, <2>6 DEF MailInv
<1> QED
  BY <1>2, <1>10, <1>11

LEMMA MailCompiles == MailInv /\ Mail!Postmap => MailInv'
<1> SUFFICES ASSUME MailInv, Mail!Postmap PROVE MailInv'
  OBVIOUS
<1>1. /\ worker.pc = "postmap" /\ UNCHANGED <<rows, retired, changes, acked, overlap>>
  BY DEF Mail!Postmap, Mail!NoRequest
<1>2. PICK n \in 0..Len(Mail!Compiled) :
         /\ host' = [host EXCEPT !.db =
                [f \in Mail!MapNames |-> IF f \in Mail!FirstOf(Mail!Compiled, n)
                                         THEN host.files[f] ELSE @[f]]]
         /\ \/ /\ n = Len(Mail!Compiled)
               /\ worker' = [worker EXCEPT !.pc = "dkim",
                                 !.left = Mail!Recipients(worker.snap)]
               /\ UNCHANGED <<jobs, lost, failures>>
            \/ n < Len(Mail!Compiled) /\ Mail!StackFails
  BY DEF Mail!Postmap
<1>3. worker \in MailRunning /\ worker.snap \in MailSnap /\ host \in MailHost
  BY <1>1 DEF MailInv, MailWorker, Mail!TypeOK, MailHost, MailRunning
<1>4. /\ host'.db = [f \in Mail!MapNames |-> IF f \in Mail!FirstOf(Mail!Compiled, n)
                                             THEN host.files[f] ELSE host.db[f]]
      /\ host'.homes = host.homes /\ host'.files = host.files /\ host'.key = host.key
      /\ host'.served = host.served /\ host'.signing = host.signing
  BY <1>2, <1>3 DEF MailHost
<1>5. host'.db \in Mail!Maps
  BY <1>3, <1>4 DEF Mail!Maps, MailHost
<1>6. host' \in MailHost
  BY <1>2, <1>3, <1>4, <1>5 DEF MailHost
<1>7. CASE Mail!StackFails
  BY <1>1, <1>4, <1>6, <1>7, MailStackFails DEF StackSteps
<1>8. CASE /\ n = Len(Mail!Compiled)
           /\ worker' = [worker EXCEPT !.pc = "dkim", !.left = Mail!Recipients(worker.snap)]
           /\ UNCHANGED <<jobs, lost, failures>>
  <2>1. Mail!Recipients(worker.snap) \subseteq MailDomains
    BY <1>3, MapsRendered
  <2>2. /\ MailOn("dkim") /\ worker'.snap = worker.snap
        /\ worker'.left = Mail!Recipients(worker.snap)
    BY <1>3, <1>8, <2>1 DEF MailOn, MailRunning, Mail!Steps
  <2>3. /\ Mail!TypeOK' /\ MailWorker' /\ MailStepOfJob' /\ MailRowsNested'
        /\ CopyOfRow' /\ BoxAcked' /\ ZoneLast'
    BY <1>1, <1>6, <2>2, MailGoesOn DEF StackSteps
  <2>4. KeysServed'
    BY <1>1, <1>4, <2>2 DEF MailInv, KeysServed, Mail!SignedWithServedKey, MailOn
  <2>5. HomesMade'
    <3>1. \A d \in MailDomains : BoxKnown(d)' => BoxKnown(d) /\ ~HomeComes(d)
      BY <1>1, <1>4, <2>2 DEF BoxKnown, HomeComes, BeforeMaps, MailOn
    <3> QED
      BY <1>1, <1>4, <2>2, <3>1, MailHomesStay DEF StackSteps
  <2>6. MapsAgree'
    <3>1. ASSUME NEW f \in Mail!MapNames
          PROVE  Mail!InForce(f)' = host.files[f]
      BY <1>4, <1>8 DEF Mail!InForce
    <3>2. ASSUME ~lost, ~MapsWait
          PROVE  \A f \in Mail!MapNames : MapAgrees(f, host.files[f])
      BY <1>1, <3>2 DEF MailInv, MapsAgree
    <3>3. Mail!Now' = Mail!Now
      BY <1>1 DEF Mail!Now
    <3> QED
      BY <1>1, <2>2, <3>1, <3>2, <3>3 DEF MapsAgree, MapsWait, MapAgrees, BeforeMaps, MailOn
  <2> QED
    BY <2>3, <2>4, <2>5, <2>6 DEF MailInv
<1> QED
  BY <1>2, <1>7, <1>8

\* After postmap, what a step leaves as it was.
LEMMA MailAfterMaps ==
    ASSUME MailInv, worker.pc \in {"dkim", "publish", "sign", "put"},
           UNCHANGED <<rows, retired, jobs, lost>>,
           worker'.pc \in {"idle", "dkim", "publish", "sign", "put"},
           host'.homes = host.homes, host'.files = host.files, host'.db = host.db
    PROVE  HomesMade' /\ MapsAgree'
<1>1. \A d \in MailDomains : BoxKnown(d)' => BoxKnown(d) /\ ~HomeComes(d)
  BY DEF BoxKnown, HomeComes, BeforeMaps
<1>2. HomesMade'
  <2> SUFFICES ASSUME ~lost, NEW d \in MailDomains \ retired, BoxKnown(d)'
               PROVE  <<d, "box">> \in host'.homes \/ HomeWaits(d)'
    BY DEF HomesMade
  <2> QED
    BY <1>1 DEF MailInv, HomesMade, HomeWaits
<1>3. MapsAgree'
  BY DEF MailInv, MapsAgree, MapsWait, MapAgrees, Mail!Now, Mail!InForce, BeforeMaps
<1> QED
  BY <1>2, <1>3

LEMMA MailKeys == MailInv /\ Mail!EnsureDKIM => MailInv'
<1> SUFFICES ASSUME MailInv, Mail!EnsureDKIM PROVE MailInv'
  OBVIOUS
<1>1. /\ worker.pc = "dkim" /\ UNCHANGED <<rows, retired, changes, acked, overlap>>
  BY DEF Mail!EnsureDKIM, Mail!NoRequest
<1>2. worker \in MailRunning /\ host \in MailHost /\ changes \in Nat
      /\ worker.left \subseteq MailDomains
  BY <1>1 DEF MailInv, MailWorker, Mail!TypeOK, MailHost, MailRunning
<1>3. /\ Mail!SignedWithServedKey
      /\ \A d \in Mail!Recipients(worker.snap) \ (worker.left \cup retired) : KeyServed(d)
  BY <1>1 DEF MailInv, KeysServed
<1>4. CASE worker.left = {} /\ Mail!Goto("sign") /\ UNCHANGED host
  <2>1. MailOn("sign") /\ MailSame
    BY <1>1, <1>4, MailGoto DEF Mail!Steps
  <2>2. /\ Mail!TypeOK' /\ MailWorker' /\ MailStepOfJob' /\ MailRowsNested'
        /\ CopyOfRow' /\ BoxAcked' /\ ZoneLast'
    BY <1>1, <1>2, <1>4, <2>1, MailGoesOn DEF StackSteps
  <2>3. KeysServed'
    BY <1>1, <1>3, <1>4, <2>1 DEF KeysServed, KeyServed, Mail!SignedWithServedKey, MailOn,
       MailSame
  <2>4. HomesMade' /\ MapsAgree'
    BY <1>1, <1>4, <2>1, MailAfterMaps DEF MailOn
  <2> QED
    BY <2>2, <2>3, <2>4 DEF MailInv
<1>5. ASSUME NEW d \in worker.left, host' = [host EXCEPT !.key[d] = Mail!KeyOf(d)],
             worker' = [worker EXCEPT !.pc = "publish", !.dom = d, !.left = @ \ {d}],
             UNCHANGED <<jobs, lost, failures>>
      PROVE  MailInv'
  <2>1. /\ MailOn("publish") /\ worker'.snap = worker.snap /\ worker'.dom = d
        /\ worker'.left = worker.left \ {d}
    BY <1>2, <1>5 DEF MailOn, MailRunning, Mail!Steps
  <2>2. Mail!KeyOf(d) \in Nat /\ Mail!KeyOf(d) # 0
        /\ (host.key[d] # 0 => Mail!KeyOf(d) = host.key[d])
    BY <1>2 DEF Mail!KeyOf, Mail!NewKey, MailHost
  <2>3. /\ host' \in MailHost /\ host'.key = [host.key EXCEPT ![d] = Mail!KeyOf(d)]
        /\ host'.served = host.served /\ host'.signing = host.signing
        /\ host'.homes = host.homes /\ host'.files = host.files /\ host'.db = host.db
    BY <1>2, <1>5, <2>2 DEF MailHost
  <2>4. \A e \in MailDomains : (host.key[e] # 0 => host'.key[e] = host.key[e]) /\ host'.key[d] # 0
    BY <1>2, <2>2, <2>3 DEF MailHost
  <2>5. \A e \in MailDomains : KeyServed(e) => KeyServed(e)'
    BY <2>3, <2>4 DEF KeyServed
  <2>6. Mail!SignedWithServedKey'
    BY <1>1, <1>2, <1>3, <2>3, <2>4 DEF Mail!SignedWithServedKey, MailHost
  <2>7. Mail!Recipients(worker.snap) \subseteq MailDomains
    BY <1>2, MapsRendered DEF MailRunning
  <2>8. KeysServed'
    <3>1. \A e \in Mail!Recipients(worker.snap) \ (worker'.left \cup retired) :
              KeyServed(e)' \/ e = d
      BY <1>3, <2>1, <2>5, <2>7
    <3>2. worker'.pc = "publish" /\ host'.key[worker'.dom] # 0
      BY <2>1, <2>4, <1>2 DEF MailOn
    <3> QED
      BY <1>1, <2>1, <2>6, <3>1, <3>2 DEF KeysServed
  <2>9. /\ Mail!TypeOK' /\ MailWorker' /\ MailStepOfJob' /\ MailRowsNested'
        /\ CopyOfRow' /\ BoxAcked' /\ ZoneLast'
    BY <1>1, <2>1, <2>3, MailGoesOn DEF StackSteps
  <2>10. HomesMade' /\ MapsAgree'
    BY <1>1, <2>1, <2>3, MailAfterMaps DEF MailOn
  <2> QED
    BY <2>8, <2>9, <2>10 DEF MailInv
<1>6. CASE Mail!StackFails /\ UNCHANGED host
  BY <1>1, <1>2, <1>6, MailStackFails DEF StackSteps
<1> QED
  BY <1>4, <1>5, <1>6 DEF Mail!EnsureDKIM

LEMMA MailPublishes == MailInv /\ Mail!PublishDKIMTXT => MailInv'
<1> SUFFICES ASSUME MailInv, Mail!PublishDKIMTXT PROVE MailInv'
  OBVIOUS
<1>1. /\ worker.pc = "publish" /\ UNCHANGED <<rows, retired, changes, acked, overlap>>
  BY DEF Mail!PublishDKIMTXT, Mail!NoRequest
<1>2. worker \in MailRunning /\ host \in MailHost /\ worker.dom \in MailDomains
  BY <1>1 DEF MailInv, MailWorker, Mail!TypeOK, MailHost, MailRunning
<1> DEFINE d == worker.dom
<1>3. /\ Mail!SignedWithServedKey /\ host.key[d] # 0
      /\ \A e \in Mail!Recipients(worker.snap) \ (worker.left \cup retired) :
            KeyServed(e) \/ e = d
  BY <1>1 DEF MailInv, KeysServed
<1>4. CASE host' = [host EXCEPT !.served[d] = host.key[d]] /\ Mail!Goto("dkim")
  <2>1. MailOn("dkim") /\ MailSame
    BY <1>1, <1>4, MailGoto DEF Mail!Steps
  <2>2. /\ host' \in MailHost /\ host'.served = [host.served EXCEPT ![d] = host.key[d]]
        /\ host'.key = host.key /\ host'.signing = host.signing
        /\ host'.homes = host.homes /\ host'.files = host.files /\ host'.db = host.db
    BY <1>2, <1>4 DEF MailHost
  <2>3. \A e \in MailDomains : KeyServed(e) \/ e = d => KeyServed(e)'
    BY <1>2, <1>3, <2>2 DEF KeyServed, MailHost
  <2>4. Mail!SignedWithServedKey'
    BY <1>1, <1>2, <1>3, <2>2, <2>3 DEF Mail!SignedWithServedKey, KeyServed, MailHost
  <2>5. Mail!Recipients(worker.snap) \subseteq MailDomains
    BY <1>2, MapsRendered DEF MailRunning
  <2>6. KeysServed'
    BY <1>1, <1>3, <2>1, <2>3, <2>4, <2>5 DEF KeysServed, MailOn, MailSame
  <2>7. /\ Mail!TypeOK' /\ MailWorker' /\ MailStepOfJob' /\ MailRowsNested'
        /\ CopyOfRow' /\ BoxAcked' /\ ZoneLast'
    BY <1>1, <2>1, <2>2, MailGoesOn DEF StackSteps
  <2>8. HomesMade' /\ MapsAgree'
    BY <1>1, <2>1, <2>2, MailAfterMaps DEF MailOn
  <2> QED
    BY <2>6, <2>7, <2>8 DEF MailInv
<1>5. CASE /\ UNCHANGED host
           /\ Mail!StackFails \/ (Mail!Ends /\ UNCHANGED failures)
  BY <1>1, <1>2, <1>5, MailStackFails, SMTT(30) DEF StackSteps
<1> QED
  BY <1>4, <1>5 DEF Mail!PublishDKIMTXT

\* The attempt ends well after its last call.
LEMMA MailSettles ==
    ASSUME MailInv, worker.pc \in {"sign", "put"}, Mail!Settle,
           UNCHANGED <<changes, acked, overlap, retired>>, host' \in MailHost,
           rows' \in MailRow, MailRowsNested', Mail!ChangeLostOnlyByOverlap',
           rows'.zone = rows.zone, rows'.mail = rows.mail,
           \A d \in MailDomains \ overlap : rows'.box[d].id = rows.box[d].id,
           Mail!SignedWithServedKey', HomesMade', MapsAgree'
    PROVE  MailInv'
<1>1. worker'.pc = "idle" /\ UNCHANGED <<jobs, failures, lost>>
  BY DEF Mail!Settle
<1>2. Mail!TypeOK' /\ MailWorker' /\ MailStepOfJob'
  BY <1>1 DEF MailInv, Mail!TypeOK, MailHost, MailRow, MailWorker, MailStepOfJob,
     DeletionSteps, Mail!Steps
<1>3. CopyOfRow' /\ BoxAcked' /\ KeysServed'
  BY <1>1 DEF CopyOfRow, BoxAcked, KeysServed
<1>4. ZoneLast'
  BY <1>1 DEF MailInv, ZoneLast, DeletionSteps
<1> QED
  BY <1>2, <1>3, <1>4 DEF MailInv

LEMMA MailSigns == MailInv /\ Mail!ApplyDKIMSigning => MailInv'
<1> SUFFICES ASSUME MailInv, Mail!ApplyDKIMSigning PROVE MailInv'
  OBVIOUS
<1> DEFINE recs == Mail!Recipients(worker.snap)
<1>1. /\ worker.pc = "sign" /\ UNCHANGED <<rows, retired, changes, acked, overlap>>
  BY DEF Mail!ApplyDKIMSigning, Mail!NoRequest
<1>2. worker \in MailRunning /\ host \in MailHost /\ changes \in Nat /\ recs \subseteq MailDomains
  BY <1>1, MapsRendered DEF MailInv, MailWorker, Mail!TypeOK, MailHost, MailRunning
<1>3. \A d \in recs \ retired : KeyServed(d)
  BY <1>1 DEF MailInv, KeysServed
<1>4. CASE /\ host' = [host EXCEPT
                          !.key = [d \in MailDomains |-> IF d \in recs THEN Mail!KeyOf(d)
                                                     ELSE @[d]],
                          !.signing = recs]
           /\ \/ worker.job.type = "mailbox.provision" /\ Mail!Goto("put")
              \/ Mail!Settle
  <2>1. \A d \in MailDomains : Mail!KeyOf(d) \in Nat
                           /\ (host.key[d] # 0 => Mail!KeyOf(d) = host.key[d])
    BY <1>2 DEF Mail!KeyOf, Mail!NewKey, MailHost
  <2>2. /\ host'.key = [d \in MailDomains |-> IF d \in recs THEN Mail!KeyOf(d) ELSE host.key[d]]
        /\ host'.served = host.served /\ host'.signing = recs
        /\ host'.homes = host.homes /\ host'.files = host.files /\ host'.db = host.db
    BY <1>2, <1>4 DEF MailHost
  <2>3. host'.key \in [MailDomains -> Nat]
    BY <1>2, <2>1, <2>2 DEF MailHost
  <2>4. host' \in MailHost
    BY <1>2, <1>4, <2>2, <2>3 DEF MailHost
  <2>5. Mail!SignedWithServedKey'
    BY <1>1, <1>2, <1>3, <2>1, <2>2 DEF Mail!SignedWithServedKey, KeyServed
  <2>6. CASE worker.job.type = "mailbox.provision" /\ Mail!Goto("put")
    <3>1. MailOn("put") /\ MailSame
      BY <1>1, <2>6, MailGoto DEF Mail!Steps
    <3>2. /\ Mail!TypeOK' /\ MailWorker' /\ MailStepOfJob' /\ MailRowsNested'
          /\ CopyOfRow' /\ BoxAcked' /\ ZoneLast'
      BY <1>1, <2>4, <2>6, <3>1, MailGoesOn DEF StackSteps
    <3>3. HomesMade' /\ MapsAgree'
      BY <1>1, <2>2, <3>1, MailAfterMaps DEF MailOn
    <3>4. KeysServed'
      BY <2>5, <3>1 DEF KeysServed, MailOn
    <3> QED
      BY <3>2, <3>3, <3>4 DEF MailInv
  <2>7. CASE Mail!Settle
    <3>1. worker'.pc = "idle" /\ UNCHANGED <<jobs, lost>>
      BY <2>7 DEF Mail!Settle
    <3>2. HomesMade' /\ MapsAgree'
      BY <1>1, <2>2, <3>1, MailAfterMaps
    <3>3. /\ rows' \in MailRow /\ MailRowsNested' /\ Mail!ChangeLostOnlyByOverlap'
      BY <1>1 DEF MailInv, Mail!TypeOK, MailRow, MailRowsNested, BoxAcked,
         Mail!ChangeLostOnlyByOverlap
    <3> QED
      BY <1>1, <2>4, <2>5, <2>7, <3>2, <3>3, MailSettles
  <2> QED
    BY <1>4, <2>6, <2>7
<1>5. CASE Mail!StackFails /\ UNCHANGED host
  BY <1>1, <1>2, <1>5, MailStackFails, SMTT(30) DEF StackSteps
<1> QED
  BY <1>4, <1>5, Zenon DEF Mail!ApplyDKIMSigning

LEMMA MailPuts == MailInv /\ Mail!PutMailbox => MailInv'
<1> SUFFICES ASSUME MailInv, Mail!PutMailbox PROVE MailInv'
  OBVIOUS
<1> DEFINE d == worker.job.dom
           copy == [worker.copy EXCEPT !.status = "active"]
<1>1. /\ worker.pc = "put" /\ UNCHANGED <<host, retired, changes, acked, overlap>>
      /\ Mail!Settle
      /\ rows' = IF d \in rows.mail /\ rows.box[d].id \in {0, copy.id}
                 THEN [rows EXCEPT !.box[d] = copy] ELSE rows
  BY DEF Mail!PutMailbox, Mail!NoRequest
<1>2. /\ worker \in MailRunning /\ host' \in MailHost /\ rows \in MailRow /\ d \in MailDomains
      /\ worker.job.type = "mailbox.provision" /\ worker.copy \in Mail!Box
  BY <1>1 DEF MailInv, MailWorker, Mail!TypeOK, MailHost, MailRow, MailRunning, Mail!Job,
     MailStepOfJob
<1>3. /\ worker'.pc = "idle" /\ UNCHANGED <<jobs, failures, lost>>
  BY <1>1 DEF Mail!Settle
<1>4. copy \in Mail!Box /\ copy.id = worker.copy.id /\ copy.hash = worker.copy.hash
  BY <1>2 DEF Mail!Box
<1> HIDE DEF copy
<1>5. /\ rows' \in MailRow /\ rows'.domain = rows.domain /\ rows'.mail = rows.mail
      /\ rows'.zone = rows.zone /\ rows'.alias = rows.alias
      /\ rows'.catchall = rows.catchall
      /\ \/ d \in rows.mail /\ rows'.box = [rows.box EXCEPT ![d] = copy]
         \/ rows'.box = rows.box
  BY <1>1, <1>2, <1>4 DEF MailRow
<1>6. /\ \A e \in MailDomains \ {d} : rows'.box[e] = rows.box[e]
      /\ rows'.box[d] = rows.box[d] \/ (d \in rows.mail /\ rows'.box[d] = copy)
  BY <1>2, <1>5 DEF MailRow
<1>7. MailRowsNested'
  BY <1>5, <1>6 DEF MailInv, MailRowsNested
<1>8. d \notin overlap => /\ worker.copy.id = rows.box[d].id
                          /\ worker.copy.hash = rows.box[d].hash
  BY <1>1, <1>2 DEF MailInv, BoxAcked
<1>9. \A e \in MailDomains \ overlap : /\ rows'.box[e].id = rows.box[e].id
                                       /\ rows'.box[e].hash = rows.box[e].hash
  BY <1>4, <1>6, <1>8
<1>10. Mail!ChangeLostOnlyByOverlap' /\ Mail!SignedWithServedKey'
  BY <1>1, <1>9 DEF MailInv, BoxAcked, KeysServed, Mail!ChangeLostOnlyByOverlap,
     Mail!SignedWithServedKey
<1>11. \/ worker.copy = rows.box[d]
       \/ \E j \in jobs : j.dom = d /\ j.type # "domain.delete"
  BY <1>1, <1>2 DEF MailInv, CopyOfRow
<1>12. HomesMade'
  <2> SUFFICES ASSUME ~lost, NEW e \in MailDomains \ retired, BoxKnown(e)'
               PROVE  <<e, "box">> \in host.homes \/ HomeWaits(e)'
    BY <1>1, <1>3 DEF HomesMade
  <2>1. CASE BoxKnown(e)
    BY <1>1, <1>3, <2>1 DEF MailInv, HomesMade, HomeWaits, HomeComes, BeforeMaps
  <2>2. CASE ~BoxKnown(e)
    <3>1. e = d /\ rows.box[d].id = 0 /\ rows'.box[d] = copy /\ copy.id # 0
      BY <1>1, <1>3, <1>6, <2>2, SMTT(30) DEF BoxKnown, BeforeMaps
    <3> QED
      BY <1>3, <1>4, <1>11, <3>1 DEF HomeWaits
  <2> QED
    BY <2>1, <2>2
<1>13. MapsAgree'
  <2> SUFFICES ASSUME ~lost, ~MapsWait
               PROVE  \A f \in Mail!MapNames : MapAgrees(f, Mail!InForce(f))'
    BY <1>3, <1>5 DEF MapsAgree, MapsWait, BeforeMaps
  <2>1. worker.copy = rows.box[d]
    BY <1>11 DEF MapsWait
  <2>2. \A e \in MailDomains : /\ rows'.box[e].id = rows.box[e].id
                               /\ rows'.box[e].hash = rows.box[e].hash
    BY <1>4, <1>6, <2>1
  <2>3. /\ Mail!Now'.domains = Mail!Now.domains /\ Mail!Now'.catchall = Mail!Now.catchall
        /\ Mail!Now'.alias = Mail!Now.alias /\ Mail!Now.domains \subseteq MailDomains
        /\ Mail!Now'.box = rows'.box /\ Mail!Now.box = rows.box
    BY <1>2, <1>5 DEF Mail!Now, MailRow
  <2>4. Mail!Recipients(Mail!Now') = Mail!Recipients(Mail!Now)
        /\ Mail!Recipients(Mail!Now) \subseteq MailDomains
    BY <2>2, <2>3 DEF Mail!Recipients
  <2>5. {<<e, "box", Mail!Now'.box[e].hash>> : e \in Mail!Recipients(Mail!Now)} =
        {<<e, "box", Mail!Now.box[e].hash>> : e \in Mail!Recipients(Mail!Now)}
    BY <2>2, <2>3, <2>4
  <2>6. Mail!Render(Mail!Now') = Mail!Render(Mail!Now)
    BY <2>3, <2>4, <2>5 DEF Mail!Render
  <2>7. \A f \in Mail!MapNames : MapAgrees(f, Mail!InForce(f))
    BY <1>1 DEF MailInv, MapsAgree
  <2> QED
    BY <1>1, <2>4, <2>6, <2>7 DEF MapAgrees, Mail!InForce
<1> QED
  BY <1>1, <1>2, <1>5, <1>7, <1>9, <1>10, <1>12, <1>13, MailSettles

\* Every step of the mail part keeps its invariant.
LEMMA MailStep == MailInv /\ (Mail!Next \/ UNCHANGED Mail!vars) => MailInv'
<1>1. ASSUME MailInv, UNCHANGED Mail!vars PROVE MailInv'
  <2>1. UNCHANGED <<rows, host, jobs, worker, changes, failures, acked, overlap, retired, lost>>
    BY <1>1 DEF Mail!vars
  <2>2. Mail!TypeOK' /\ MailWorker' /\ MailStepOfJob' /\ MailRowsNested'
    BY <1>1, <2>1 DEF MailInv, Mail!TypeOK, MailWorker, MailStepOfJob, MailRowsNested
  <2>3. CopyOfRow' /\ BoxAcked' /\ ZoneLast'
    BY <1>1, <2>1 DEF MailInv, CopyOfRow, BoxAcked, ZoneLast, Mail!ChangeLostOnlyByOverlap
  <2>4. KeysServed'
    BY <1>1, <2>1 DEF MailInv, KeysServed, KeyServed, Mail!SignedWithServedKey
  <2>5. HomesMade'
    BY <1>1, <2>1 DEF MailInv, HomesMade, BoxKnown, HomeWaits, HomeComes
  <2>6. MapsAgree'
    BY <1>1, <2>1 DEF MailInv, MapsAgree, MapsWait, SnapAgrees, MapAgrees, Mail!Now,
       Mail!InForce
  <2> QED
    BY <2>2, <2>3, <2>4, <2>5, <2>6 DEF MailInv
<1> QED
  BY <1>1, MailRequest, MailClaim, MailCrash, MailDeletion, MailSnapsDomains,
     MailSnapsBoxes, MailHomes, MailWritesMaps, MailCompiles, MailKeys, MailPublishes,
     MailSigns, MailPuts DEF Mail!Next, Mail!ApplyMailStack

\* What the invariant says of the mail.
LEMMA MailHolds ==
    MailInv => /\ Mail!MapsAgreeWhenSettled /\ Mail!HomeBeforeMap
               /\ Mail!ChangeLostOnlyByOverlap /\ Mail!ZoneOutlivesMailboxes
               /\ Mail!SignedWithServedKey
<1> SUFFICES ASSUME MailInv
             PROVE  /\ Mail!MapsAgreeWhenSettled /\ Mail!HomeBeforeMap
                    /\ Mail!ChangeLostOnlyByOverlap /\ Mail!ZoneOutlivesMailboxes
                    /\ Mail!SignedWithServedKey
  OBVIOUS
<1>1. Mail!MapsAgreeWhenSettled
  BY DEF MailInv, MapsAgree, MapsWait, MapAgrees, Mail!MapsAgreeWhenSettled
<1>2. Mail!HomeBeforeMap
  BY DEF MailInv, HomesMade, BoxKnown, HomeWaits, HomeComes, Mail!HomeBeforeMap,
     Mail!Outstanding
<1>3. Mail!ChangeLostOnlyByOverlap /\ Mail!ZoneOutlivesMailboxes /\ Mail!SignedWithServedKey
  BY DEF MailInv, BoxAcked, ZoneLast, KeysServed, Mail!ZoneOutlivesMailboxes
<1> QED
  BY <1>1, <1>2, <1>3

-----------------------------------------------------------------------------
(* The metering.                                                           *)

\* What a measurement of month m will still add to what was read of it: a
\* measurement of a month before the checkpoint's is a recount.
StillCounted(m) == IF m >= cp.month THEN Usage!Unread(m) ELSE 0

\* A total, and what a measurement is about to make of it, have no byte that
\* will be counted again.
CountedOnce ==
    ~recount =>
        /\ \A m \in 1..Months : total[m] + StillCounted(m) <= logged[m]
        /\ \A p \in Usage!Meters, m \in 1..Months : meter[p].month = m =>
              /\ meter[p].pc = "delta" => meter[p].total + StillCounted(m) <= logged[m]
              /\ meter[p].pc = "persist" =>
                    meter[p].total + meter[p].delta + StillCounted(m) <= logged[m]

\* The month of a measurement, of a line and of the checkpoint is not to come.
Measures(p) == meter[p].pc \in {"total", "delta", "persist"}
MonthsPast ==
    /\ \A p \in Usage!Meters : /\ meter[p].month <= month
                               /\ Measures(p) => meter[p].month >= 1
    /\ cp.month <= month
    /\ \A m \in 1..Months : m > month => logged[m] = 0

\* One measurement at a time finds every line of the month in the total, in what
\* it read, or after the checkpoint.
AtPersist(p) == meter[p].pc = "persist" /\ meter[p].month = month
LinesFound ==
    /\ \A p, q \in Usage!Meters : Measures(p) /\ Measures(q) => p = q
    /\ cp.inode = log.inode => cp.offset <= Len(log.lines)
    /\ \A p \in Usage!Meters :
          /\ AtPersist(p) => logged[month] = meter[p].total + meter[p].delta
                                             + Usage!Unread(month)
          /\ meter[p].pc = "delta" /\ meter[p].month = month =>
                meter[p].total = total[month]
    /\ (\A p \in Usage!Meters : ~AtPersist(p)) =>
          logged[month] = total[month] + Usage!Unread(month)
NoneLeftOut == ~disturbed /\ ~recount => LinesFound

\* The sites are as the hold was when the collection started, and until it
\* writes the usage that is how the hold is.
HoldKnown ==
    LET w == meter["worker"] IN
    /\ w.pc = "put" => ~w.disk
    /\ ~dropped /\ ~reconcile =>
          /\ w.pc = "idle" => site = Usage!BandwidthHold
          /\ w.pc \in {"total", "delta", "persist", "put"} /\ ~w.disk =>
                w.held = site /\ site = Usage!BandwidthHold
          /\ w.pc \in {"disk", "lock", "mark", "sshd", "hold"} => w.held = site
          /\ w.pc \in {"total", "delta", "persist"} /\ w.disk => w.held = site

\* The marks of a full home, as far as the collection has set them.
MarksSet ==
    LET w == meter["worker"] IN
    failures = 0 =>
        /\ w.pc = "mark" => disk.lock = w.full
        /\ w.pc = "sshd" => disk.lock = w.full /\ disk.mark = w.full
        /\ w.pc = "hold" => disk.lock = disk.mark /\ disk.mark = disk.sshd

UsageInv == /\ Usage!TypeOK /\ CountedOnce /\ MonthsPast /\ NoneLeftOut
            /\ HoldKnown /\ MarksSet

Meter == [pc : Usage!Steps, month : 0..Months, total : Nat, delta : Nat,
          held : BOOLEAN, disk : BOOLEAN, full : BOOLEAN]

\* The instance's cardinality is the library's, and the hold is a Boolean.
LEMMA UsageCardinality == \A S : Usage!Cardinality(S) = Cardinality(S)
  BY Zenon DEF Usage!Cardinality, Cardinality

LEMMA HoldBoolean == Usage!BandwidthHold \in BOOLEAN
  BY SMT DEF Usage!BandwidthHold

\* Counting the lines of a month after an offset.
LEMMA LinesCounted ==
    ASSUME NEW s \in Seq(1..Months), NEW m, NEW k \in Nat
    PROVE  /\ Usage!LinesOf(m, s, k) \in Nat
           /\ k >= Len(s) => Usage!LinesOf(m, s, k) = 0
           /\ \A x \in 1..Months : k <= Len(s) =>
                 Usage!LinesOf(m, Append(s, x), k) =
                 Usage!LinesOf(m, s, k) + IF x = m THEN 1 ELSE 0
<1> DEFINE S == {i \in (k + 1)..Len(s) : s[i] = m}
<1>1. Len(s) \in Nat
  OBVIOUS
<1>2. IsFiniteSet((k + 1)..Len(s))
  BY <1>1, FS_Interval
<1>3. IsFiniteSet(S) /\ Cardinality(S) \in Nat
  BY <1>2, FS_Subset, FS_CardinalityType
<1>4. k >= Len(s) => S = {}
  BY <1>1
<1>5. k >= Len(s) => Cardinality(S) = 0
  BY <1>4, FS_EmptySet
<1>6. ASSUME NEW x \in 1..Months, k <= Len(s)
      PROVE  Usage!LinesOf(m, Append(s, x), k) = Cardinality(S) + IF x = m THEN 1 ELSE 0
  <2> DEFINE t == Append(s, x)
             T == {i \in (k + 1)..Len(t) : t[i] = m}
  <2>1. Len(t) = Len(s) + 1 /\ t[Len(s) + 1] = x /\ \A i \in 1..Len(s) : t[i] = s[i]
    OBVIOUS
  <2>2. Usage!LinesOf(m, Append(s, x), k) = Cardinality(T)
    BY UsageCardinality, Zenon DEF Usage!LinesOf
  <2> HIDE DEF t
  <2>3. T = IF x = m THEN S \cup {Len(s) + 1} ELSE S
    BY <1>1, <1>6, <2>1
  <2>4. Len(s) + 1 \notin S
    BY <1>1
  <2> HIDE DEF S, T
  <2>5. Cardinality(S \cup {Len(s) + 1}) = Cardinality(S) + 1
    BY <1>3, <2>4, FS_AddElement
  <2> QED
    BY <1>3, <2>2, <2>3, <2>5
<1>7. Usage!LinesOf(m, s, k) = Cardinality(S)
  BY UsageCardinality, Zenon DEF Usage!LinesOf
<1> HIDE DEF S
<1> QED
  BY <1>3, <1>5, <1>6, <1>7

\* What is unread of a month is counted from the checkpoint or from the start.
LEMMA UnreadFacts ==
    ASSUME Usage!TypeOK, NEW m \in 1..Months
    PROVE  /\ Usage!Unread(m) \in Nat /\ StillCounted(m) \in Nat
           /\ Usage!ResumeAt(log, m) \in Nat
           /\ Usage!ResumeAt(log, m) <= Len(log.lines)
<1>1. log.lines \in Seq(1..Months) /\ cp.offset \in Nat /\ Len(log.lines) \in Nat
  BY DEF Usage!TypeOK
<1>2. Usage!ResumeAt(log, m) \in Nat /\ Usage!ResumeAt(log, m) <= Len(log.lines)
  BY <1>1 DEF Usage!ResumeAt, Usage!Resumes
<1>3. Usage!Unread(m) \in Nat
  BY <1>1, <1>2, LinesCounted DEF Usage!Unread
<1> QED
  BY <1>2, <1>3 DEF StillCounted

LEMMA UsageInitially == Usage!Init => UsageInv
<1> SUFFICES ASSUME Usage!Init PROVE UsageInv
  OBVIOUS
<1>1. /\ month = 1 /\ log = [inode |-> 1, lines |-> <<>>] /\ cp = Usage!NoCp
      /\ total = [m \in 1..Months |-> 0] /\ logged = [m \in 1..Months |-> 0]
      /\ usage = 0 /\ limit \in {1, 2} /\ failures = 0 /\ changes = 0
      /\ meter = [p \in Usage!Meters |-> Usage!Idle]
      /\ disk = [full |-> FALSE, lock |-> FALSE, mark |-> FALSE, sshd |-> FALSE]
  BY DEF Usage!Init, Usage!Limits
<1>2. site = FALSE /\ reconcile = FALSE /\ disturbed = FALSE /\ recount = FALSE
      /\ dropped = FALSE
  BY DEF Usage!Init
<1>3. site \in BOOLEAN /\ reconcile \in BOOLEAN /\ {disturbed, recount, dropped} \subseteq BOOLEAN
  BY <1>2, Zenon
<1>4. Usage!Idle \in Meter /\ Usage!Idle.pc = "idle" /\ Usage!Idle.month = 0
  BY Bounds DEF Usage!Idle, Meter, Usage!Steps
<1>5. /\ month \in 1..Months /\ log \in [inode : Nat \ {0}, lines : Seq(1..Months)]
      /\ cp \in [inode : Nat, offset : Nat, month : Nat] /\ cp.month = 0 /\ log.lines = <<>>
      /\ total \in [1..Months -> Nat] /\ logged \in [1..Months -> 0..MaxLines]
  BY <1>1, Bounds DEF Usage!NoCp
<1>6. disk \in [full : BOOLEAN, lock : BOOLEAN, mark : BOOLEAN, sshd : BOOLEAN]
  BY <1>1
<1>7. Usage!TypeOK
  BY <1>1, <1>3, <1>4, <1>5, <1>6, Bounds DEF Usage!TypeOK, Meter, Usage!Limits
<1>8. \A m \in 1..Months : Usage!Unread(m) = 0 /\ StillCounted(m) = 0
  <2> TAKE m \in 1..Months
  <2>1. /\ Usage!ResumeAt(log, m) \in Nat /\ Usage!ResumeAt(log, m) <= Len(log.lines)
    BY <1>7, UnreadFacts
  <2>2. log.lines \in Seq(1..Months) /\ Len(log.lines) = 0
    BY <1>5
  <2>3. Usage!Unread(m) = 0
    BY <2>1, <2>2, LinesCounted DEF Usage!Unread
  <2> QED
    BY <2>3 DEF StillCounted
<1>9. \A p \in Usage!Meters : meter[p].pc = "idle" /\ meter[p].month = 0
  BY <1>1, <1>4
<1>10. CountedOnce
  BY <1>1, <1>8, <1>9 DEF CountedOnce
<1>11. MonthsPast
  BY <1>1, <1>5, <1>9 DEF MonthsPast, Measures
<1>12. NoneLeftOut
  BY <1>1, <1>5, <1>8, <1>9 DEF NoneLeftOut, LinesFound, Measures, AtPersist, Usage!NoCp
<1>13. meter["worker"].pc = "idle"
  BY <1>9 DEF Usage!Meters
<1>14. site = Usage!BandwidthHold
  <2>1. ~Usage!BandwidthHold
    BY <1>1 DEF Usage!BandwidthHold
  <2> QED
    BY <1>2, <2>1, HoldBoolean, Zenon
<1>15. HoldKnown /\ MarksSet
  BY <1>13, <1>14 DEF HoldKnown, MarksSet
<1> QED
  BY <1>7, <1>10, <1>11, <1>12, <1>15 DEF UsageInv

-----------------------------------------------------------------------------
(* Steps that count nothing.                                               *)

UsageQuiet ==
    /\ UNCHANGED <<month, log, cp, total, logged, recount>>
    /\ \A q \in Usage!Meters :
          \/ meter'[q] = meter[q]
          \/ /\ meter'[q].pc \notin {"delta", "persist"} /\ meter'[q].month <= month
             /\ meter'[q].pc = "total" => meter'[q].month >= 1
    /\ ~disturbed' =>
          /\ ~disturbed
          /\ \A q \in Usage!Meters : meter[q].pc = "persist" => meter'[q] = meter[q]
          /\ \E p \in Usage!Meters :
                /\ \A q \in Usage!Meters \ {p} : meter'[q] = meter[q]
                /\ Measures(p)' => Measures(p) \/ \A q \in Usage!Meters : ~Measures(q)

LEMMA UsageQuietly ==
    ASSUME UsageInv, UsageQuiet
    PROVE  CountedOnce' /\ MonthsPast' /\ NoneLeftOut'
<1>1. \A m : Usage!Unread(m)' = Usage!Unread(m) /\ StillCounted(m)' = StillCounted(m)
  BY DEF UsageQuiet, Usage!Unread, StillCounted, Usage!ResumeAt
<1>2. UNCHANGED <<month, log, cp, total, logged>> /\ (~recount' => ~recount)
  BY DEF UsageQuiet
<1>3. \A q \in Usage!Meters : meter'[q].pc \in {"delta", "persist"} => meter'[q] = meter[q]
  BY DEF UsageQuiet
<1>4. CountedOnce'
  <2> SUFFICES ASSUME ~recount'
               PROVE  /\ \A m \in 1..Months : total[m] + StillCounted(m) <= logged[m]
                      /\ \A p \in Usage!Meters, m \in 1..Months : meter'[p].month = m =>
                            /\ meter'[p].pc = "delta" =>
                                  meter'[p].total + StillCounted(m) <= logged[m]
                            /\ meter'[p].pc = "persist" =>
                                  meter'[p].total + meter'[p].delta + StillCounted(m)
                                     <= logged[m]
    BY <1>1, <1>2 DEF CountedOnce
  <2> QED
    BY <1>2, <1>3 DEF UsageInv, CountedOnce
<1>5. MonthsPast'
  BY <1>2 DEF UsageInv, MonthsPast, UsageQuiet, Measures
<1>6. NoneLeftOut'
  <2> SUFFICES ASSUME ~disturbed', ~recount' PROVE LinesFound'
    BY DEF NoneLeftOut
  <2>1. LinesFound
    BY <1>2 DEF UsageInv, NoneLeftOut, UsageQuiet
  <2>2. \A q \in Usage!Meters : AtPersist(q)' <=> AtPersist(q)
    BY <1>2, <1>3 DEF UsageQuiet, AtPersist
  <2>3. \A p, q \in Usage!Meters : Measures(p)' /\ Measures(q)' => p = q
    <3>1. PICK p \in Usage!Meters :
             /\ \A q \in Usage!Meters \ {p} : meter'[q] = meter[q]
             /\ Measures(p)' => Measures(p) \/ \A q \in Usage!Meters : ~Measures(q)
      BY DEF UsageQuiet
    <3>2. \A q \in Usage!Meters \ {p} : Measures(q)' <=> Measures(q)
      BY <3>1 DEF Measures
    <3> QED
      BY <2>1, <3>1, <3>2 DEF LinesFound
  <2>4. ASSUME NEW p \in Usage!Meters
        PROVE  /\ AtPersist(p)' => logged[month] = meter'[p].total + meter'[p].delta
                                                   + Usage!Unread(month)
               /\ meter'[p].pc = "delta" /\ meter'[p].month = month =>
                    meter'[p].total = total[month]
    BY <1>3, <2>1, <2>2 DEF LinesFound, AtPersist
  <2>5. (\A p \in Usage!Meters : ~AtPersist(p)') =>
              logged[month] = total[month] + Usage!Unread(month)
    BY <2>1, <2>2 DEF LinesFound
  <2> QED
    BY <1>1, <1>2, <2>1, <2>3, <2>4, <2>5 DEF LinesFound
<1> QED
  BY <1>4, <1>5, <1>6

-----------------------------------------------------------------------------
(* What happens on the host.                                               *)

\* The types, the ones of Boolean variables apart.
UsageShapes ==
    /\ month \in 1..Months
    /\ log \in [inode : Nat \ {0}, lines : Seq(1..Months)]
    /\ cp \in [inode : Nat, offset : Nat, month : Nat]
    /\ total \in [1..Months -> Nat] /\ logged \in [1..Months -> 0..MaxLines]
    /\ usage \in Nat /\ limit \in Usage!Limits
    /\ disk \in [full : BOOLEAN, lock : BOOLEAN, mark : BOOLEAN, sshd : BOOLEAN]
    /\ meter \in [Usage!Meters -> Meter]
    /\ failures \in 0..MeterFailures /\ changes \in 0..MeterChanges
UsageFlags == /\ site \in BOOLEAN /\ reconcile \in BOOLEAN
              /\ {disturbed, recount, dropped} \subseteq BOOLEAN

LEMMA UsageTyped == /\ Usage!TypeOK <=> UsageShapes /\ UsageFlags
                    /\ Usage!TypeOK' <=> UsageShapes' /\ UsageFlags'
  BY DEF Usage!TypeOK, UsageShapes, UsageFlags, Meter

\* The worker's measurement, and what it holds against, are left alone.
LEMMA UsageWorkerKept ==
    ASSUME UsageInv, meter'["worker"] = meter["worker"], UNCHANGED <<usage, site>>,
           ~dropped' => ~dropped, ~reconcile' => ~reconcile /\ limit' = limit,
           disk'.lock = disk.lock, disk'.mark = disk.mark, disk'.sshd = disk.sshd,
           failures' = 0 => failures = 0
    PROVE  HoldKnown' /\ MarksSet'
<1>1. MarksSet'
  BY DEF UsageInv, MarksSet
<1>2. HoldKnown'
  <2>1. ~reconcile' => Usage!BandwidthHold' = Usage!BandwidthHold
    BY DEF Usage!BandwidthHold
  <2> QED
    BY <2>1 DEF UsageInv, HoldKnown
<1> QED
  BY <1>1, <1>2

LEMMA UsageServe == UsageInv /\ Usage!Serve => UsageInv'
<1> SUFFICES ASSUME UsageInv, Usage!Serve PROVE UsageInv'
  OBVIOUS
<1>1. /\ \A m \in 1..Months : logged[m] < MaxLines
      /\ log' = [log EXCEPT !.lines = Append(@, month)]
      /\ logged' = [logged EXCEPT ![month] = @ + 1]
      /\ UNCHANGED <<month, cp, total, usage, limit, disk, meter, failures, changes>>
      /\ UNCHANGED <<site, reconcile, disturbed, recount, dropped>>
  BY DEF Usage!Serve
<1>2. UsageShapes /\ UsageFlags
  BY UsageTyped DEF UsageInv
<1>3. /\ log'.lines = Append(log.lines, month) /\ log'.inode = log.inode
      /\ log' \in [inode : Nat \ {0}, lines : Seq(1..Months)]
      /\ Len(log'.lines) = Len(log.lines) + 1 /\ Len(log.lines) \in Nat
      /\ log.lines \in Seq(1..Months)
  <2>1. month \in 1..Months /\ log \in [inode : Nat \ {0}, lines : Seq(1..Months)]
    BY <1>2 DEF UsageShapes
  <2>2. /\ log'.lines = Append(log.lines, month) /\ log'.inode = log.inode
        /\ log.lines \in Seq(1..Months)
        /\ log' = [inode |-> log.inode, lines |-> Append(log.lines, month)]
    BY <1>1, <2>1
  <2>3. /\ Append(log.lines, month) \in Seq(1..Months)
        /\ Len(Append(log.lines, month)) = Len(log.lines) + 1 /\ Len(log.lines) \in Nat
    BY <2>1, <2>2
  <2> QED
    BY <2>1, <2>2, <2>3
<1>4. /\ logged' \in [1..Months -> 0..MaxLines] /\ month \in 1..Months
      /\ \A m \in 1..Months : /\ logged'[m] = logged[m] + IF m = month THEN 1 ELSE 0
                              /\ logged[m] \in Nat /\ logged'[m] \in Nat
  <2>1. month \in 1..Months /\ logged \in [1..Months -> 0..MaxLines]
    BY <1>2 DEF UsageShapes
  <2>2. \A m \in 1..Months : logged'[m] = IF m = month THEN logged[m] + 1 ELSE logged[m]
    BY <1>1, <2>1
  <2>3. \A m \in 1..Months : /\ logged[m] \in Nat /\ logged'[m] \in 0..MaxLines
                             /\ logged'[m] = logged[m] + IF m = month THEN 1 ELSE 0
    BY <1>1, <2>1, <2>2, Bounds
  <2>4. logged' = [m \in 1..Months |-> logged'[m]]
    BY <1>1, <2>1
  <2> QED
    BY <2>1, <2>3, <2>4, Bounds
<1>5. UsageShapes' /\ UsageFlags'
  BY <1>1, <1>2, <1>3, <1>4 DEF UsageShapes, UsageFlags
<1>6. ASSUME NEW m \in 1..Months
      PROVE  /\ Usage!Unread(m)' <= Usage!Unread(m) + IF m = month THEN 1 ELSE 0
             /\ ~(cp.inode = log.inode) \/ cp.offset <= Len(log.lines) =>
                   Usage!Unread(m)' = Usage!Unread(m) + IF m = month THEN 1 ELSE 0
             /\ Usage!Unread(m)' \in Nat /\ Usage!Unread(m) \in Nat
  <2> DEFINE k == Usage!ResumeAt(log, m)
             l == Usage!ResumeAt(log, m)'
  <2>1. k \in Nat /\ k <= Len(log.lines) /\ Usage!Unread(m) \in Nat
    BY UnreadFacts DEF UsageInv
  <2>2. /\ cp \in [inode : Nat, offset : Nat, month : Nat] /\ cp' = cp
    BY <1>1, <1>2 DEF UsageShapes
  <2>3. \/ l = k
        \/ l = Len(log.lines) + 1 /\ cp.inode = log.inode /\ cp.offset > Len(log.lines)
    BY <1>3, <2>2 DEF Usage!ResumeAt, Usage!Resumes
  <2>4. Usage!Unread(m)' = Usage!LinesOf(m, Append(log.lines, month), l)
    BY <1>3 DEF Usage!Unread
  <2>5. Usage!Unread(m) = Usage!LinesOf(m, log.lines, k)
    BY DEF Usage!Unread
  <2>6. CASE l = k
    <3>1. Usage!LinesOf(m, Append(log.lines, month), k) =
          Usage!LinesOf(m, log.lines, k) + IF month = m THEN 1 ELSE 0
      BY <1>3, <1>4, <2>1, LinesCounted
    <3> QED
      BY <2>1, <2>4, <2>5, <2>6, <3>1
  <2>7. CASE l = Len(log.lines) + 1 /\ cp.inode = log.inode /\ cp.offset > Len(log.lines)
    <3>1. Append(log.lines, month) \in Seq(1..Months)
          /\ Len(Append(log.lines, month)) = Len(log.lines) + 1
      BY <1>3, <1>4
    <3>2. l \in Nat /\ l >= Len(Append(log.lines, month))
      BY <1>3, <2>7, <3>1
    <3> HIDE DEF l
    <3>3. Usage!LinesOf(m, Append(log.lines, month), l) = 0
      BY <3>1, <3>2, LinesCounted
    <3> QED
      BY <1>3, <2>1, <2>2, <2>4, <2>7, <3>3
  <2> QED
    BY <2>3, <2>6, <2>7
<1>7. \A m \in 1..Months : /\ StillCounted(m)' <= StillCounted(m) + IF m = month THEN 1 ELSE 0
                           /\ StillCounted(m) \in Nat /\ StillCounted(m)' \in Nat
  BY <1>1, <1>6 DEF StillCounted
<1>8. \A p \in Usage!Meters : /\ meter[p].month \in 0..Months /\ meter[p].total \in Nat
                              /\ meter[p].delta \in Nat
                              /\ Measures(p) => meter[p].month \in 1..Months
  BY <1>2 DEF UsageShapes, Meter, UsageInv, MonthsPast
<1>9. CountedOnce'
  <2> SUFFICES ASSUME ~recount PROVE CountedOnce'
    BY <1>1 DEF CountedOnce
  <2>1. ASSUME NEW m \in 1..Months PROVE total[m] + StillCounted(m)' <= logged'[m]
    <3>1. total[m] \in Nat /\ total[m] + StillCounted(m) <= logged[m]
      BY <1>2 DEF UsageInv, CountedOnce, UsageShapes
    <3>2. \E e \in {0, 1} : /\ logged'[m] = logged[m] + e /\ logged[m] \in Nat
                            /\ StillCounted(m)' <= StillCounted(m) + e
                            /\ StillCounted(m) \in Nat /\ StillCounted(m)' \in Nat
      BY <1>4, <1>7
    <3> QED
      BY <3>1, <3>2
  <2>2. ASSUME NEW p \in Usage!Meters, NEW m \in 1..Months, meter[p].month = m
        PROVE  /\ meter[p].pc = "delta" => meter[p].total + StillCounted(m)' <= logged'[m]
               /\ meter[p].pc = "persist" =>
                     meter[p].total + meter[p].delta + StillCounted(m)' <= logged'[m]
    <3>1. /\ meter[p].total \in Nat /\ meter[p].delta \in Nat
          /\ meter[p].pc = "delta" => meter[p].total + StillCounted(m) <= logged[m]
          /\ meter[p].pc = "persist" =>
                meter[p].total + meter[p].delta + StillCounted(m) <= logged[m]
      BY <1>8, <2>2 DEF UsageInv, CountedOnce
    <3>2. \E e \in {0, 1} : /\ logged'[m] = logged[m] + e /\ logged[m] \in Nat
                            /\ StillCounted(m)' <= StillCounted(m) + e
                            /\ StillCounted(m) \in Nat /\ StillCounted(m)' \in Nat
      BY <1>4, <1>7
    <3> QED
      BY <3>1, <3>2
  <2> QED
    BY <1>1, <2>1, <2>2 DEF CountedOnce
<1>10. MonthsPast'
  BY <1>1, <1>2, <1>4 DEF UsageInv, MonthsPast, Measures, UsageShapes
<1>11. NoneLeftOut'
  <2> SUFFICES ASSUME ~disturbed, ~recount PROVE LinesFound'
    BY <1>1 DEF NoneLeftOut
  <2>1. LinesFound
    BY DEF UsageInv, NoneLeftOut
  <2>2. /\ Usage!Unread(month)' = Usage!Unread(month) + 1 /\ logged'[month] = logged[month] + 1
        /\ Usage!Unread(month) \in Nat /\ logged[month] \in Nat /\ total[month] \in Nat
    <3>1. ~(cp.inode = log.inode) \/ cp.offset <= Len(log.lines)
      BY <2>1 DEF LinesFound
    <3>2. total[month] \in Nat
      BY <1>2 DEF UsageShapes
    <3>3. PICK m \in 1..Months : m = month /\ m = month'
      BY <1>1, <1>4
    <3>4. /\ Usage!Unread(m)' = Usage!Unread(m) + 1 /\ Usage!Unread(m) \in Nat
          /\ logged'[m] = logged[m] + 1 /\ logged[m] \in Nat
      BY <1>4, <1>6, <3>1, <3>3
    <3> QED
      BY <3>2, <3>3, <3>4
  <2>3. cp'.inode = log'.inode => cp'.offset <= Len(log'.lines)
    BY <1>1, <1>2, <1>3, <2>1 DEF LinesFound, UsageShapes
  <2>4. ASSUME NEW p \in Usage!Meters, AtPersist(p)
        PROVE  logged'[month] = meter[p].total + meter[p].delta + Usage!Unread(month)'
    <3>1. logged[month] = meter[p].total + meter[p].delta + Usage!Unread(month)
      BY <2>1, <2>4 DEF LinesFound
    <3>2. meter[p].total \in Nat /\ meter[p].delta \in Nat
      BY <1>8, <2>4
    <3> QED
      BY <2>2, <3>1, <3>2
  <2>5. ASSUME \A p \in Usage!Meters : ~AtPersist(p)
        PROVE  logged'[month] = total[month] + Usage!Unread(month)'
    BY <2>1, <2>2, <2>5 DEF LinesFound
  <2> QED
    BY <1>1, <2>1, <2>3, <2>4, <2>5 DEF LinesFound, Measures, AtPersist
<1>12. HoldKnown' /\ MarksSet'
  BY <1>1, UsageWorkerKept
<1> QED
  BY <1>5, <1>9, <1>10, <1>11, <1>12, UsageTyped DEF UsageInv

LEMMA UsageNewMonth == UsageInv /\ Usage!NewMonth => UsageInv'
<1> SUFFICES ASSUME UsageInv, Usage!NewMonth PROVE UsageInv'
  OBVIOUS
<1>1. /\ month < Months /\ month' = month + 1
      /\ UNCHANGED <<log, cp, total, usage, limit, disk, meter, failures, changes, logged>>
      /\ UNCHANGED <<site, reconcile, disturbed, recount, dropped>>
  BY DEF Usage!NewMonth
<1>2. UsageShapes /\ UsageFlags
  BY UsageTyped DEF UsageInv
<1>3. month' \in 1..Months /\ month \in 1..Months /\ cp.month \in Nat
  BY <1>1, <1>2, Bounds DEF UsageShapes
<1>4. UsageShapes' /\ UsageFlags'
  BY <1>1, <1>2, <1>3 DEF UsageShapes, UsageFlags
<1>5. \A m : Usage!Unread(m)' = Usage!Unread(m) /\ StillCounted(m)' = StillCounted(m)
  BY <1>1 DEF Usage!Unread, StillCounted, Usage!ResumeAt
<1>6. CountedOnce'
  BY <1>1, <1>5 DEF UsageInv, CountedOnce
<1>7. \A p \in Usage!Meters : meter[p].month \in Nat /\ meter[p].month <= month
  BY <1>2 DEF UsageInv, MonthsPast, UsageShapes, Meter
<1>8. MonthsPast'
  BY <1>1, <1>3, <1>7 DEF UsageInv, MonthsPast, Measures
<1>9. NoneLeftOut'
  <2> SUFFICES ASSUME ~disturbed, ~recount PROVE LinesFound'
    BY <1>1 DEF NoneLeftOut
  <2>1. LinesFound
    BY DEF UsageInv, NoneLeftOut
  <2>2. \A p \in Usage!Meters : meter[p].month # month'
    BY <1>1, <1>3, <1>7
  <2>3. PICK m \in 1..Months : m = month'
    BY <1>3
  <2>4. /\ logged[m] = 0 /\ m >= cp.month /\ total[m] + StillCounted(m) <= logged[m]
        /\ total[m] \in Nat
    BY <1>1, <1>2, <1>3, <2>3 DEF UsageInv, MonthsPast, CountedOnce, UsageShapes
  <2>5. StillCounted(m) = Usage!Unread(m) /\ Usage!Unread(m) \in Nat
    BY <2>4, UnreadFacts DEF StillCounted, UsageInv
  <2>6. logged[m] = total[m] + Usage!Unread(m)'
    BY <1>5, <2>4, <2>5
  <2> QED
    BY <1>1, <2>1, <2>2, <2>3, <2>6 DEF LinesFound, Measures, AtPersist
<1>10. HoldKnown' /\ MarksSet'
  BY <1>1, UsageWorkerKept
<1> QED
  BY <1>4, <1>6, <1>8, <1>9, <1>10, UsageTyped DEF UsageInv

LEMMA UsageRotate == UsageInv /\ Usage!Rotate => UsageInv'
<1> SUFFICES ASSUME UsageInv, Usage!Rotate PROVE UsageInv'
  OBVIOUS
<1>1. /\ changes' \in 0..MeterChanges /\ log'.inode \in {log.inode, log.inode + 1}
      /\ log' = [inode |-> log'.inode, lines |-> <<>>]
      /\ UNCHANGED <<month, cp, total, usage, limit, disk, meter, failures, logged>>
  <2>1. changes \in 0..MeterChanges
    BY DEF UsageInv, Usage!TypeOK
  <2> QED
    BY <2>1, Bounds DEF Usage!Rotate
<1>2. /\ disturbed' = (disturbed \/ Usage!Measuring \/ Usage!Unread(month) > 0
                       \/ log'.inode = cp.inode)
      /\ UNCHANGED <<site, reconcile, recount, dropped>>
  BY DEF Usage!Rotate
<1>3. UsageShapes /\ UsageFlags
  BY UsageTyped DEF UsageInv
<1>4. UsageShapes'
  <2>1. log.inode \in Nat \ {0} /\ <<>> \in Seq(1..Months)
    BY <1>3 DEF UsageShapes
  <2>2. PICK i \in Nat \ {0} : i = log'.inode
    BY <1>1, <2>1
  <2>3. [inode |-> i, lines |-> <<>>] \in [inode : Nat \ {0}, lines : Seq(1..Months)]
    BY <2>1
  <2>4. log' \in [inode : Nat \ {0}, lines : Seq(1..Months)]
    BY <1>1, <2>2, <2>3
  <2> QED
    BY <1>1, <1>3, <2>4 DEF UsageShapes
<1>5. disturbed' \in BOOLEAN /\ (~disturbed' => /\ ~disturbed /\ ~Usage!Measuring
                                                /\ ~(Usage!Unread(month) > 0)
                                                /\ log'.inode # cp.inode)
  BY <1>2
<1>6. UsageFlags'
  BY <1>2, <1>3, <1>5 DEF UsageFlags
<1>7. \A m \in 1..Months : Usage!Unread(m)' = 0 /\ StillCounted(m)' = 0
  <2> TAKE m \in 1..Months
  <2>1. log'.lines \in Seq(1..Months) /\ Len(log'.lines) = 0 /\ cp'.offset \in Nat
    <3>1. log'.lines = <<>>
      BY <1>1
    <3>2. cp.offset \in Nat
      BY <1>3 DEF UsageShapes
    <3> QED
      BY <1>1, <3>1, <3>2
  <2>2. Usage!ResumeAt(log, m)' \in Nat
    BY <2>1 DEF Usage!ResumeAt
  <2>3. Usage!LinesOf(m, log'.lines, Usage!ResumeAt(log, m)') = 0
    BY <2>1, <2>2, LinesCounted
  <2>4. Usage!Unread(m)' = 0
    BY <2>3 DEF Usage!Unread
  <2> QED
    BY <2>4 DEF StillCounted
<1>8. \A m \in 1..Months : StillCounted(m) \in Nat /\ Usage!Unread(m) \in Nat
  BY UnreadFacts DEF UsageInv
<1>9. \A p \in Usage!Meters : meter[p].total \in Nat /\ meter[p].delta \in Nat
  BY <1>3 DEF UsageShapes, Meter
<1>10. CountedOnce'
  <2> SUFFICES ASSUME ~recount PROVE CountedOnce'
    BY <1>2 DEF CountedOnce
  <2>1. ASSUME NEW m \in 1..Months PROVE total[m] + StillCounted(m)' <= logged[m]
    <3>1. total[m] \in Nat /\ logged[m] \in Nat /\ total[m] + StillCounted(m) <= logged[m]
      BY <1>3, Bounds DEF UsageInv, CountedOnce, UsageShapes
    <3> QED
      BY <1>7, <1>8, <3>1
  <2>2. ASSUME NEW p \in Usage!Meters, NEW m \in 1..Months, meter[p].month = m
        PROVE  /\ meter[p].pc = "delta" => meter[p].total + StillCounted(m)' <= logged[m]
               /\ meter[p].pc = "persist" =>
                     meter[p].total + meter[p].delta + StillCounted(m)' <= logged[m]
    <3>1. logged[m] \in Nat
      BY <1>3, Bounds DEF UsageShapes
    <3> QED
      BY <1>7, <1>8, <1>9, <2>2, <3>1 DEF UsageInv, CountedOnce
  <2> QED
    BY <1>1, <2>1, <2>2 DEF CountedOnce
<1>11. MonthsPast'
  BY <1>1 DEF UsageInv, MonthsPast, Measures
<1>12. NoneLeftOut'
  <2> SUFFICES ASSUME ~disturbed', ~recount' PROVE LinesFound'
    BY DEF NoneLeftOut
  <2>1. LinesFound
    BY <1>2, <1>5 DEF UsageInv, NoneLeftOut
  <2>2. \A p \in Usage!Meters : ~Measures(p)
    BY <1>5 DEF Measures, Usage!Measuring
  <2>3. PICK m \in 1..Months : m = month /\ m = month'
    BY <1>1, <1>3 DEF UsageShapes
  <2>4. Usage!Unread(m) = 0 /\ Usage!Unread(m)' = 0 /\ logged[m] = total[m] + Usage!Unread(m)
    BY <1>5, <1>7, <1>8, <2>1, <2>2, <2>3 DEF LinesFound, Measures, AtPersist
  <2>5. logged'[month'] = total'[month'] + Usage!Unread(month)'
    BY <1>1, <2>3, <2>4
  <2> QED
    BY <1>1, <1>5, <2>2, <2>5 DEF LinesFound, Measures, AtPersist
<1>13. HoldKnown' /\ MarksSet'
  BY <1>1, <1>2, UsageWorkerKept
<1> QED
  BY <1>4, <1>6, <1>10, <1>11, <1>12, <1>13, UsageTyped DEF UsageInv

\* A package change, and a home that fills or empties.
LEMMA UsageChanges ==
    ASSUME UsageInv, Usage!ChangePackage \/ Usage!FillHome PROVE UsageInv'
<1>1. /\ changes' \in 0..MeterChanges /\ limit' \in Usage!Limits
      /\ UNCHANGED <<month, log, cp, total, usage, meter, failures, logged>>
  <2>1. changes \in 0..MeterChanges /\ limit \in Usage!Limits
    BY DEF UsageInv, Usage!TypeOK
  <2> QED
    BY <2>1, Bounds DEF Usage!ChangePackage, Usage!FillHome
<1>2. UNCHANGED <<site, disturbed, recount, dropped>> /\ (reconcile' = TRUE \/ limit' = limit)
      /\ (reconcile' = TRUE \/ reconcile' = reconcile)
  BY DEF Usage!ChangePackage, Usage!FillHome
<1>3. UsageShapes /\ UsageFlags
  BY UsageTyped DEF UsageInv
<1>4. /\ disk' \in [full : BOOLEAN, lock : BOOLEAN, mark : BOOLEAN, sshd : BOOLEAN]
      /\ disk'.lock = disk.lock /\ disk'.mark = disk.mark /\ disk'.sshd = disk.sshd
  BY <1>3 DEF UsageShapes, Usage!ChangePackage, Usage!FillHome
<1>5. UsageShapes'
  BY <1>1, <1>3, <1>4 DEF UsageShapes
<1>6. reconcile' \in BOOLEAN
  BY <1>2, <1>3, Zenon DEF UsageFlags
<1>7. UsageFlags'
  BY <1>2, <1>3, <1>6 DEF UsageFlags
<1>8. UsageQuiet
  <2>1. "write" \in Usage!Meters
    BY DEF Usage!Meters
  <2> QED
    BY <1>1, <1>2, <2>1 DEF UsageQuiet, Measures
<1>9. HoldKnown' /\ MarksSet'
  BY <1>1, <1>2, <1>4, UsageWorkerKept
<1> QED
  BY <1>5, <1>7, <1>8, <1>9, UsageTyped, UsageQuietly DEF UsageInv

-----------------------------------------------------------------------------
(* A measurement.                                                          *)

LEMMA MeterUpdated ==
    ASSUME meter \in [Usage!Meters -> Meter], NEW p \in Usage!Meters, NEW r \in Meter,
           meter' = [meter EXCEPT ![p] = r]
    PROVE  /\ meter' \in [Usage!Meters -> Meter] /\ meter'[p] = r
           /\ \A q \in Usage!Meters \ {p} : meter'[q] = meter[q]
  OBVIOUS

LEMMA MeterIdle == /\ Usage!Idle \in Meter /\ Usage!Idle.pc = "idle"
                   /\ Usage!Idle.month = 0 /\ ~Usage!Idle.disk
  BY Bounds DEF Usage!Idle, Meter, Usage!Steps

\* A measurement goes on: it keeps what it is for and what it holds against.
LEMMA UsageMeasures ==
    ASSUME UsageInv, NEW p \in Usage!Meters, NEW r \in Meter,
           meter' = [meter EXCEPT ![p] = r],
           UNCHANGED <<usage, limit, site, disk, reconcile, dropped>>,
           failures' = 0 => failures = 0,
           p = "worker" =>
              /\ meter[p].pc \in {"total", "delta", "persist"}
              /\ r.held = meter[p].held /\ r.disk = meter[p].disk
              /\ \/ r.pc \in {"delta", "persist"}
                 \/ meter[p].disk /\ r.pc = "lock"
                 \/ ~meter[p].disk /\ r.pc = "put"
    PROVE  HoldKnown' /\ MarksSet'
<1>1. UsageShapes
  BY UsageTyped DEF UsageInv
<1>2. meter'[p] = r /\ \A q \in Usage!Meters \ {p} : meter'[q] = meter[q]
  BY <1>1, MeterUpdated DEF UsageShapes
<1>3. "worker" \in Usage!Meters
  BY DEF Usage!Meters
<1>4. CASE p # "worker"
  BY <1>2, <1>3, <1>4, UsageWorkerKept
<1>5. CASE p = "worker"
  <2>1. MarksSet'
    BY <1>2, <1>5 DEF MarksSet
  <2>2. Usage!BandwidthHold' = Usage!BandwidthHold
    BY DEF Usage!BandwidthHold
  <2>3. HoldKnown'
    <3>1. meter'["worker"] = r /\ r.held = meter["worker"].held
          /\ r.disk = meter["worker"].disk /\ meter["worker"].pc \in {"total", "delta", "persist"}
      BY <1>2, <1>5
    <3>2. r.pc = "put" => ~r.disk
      BY <1>5
    <3> SUFFICES ASSUME ~dropped, ~reconcile
                 PROVE  /\ r.pc = "idle" => site = Usage!BandwidthHold
                        /\ r.pc \in {"total", "delta", "persist", "put"} /\ ~r.disk =>
                              r.held = site /\ site = Usage!BandwidthHold
                        /\ r.pc \in {"disk", "lock", "mark", "sshd", "hold"} => r.held = site
                        /\ r.pc \in {"total", "delta", "persist"} /\ r.disk => r.held = site
      BY <2>2, <3>1, <3>2 DEF HoldKnown
    <3>3. /\ ~r.disk => r.held = site /\ site = Usage!BandwidthHold
          /\ r.disk => r.held = site
      BY <3>1 DEF UsageInv, HoldKnown
    <3>4. r.pc # "idle" /\ (r.pc \in {"disk", "lock", "mark", "sshd", "hold"} => r.disk)
      BY <1>5
    <3> QED
      BY <3>3, <3>4
  <2> QED
    BY <2>1, <2>3
<1> QED
  BY <1>4, <1>5

LEMMA UsageStart == ASSUME UsageInv, NEW p \in Usage!Meters, Usage!Start(p) PROVE UsageInv'
<1> DEFINE r == [Usage!Idle EXCEPT !.pc = "total", !.month = month,
                                   !.held = Usage!BandwidthHold]
<1>1. /\ meter[p].pc = "idle" /\ (p = "worker" => ~reconcile)
      /\ meter' = [meter EXCEPT ![p] = r]
      /\ UNCHANGED <<month, log, cp, total, usage, limit, disk, failures, logged>>
      /\ UNCHANGED <<site, reconcile, recount, dropped>>
      /\ disturbed' = (disturbed \/ Usage!Measuring)
  BY DEF Usage!Start, Usage!Meters
<1>2. UsageShapes /\ UsageFlags
  BY UsageTyped DEF UsageInv
<1>3. changes' \in 0..MeterChanges
  <2>1. changes \in 0..MeterChanges
    BY <1>2 DEF UsageShapes
  <2> QED
    BY <2>1, Bounds DEF Usage!Start, Usage!Meters
<1>4. /\ r \in Meter /\ r.pc = "total" /\ r.month = month /\ r.disk = FALSE
      /\ r.held = Usage!BandwidthHold
  <2>1. PICK b \in BOOLEAN : b = Usage!BandwidthHold
    BY HoldBoolean, Zenon
  <2>2. r = [Usage!Idle EXCEPT !.pc = "total", !.month = month, !.held = b]
    BY <2>1, Zenon
  <2> HIDE DEF r
  <2>3. r = [pc |-> "total", month |-> month, total |-> 0, delta |-> 0, held |-> b,
             disk |-> FALSE, full |-> FALSE]
    BY <2>1, <2>2 DEF Usage!Idle
  <2>4. month \in 0..Months
    BY <1>2 DEF UsageShapes
  <2>5. r \in Meter /\ r.pc = "total" /\ r.month = month /\ r.disk = FALSE /\ r.held = b
    BY <2>1, <2>3, <2>4 DEF Meter, Usage!Steps
  <2> QED
    BY <2>1, <2>5, Zenon
<1> HIDE DEF r
<1>5. /\ meter' \in [Usage!Meters -> Meter] /\ meter'[p] = r
      /\ \A q \in Usage!Meters \ {p} : meter'[q] = meter[q]
  BY <1>1, <1>2, <1>4, MeterUpdated DEF UsageShapes
<1>6. UsageShapes'
  BY <1>1, <1>2, <1>3, <1>5 DEF UsageShapes
<1>7. disturbed' \in BOOLEAN /\ (~disturbed' => ~disturbed /\ ~Usage!Measuring)
  BY <1>1
<1>8. UsageFlags'
  BY <1>1, <1>2, <1>7 DEF UsageFlags
<1>9. UsageQuiet
  <2>1. month \in Nat /\ month >= 1 /\ month <= month
    BY <1>2 DEF UsageShapes
  <2>2. \A q \in Usage!Meters : \/ meter'[q] = meter[q]
                                \/ /\ meter'[q].pc \notin {"delta", "persist"}
                                   /\ meter'[q].month <= month
                                   /\ meter'[q].pc = "total" => meter'[q].month >= 1
    BY <1>4, <1>5, <2>1
  <2>3. ~Usage!Measuring => \A q \in Usage!Meters : ~Measures(q)
    BY DEF Usage!Measuring, Measures
  <2>4. \A q \in Usage!Meters : meter[q].pc = "persist" => meter'[q] = meter[q]
    BY <1>1, <1>5
  <2> QED
    BY <1>1, <1>5, <1>7, <2>2, <2>3, <2>4 DEF UsageQuiet
<1>10. HoldKnown' /\ MarksSet'
  <2>1. CASE p # "worker"
    <3>1. meter'["worker"] = meter["worker"]
      BY <1>5, <2>1 DEF Usage!Meters
    <3> QED
      BY <1>1, <3>1, UsageWorkerKept
  <2>2. CASE p = "worker"
    <3>1. meter'["worker"] = r
      BY <1>5, <2>2
    <3>2. MarksSet'
      BY <1>4, <3>1 DEF MarksSet
    <3>3. Usage!BandwidthHold' = Usage!BandwidthHold
      BY <1>1 DEF Usage!BandwidthHold
    <3>4. ~dropped => site = Usage!BandwidthHold
      BY <1>1, <2>2 DEF UsageInv, HoldKnown
    <3>5. HoldKnown'
      BY <1>1, <1>4, <3>1, <3>3, <3>4 DEF HoldKnown
    <3> QED
      BY <3>2, <3>5
  <2> QED
    BY <2>1, <2>2
<1> QED
  BY <1>6, <1>8, <1>9, <1>10, UsageTyped, UsageQuietly DEF UsageInv

LEMMA UsageReads ==
    ASSUME UsageInv, NEW p \in Usage!Meters, Usage!ReadPersistedMonthly(p) PROVE UsageInv'
<1> DEFINE r == [meter[p] EXCEPT !.pc = "delta", !.total = total[meter[p].month]]
<1>1. /\ meter[p].pc = "total" /\ meter' = [meter EXCEPT ![p] = r]
      /\ UNCHANGED <<cp, total, failures, month, log, usage, limit, disk, changes, logged>>
      /\ UNCHANGED <<site, reconcile, dropped, disturbed, recount>>
  BY DEF Usage!ReadPersistedMonthly, Usage!Counting
<1>2. UsageShapes /\ UsageFlags
  BY UsageTyped DEF UsageInv
<1>3. PICK m \in 1..Months : m = meter[p].month
  BY <1>1, <1>2, SMTT(30) DEF UsageInv, MonthsPast, Measures, UsageShapes, Meter
<1>4. /\ r \in Meter /\ r.pc = "delta" /\ r.month = m /\ r.total = total[m]
      /\ r.disk = meter[p].disk /\ r.held = meter[p].held
  <2>1. PICK v \in Meter : v = meter[p]
    BY <1>2 DEF UsageShapes
  <2>2. PICK t \in Nat : t = total[m]
    BY <1>2 DEF UsageShapes
  <2>3. r = [v EXCEPT !.pc = "delta", !.total = t]
    BY <1>3, <2>1, <2>2, Zenon
  <2> HIDE DEF r
  <2>4. /\ r \in Meter /\ r.pc = "delta" /\ r.month = v.month /\ r.total = t
        /\ r.disk = v.disk /\ r.held = v.held
    BY <2>3 DEF Meter, Usage!Steps
  <2> QED
    BY <1>3, <2>1, <2>2, <2>4
<1> HIDE DEF r
<1>5. /\ meter' \in [Usage!Meters -> Meter] /\ meter'[p] = r
      /\ \A q \in Usage!Meters \ {p} : meter'[q] = meter[q]
  BY <1>1, <1>2, <1>4, MeterUpdated DEF UsageShapes
<1>6. UsageShapes' /\ UsageFlags'
  BY <1>1, <1>2, <1>5 DEF UsageShapes, UsageFlags
<1>7. \A n : Usage!Unread(n)' = Usage!Unread(n) /\ StillCounted(n)' = StillCounted(n)
  BY <1>1 DEF Usage!Unread, StillCounted, Usage!ResumeAt
<1>8. CountedOnce'
  <2> SUFFICES ASSUME ~recount PROVE CountedOnce'
    BY <1>1 DEF CountedOnce
  <2>1. \A n \in 1..Months : total[n] + StillCounted(n) <= logged[n]
    BY DEF UsageInv, CountedOnce
  <2>2. ASSUME NEW q \in Usage!Meters, NEW n \in 1..Months, meter'[q].month = n
        PROVE  /\ meter'[q].pc = "delta" => meter'[q].total + StillCounted(n) <= logged[n]
               /\ meter'[q].pc = "persist" =>
                     meter'[q].total + meter'[q].delta + StillCounted(n) <= logged[n]
    <3>1. CASE q = p
      BY <1>4, <1>5, <2>1, <2>2, <3>1
    <3>2. CASE q # p
      BY <1>5, <2>2, <3>2 DEF UsageInv, CountedOnce
    <3> QED
      BY <3>1, <3>2
  <2> QED
    BY <1>1, <1>7, <2>1, <2>2 DEF CountedOnce
<1>9. \A q \in Usage!Meters : /\ Measures(q)' <=> Measures(q)
                              /\ AtPersist(q)' <=> AtPersist(q)
  BY <1>1, <1>4, <1>5 DEF Measures, AtPersist
<1>10. MonthsPast'
  BY <1>1, <1>3, <1>4, <1>5, <1>9 DEF UsageInv, MonthsPast
<1>11. NoneLeftOut'
  <2> SUFFICES ASSUME ~disturbed, ~recount PROVE LinesFound'
    BY <1>1 DEF NoneLeftOut
  <2>1. LinesFound
    BY DEF UsageInv, NoneLeftOut
  <2>2. \A q \in Usage!Meters : AtPersist(q)' => meter'[q] = meter[q]
    BY <1>4, <1>5 DEF AtPersist
  <2>3. \A q \in Usage!Meters : meter'[q].pc = "delta" /\ meter'[q].month = month =>
            meter'[q].total = total[month]
    BY <1>4, <1>5, <2>1 DEF LinesFound
  <2> QED
    BY <1>1, <1>7, <1>9, <2>1, <2>2, <2>3 DEF LinesFound
<1>12. HoldKnown' /\ MarksSet'
  BY <1>1, <1>4, UsageMeasures
<1> QED
  BY <1>6, <1>8, <1>10, <1>11, <1>12, UsageTyped DEF UsageInv

LEMMA UsageDelta ==
    ASSUME UsageInv, NEW p \in Usage!Meters, Usage!ReadBandwidthDelta(p) PROVE UsageInv'
<1>1. /\ meter[p].pc = "delta"
      /\ UNCHANGED <<total, month, log, usage, limit, disk, changes, logged>>
      /\ UNCHANGED <<site, reconcile, dropped, disturbed>>
  BY DEF Usage!ReadBandwidthDelta, Usage!Counting
<1>2. UsageShapes /\ UsageFlags
  BY UsageTyped DEF UsageInv
<1>3. PICK m \in 1..Months : m = meter[p].month
  BY <1>1, <1>2 DEF UsageInv, MonthsPast, Measures, UsageShapes, Meter
<1> DEFINE r == [meter[p] EXCEPT !.pc = "persist", !.delta = Usage!Unread(m)]
           next == [inode |-> log.inode, offset |-> Len(log.lines), month |-> m]
<1>4. /\ meter' = [meter EXCEPT ![p] = r]
      /\ \/ cp' = next /\ failures' = failures
         \/ cp' = cp /\ failures < MeterFailures /\ failures' = failures + 1
  BY <1>3 DEF Usage!ReadBandwidthDelta, Usage!Fails
<1>5. recount' \in BOOLEAN /\ (~recount' => ~recount /\ ~(cp.month > m) /\ cp' = next)
  <2>1. \/ cp' = next /\ recount' = (recount \/ cp.month > m)
        \/ recount' = TRUE
    BY <1>3 DEF Usage!ReadBandwidthDelta
  <2> QED
    BY <2>1
<1>6. \A n \in 1..Months : Usage!Unread(n) \in Nat /\ StillCounted(n) \in Nat
  BY UnreadFacts DEF UsageInv
<1>7. /\ r \in Meter /\ r.pc = "persist" /\ r.month = m /\ r.total = meter[p].total
      /\ r.delta = Usage!Unread(m) /\ r.disk = meter[p].disk /\ r.held = meter[p].held
  <2>1. PICK v \in Meter : v = meter[p]
    BY <1>2 DEF UsageShapes
  <2>2. PICK t \in Nat : t = Usage!Unread(m)
    BY <1>6
  <2>3. r = [v EXCEPT !.pc = "persist", !.delta = t]
    BY <2>1, <2>2, Zenon
  <2> HIDE DEF r
  <2>4. /\ r \in Meter /\ r.pc = "persist" /\ r.month = v.month /\ r.total = v.total
        /\ r.delta = t /\ r.disk = v.disk /\ r.held = v.held
    BY <2>3 DEF Meter, Usage!Steps
  <2> QED
    BY <1>3, <2>1, <2>2, <2>4
<1> HIDE DEF r
<1>8. /\ meter' \in [Usage!Meters -> Meter] /\ meter'[p] = r
      /\ \A q \in Usage!Meters \ {p} : meter'[q] = meter[q]
  BY <1>2, <1>4, <1>7, MeterUpdated DEF UsageShapes
<1>9. /\ next \in [inode : Nat, offset : Nat, month : Nat] /\ next.month = m
      /\ next.inode = log.inode /\ next.offset = Len(log.lines)
      /\ Len(log.lines) \in Nat /\ log.lines \in Seq(1..Months) /\ cp.month \in Nat
  BY <1>2 DEF UsageShapes
<1> HIDE DEF next
<1>10. UsageShapes'
  <2>1. cp' \in [inode : Nat, offset : Nat, month : Nat] /\ failures' \in 0..MeterFailures
    <3>1. cp \in [inode : Nat, offset : Nat, month : Nat] /\ failures \in 0..MeterFailures
      BY <1>2 DEF UsageShapes
    <3>2. cp' \in [inode : Nat, offset : Nat, month : Nat]
      BY <1>4, <1>9, <3>1
    <3>3. failures' = failures \/ (failures < MeterFailures /\ failures' = failures + 1)
      BY <1>4
    <3> QED
      BY <3>1, <3>2, <3>3, Bounds
  <2> QED
    BY <1>1, <1>2, <1>8, <2>1 DEF UsageShapes
<1>11. UsageFlags'
  BY <1>1, <1>2, <1>5 DEF UsageFlags
<1>12. MonthsPast'
  <2>1. cp'.month <= month'
    BY <1>1, <1>3, <1>4, <1>9 DEF UsageInv, MonthsPast
  <2>2. \A q \in Usage!Meters : meter'[q].month = meter[q].month /\ (Measures(q)' <=> Measures(q))
    BY <1>1, <1>3, <1>7, <1>8 DEF Measures
  <2> QED
    BY <1>1, <2>1, <2>2 DEF UsageInv, MonthsPast
<1>13. ASSUME ~recount'
       PROVE  /\ Usage!Unread(m)' = 0 /\ StillCounted(m) = Usage!Unread(m)
              /\ \A n \in 1..Months : /\ n # m /\ cp.month # n => Usage!Unread(n)' = Usage!Unread(n)
                                      /\ StillCounted(n)' <= StillCounted(n)
                                      /\ StillCounted(n)' \in Nat
  <2>1. cp'.inode = log'.inode /\ cp'.offset = Len(log'.lines) /\ cp'.month = m
        /\ log' = log /\ cp.month <= m
    BY <1>1, <1>3, <1>5, <1>9, <1>13
  <2>2. Usage!ResumeAt(log, m)' = Len(log.lines)
    BY <1>9, <2>1 DEF Usage!ResumeAt, Usage!Resumes
  <2>3. Usage!Unread(m)' = Usage!LinesOf(m, log.lines, Len(log.lines))
    BY <2>1, <2>2 DEF Usage!Unread
  <2>4. Usage!Unread(m)' = 0
    BY <1>9, <2>3, LinesCounted
  <2>5. StillCounted(m) = Usage!Unread(m)
    BY <2>1 DEF StillCounted
  <2>6. ASSUME NEW n \in 1..Months, n # m, cp.month # n
        PROVE  Usage!Unread(n)' = Usage!Unread(n)
    <3>1. Usage!ResumeAt(log, n)' = 0 /\ Usage!ResumeAt(log, n) = 0
      BY <2>1, <2>6 DEF Usage!ResumeAt, Usage!Resumes
    <3> QED
      BY <2>1, <3>1 DEF Usage!Unread
  <2>7. ASSUME NEW n \in 1..Months
        PROVE  StillCounted(n)' <= StillCounted(n) /\ StillCounted(n)' \in Nat
    <3>1. CASE n = m
      BY <1>6, <2>4, <3>1 DEF StillCounted
    <3>2. CASE n < m
      BY <1>6, <2>1, <3>2 DEF StillCounted
    <3>3. CASE n > m
      <4>1. Usage!Unread(n)' = Usage!Unread(n) /\ n >= cp.month
        BY <1>9, <2>1, <2>6, <3>3
      <4> QED
        BY <1>6, <2>1, <3>3, <4>1 DEF StillCounted
    <3> QED
      BY <3>1, <3>2, <3>3
  <2> QED
    BY <2>4, <2>5, <2>6, <2>7
<1>14. \A q \in Usage!Meters : meter[q].total \in Nat /\ meter[q].delta \in Nat
  BY <1>2 DEF UsageShapes, Meter
<1>15. CountedOnce'
  <2> SUFFICES ASSUME ~recount' PROVE CountedOnce'
    BY DEF CountedOnce
  <2>0. ~recount
    BY <1>5
  <2>1. ASSUME NEW n \in 1..Months PROVE total[n] + StillCounted(n)' <= logged[n]
    <3>1. /\ total[n] + StillCounted(n) <= logged[n] /\ total[n] \in Nat /\ logged[n] \in Nat
      BY <1>2, <2>0, Bounds DEF UsageInv, CountedOnce, UsageShapes
    <3> QED
      BY <1>6, <1>13, <3>1
  <2>2. ASSUME NEW q \in Usage!Meters, NEW n \in 1..Months, meter'[q].month = n
        PROVE  /\ meter'[q].pc = "delta" => meter'[q].total + StillCounted(n)' <= logged[n]
               /\ meter'[q].pc = "persist" =>
                     meter'[q].total + meter'[q].delta + StillCounted(n)' <= logged[n]
    <3>0. logged[n] \in Nat
      BY <1>2, Bounds DEF UsageShapes
    <3>1. CASE q = p
      <4>1. n = m /\ meter[p].total + StillCounted(m) <= logged[m]
        BY <1>1, <1>3, <1>7, <1>8, <2>0, <2>2, <3>1 DEF UsageInv, CountedOnce
      <4>2. StillCounted(m)' = 0
        BY <1>13 DEF StillCounted
      <4> QED
        BY <1>6, <1>7, <1>8, <1>13, <1>14, <3>0, <3>1, <4>1, <4>2
    <3>2. CASE q # p
      <4>1. /\ meter'[q] = meter[q]
            /\ meter[q].pc = "delta" => meter[q].total + StillCounted(n) <= logged[n]
            /\ meter[q].pc = "persist" =>
                  meter[q].total + meter[q].delta + StillCounted(n) <= logged[n]
        BY <1>8, <2>0, <2>2, <3>2 DEF UsageInv, CountedOnce
      <4> QED
        BY <1>6, <1>13, <1>14, <3>0, <4>1
    <3> QED
      BY <3>1, <3>2
  <2> QED
    BY <1>1, <2>1, <2>2 DEF CountedOnce
<1>16. NoneLeftOut'
  <2> SUFFICES ASSUME ~disturbed, ~recount' PROVE LinesFound'
    BY <1>1 DEF NoneLeftOut
  <2>1. LinesFound /\ cp.month <= m /\ cp' = next
    BY <1>3, <1>5, <1>9 DEF UsageInv, NoneLeftOut
  <2>2. \A q \in Usage!Meters : Measures(q)' <=> Measures(q)
    BY <1>1, <1>7, <1>8 DEF Measures
  <2>3. \A q \in Usage!Meters \ {p} : ~Measures(q)
    BY <1>1, <2>1 DEF LinesFound, Measures
  <2>4. \A q \in Usage!Meters \ {p} : meter'[q].pc \notin {"delta", "persist"} /\ ~AtPersist(q)
                                     /\ ~AtPersist(q)'
    BY <1>8, <2>3 DEF Measures, AtPersist
  <2>5. ~AtPersist(p) /\ logged[month] = total[month] + Usage!Unread(month)
    BY <1>1, <2>1, <2>4 DEF LinesFound, AtPersist
  <2>6. PICK n \in 1..Months : n = month /\ n = month'
    BY <1>1, <1>2 DEF UsageShapes
  <2>7. cp'.inode = log'.inode => cp'.offset <= Len(log'.lines)
    BY <1>1, <1>9, <2>1
  <2>8. CASE m = n
    <3>1. meter[p].total = total[n]
      BY <1>1, <1>3, <2>1, <2>6, <2>8 DEF LinesFound
    <3>2. logged'[month'] = meter'[p].total + meter'[p].delta + Usage!Unread(month)'
      <4>1. Usage!Unread(n)' = 0 /\ Usage!Unread(n) \in Nat
        BY <1>6, <1>13, <2>8
      <4>2. logged[n] = total[n] + Usage!Unread(n) /\ total[n] \in Nat
        BY <1>2, <2>5, <2>6 DEF UsageShapes
      <4>3. logged[n] = meter'[p].total + meter'[p].delta + Usage!Unread(n)'
        BY <1>7, <1>8, <2>8, <3>1, <4>1, <4>2
      <4> QED
        BY <1>1, <2>6, <4>3
    <3>3. AtPersist(p)'
      BY <1>3, <1>7, <1>8, <2>6, <2>8 DEF AtPersist
    <3> QED
      BY <1>1, <1>7, <1>8, <2>1, <2>2, <2>4, <2>7, <3>2, <3>3 DEF LinesFound
  <2>9. CASE m # n
    <3>1. m < n
      BY <1>3, <2>6, <2>9 DEF UsageInv, MonthsPast
    <3>2. Usage!Unread(n)' = Usage!Unread(n)
      BY <1>9, <1>13, <2>1, <2>9, <3>1
    <3>3. logged'[month'] = total'[month'] + Usage!Unread(month)'
      BY <1>1, <2>5, <2>6, <3>2
    <3>4. ~AtPersist(p)' /\ meter'[p].pc # "delta"
      BY <1>7, <1>8, <2>6, <2>9 DEF AtPersist
    <3> QED
      BY <2>1, <2>2, <2>4, <2>7, <3>3, <3>4 DEF LinesFound
  <2> QED
    BY <2>8, <2>9
<1>17. HoldKnown' /\ MarksSet'
  <2>1. failures' = 0 => failures = 0
    BY <1>2, <1>4, Bounds DEF UsageShapes
  <2> QED
    BY <1>1, <1>4, <1>7, <2>1, UsageMeasures
<1> QED
  BY <1>10, <1>11, <1>12, <1>15, <1>16, <1>17, UsageTyped DEF UsageInv

LEMMA UsagePersists ==
    ASSUME UsageInv, NEW p \in Usage!Meters, Usage!PersistBandwidthTotal(p) PROVE UsageInv'
<1> DEFINE r == IF p = "write" THEN Usage!Idle
                ELSE [meter[p] EXCEPT !.pc = IF meter[p].disk THEN "lock" ELSE "put"]
<1>1. /\ meter[p].pc = "persist" /\ meter' = [meter EXCEPT ![p] = r]
      /\ UNCHANGED <<cp, month, log, usage, limit, disk, changes, logged>>
      /\ UNCHANGED <<site, reconcile, dropped, recount>>
  BY DEF Usage!PersistBandwidthTotal, Usage!Counting, Usage!Counted
<1>2. UsageShapes /\ UsageFlags
  BY UsageTyped DEF UsageInv
<1>3. PICK m \in 1..Months : m = meter[p].month
  BY <1>1, <1>2, SMTT(30) DEF UsageInv, MonthsPast, Measures, UsageShapes, Meter
<1>4. /\ r \in Meter /\ r.pc \in {"idle", "lock", "put"} /\ r.month <= meter[p].month
      /\ p = "worker" => /\ r.disk = meter[p].disk /\ r.held = meter[p].held
                         /\ \/ meter[p].disk /\ r.pc = "lock"
                            \/ ~meter[p].disk /\ r.pc = "put"
  <2>1. meter[p] \in Meter
    BY <1>2 DEF UsageShapes
  <2>2. CASE p = "write"
    BY <1>3, <2>2, MeterIdle
  <2>3. CASE p # "write"
    BY <1>3, <2>1, <2>3 DEF Meter, Usage!Steps
  <2> QED
    BY <2>2, <2>3
<1> HIDE DEF r
<1>5. /\ meter' \in [Usage!Meters -> Meter] /\ meter'[p] = r
      /\ \A q \in Usage!Meters \ {p} : meter'[q] = meter[q]
  BY <1>1, <1>2, <1>4, MeterUpdated DEF UsageShapes
<1>6. /\ \/ /\ total' = [total EXCEPT ![m] = meter[p].total + meter[p].delta]
            /\ failures' = failures
         \/ /\ total' = total /\ failures < MeterFailures /\ failures' = failures + 1
  BY <1>3 DEF Usage!PersistBandwidthTotal, Usage!Fails
<1>7. /\ disturbed' \in BOOLEAN
      /\ ~disturbed' => ~disturbed /\ total' = [total EXCEPT ![m] = meter[p].total + meter[p].delta]
  <2> DEFINE T == total' = [total EXCEPT ![m] = meter[p].total + meter[p].delta]
  <2>1. (disturbed' = disturbed /\ T) \/ disturbed' = TRUE
    BY <1>3 DEF Usage!PersistBandwidthTotal
  <2>2. disturbed \in BOOLEAN
    BY <1>2 DEF UsageFlags
  <2> HIDE DEF T
  <2>3. disturbed' \in BOOLEAN /\ (~disturbed' => ~disturbed /\ T)
    <3>1. CASE disturbed' = disturbed /\ T
      BY <2>2, <3>1, Zenon
    <3>2. CASE disturbed' = TRUE
      BY <3>2, Zenon
    <3> QED
      BY <2>1, <3>1, <3>2
  <2> QED
    BY <2>3 DEF T
<1>8. \A q \in Usage!Meters : /\ meter[q].total \in Nat /\ meter[q].delta \in Nat
                              /\ meter[q].month \in Nat
  BY <1>2 DEF UsageShapes, Meter
<1>9. /\ total' \in [1..Months -> Nat] /\ failures' \in 0..MeterFailures
      /\ failures' = 0 => failures = 0
  <2>1. total \in [1..Months -> Nat] /\ failures \in 0..MeterFailures
    BY <1>2 DEF UsageShapes
  <2>2. total' \in [1..Months -> Nat]
    BY <1>6, <1>8, <2>1
  <2> QED
    BY <1>6, <2>1, <2>2, Bounds
<1>10. UsageShapes' /\ UsageFlags'
  <2>1. UsageFlags'
    BY <1>1, <1>2, <1>7 DEF UsageFlags
  <2> QED
    BY <1>1, <1>2, <1>5, <1>9, <2>1 DEF UsageShapes
<1>11. \A n : Usage!Unread(n)' = Usage!Unread(n) /\ StillCounted(n)' = StillCounted(n)
  BY <1>1 DEF Usage!Unread, StillCounted, Usage!ResumeAt
<1>12. \A q \in Usage!Meters :
          meter'[q].pc \in {"total", "delta", "persist"} => meter'[q] = meter[q] /\ q # p
  BY <1>4, <1>5
<1>13. CountedOnce'
  <2> SUFFICES ASSUME ~recount PROVE CountedOnce'
    BY <1>1 DEF CountedOnce
  <2>1. /\ \A n \in 1..Months : total[n] + StillCounted(n) <= logged[n]
        /\ meter[p].total + meter[p].delta + StillCounted(m) <= logged[m]
    BY <1>1, <1>3 DEF UsageInv, CountedOnce
  <2>2. \A n \in 1..Months : total'[n] + StillCounted(n) <= logged[n]
    BY <1>2, <1>6, <2>1 DEF UsageShapes
  <2>3. ASSUME NEW q \in Usage!Meters, NEW n \in 1..Months, meter'[q].month = n
        PROVE  /\ meter'[q].pc = "delta" => meter'[q].total + StillCounted(n) <= logged[n]
               /\ meter'[q].pc = "persist" =>
                     meter'[q].total + meter'[q].delta + StillCounted(n) <= logged[n]
    BY <1>12, <2>3 DEF UsageInv, CountedOnce
  <2> QED
    BY <1>1, <1>11, <2>2, <2>3 DEF CountedOnce
<1>14. MonthsPast'
  <2>1. \A q \in Usage!Meters : meter'[q].month <= month /\ (Measures(q)' => meter'[q].month >= 1)
    <3>1. month \in Nat /\ r.month \in Nat /\ meter[p].month <= month
      BY <1>2, <1>4 DEF UsageShapes, Meter, UsageInv, MonthsPast
    <3> QED
      BY <1>3, <1>4, <1>5, <1>12, <3>1 DEF UsageInv, MonthsPast, Measures
  <2> QED
    BY <1>1, <2>1 DEF UsageInv, MonthsPast
<1>15. NoneLeftOut'
  <2> SUFFICES ASSUME ~disturbed', ~recount PROVE LinesFound'
    BY <1>1 DEF NoneLeftOut
  <2>1. LinesFound /\ total' = [total EXCEPT ![m] = meter[p].total + meter[p].delta]
    BY <1>7 DEF UsageInv, NoneLeftOut
  <2>2. \A q \in Usage!Meters : ~Measures(q)'
    BY <1>1, <1>12, <2>1 DEF LinesFound, Measures
  <2>3. PICK n \in 1..Months : n = month /\ n = month'
    BY <1>1, <1>2 DEF UsageShapes
  <2>4. logged[n] = total'[n] + Usage!Unread(n)
    <3>1. CASE n = m
      <4>1. AtPersist(p)
        BY <1>1, <1>3, <2>3, <3>1 DEF AtPersist
      <4>2. logged[n] = meter[p].total + meter[p].delta + Usage!Unread(n)
        BY <2>1, <2>3, <4>1 DEF LinesFound
      <4> QED
        BY <1>2, <2>1, <3>1, <4>2 DEF UsageShapes
    <3>2. CASE n # m
      <4>1. \A q \in Usage!Meters : ~AtPersist(q)
        BY <1>1, <1>3, <2>1, <2>3, <3>2 DEF LinesFound, Measures, AtPersist
      <4> QED
        BY <1>2, <2>1, <2>3, <3>2, <4>1 DEF LinesFound, UsageShapes
    <3> QED
      BY <3>1, <3>2
  <2>5. logged'[month'] = total'[month'] + Usage!Unread(month)'
    BY <1>1, <1>11, <2>3, <2>4
  <2> QED
    BY <1>1, <2>1, <2>2, <2>5 DEF LinesFound, Measures, AtPersist
<1>16. HoldKnown' /\ MarksSet'
  BY <1>1, <1>4, <1>9, UsageMeasures
<1> QED
  BY <1>10, <1>13, <1>14, <1>15, <1>16, UsageTyped DEF UsageInv

LEMMA UsageCrash == ASSUME UsageInv, NEW p \in Usage!Meters, Usage!Crash(p) PROVE UsageInv'
<1>1. /\ meter[p].pc # "idle" /\ meter' = [meter EXCEPT ![p] = Usage!Idle]
      /\ failures < MeterFailures /\ failures' = failures + 1
      /\ UNCHANGED <<month, log, cp, total, usage, limit, disk, changes, logged>>
      /\ UNCHANGED <<site, reconcile, recount>>
      /\ disturbed' = (disturbed \/ meter[p].pc = "persist")
      /\ dropped' = (dropped \/ meter[p].pc \in
                          {"disk", "lock", "mark", "sshd", "hold", "reapply"}
                       \/ meter[p].disk)
  BY DEF Usage!Crash, Usage!Fails
<1>2. UsageShapes /\ UsageFlags
  BY UsageTyped DEF UsageInv
<1>3. /\ meter' \in [Usage!Meters -> Meter] /\ meter'[p] = Usage!Idle
      /\ \A q \in Usage!Meters \ {p} : meter'[q] = meter[q]
  BY <1>1, <1>2, MeterUpdated, MeterIdle DEF UsageShapes
<1>4. failures' \in 0..MeterFailures /\ failures' # 0
  BY <1>1, <1>2, Bounds DEF UsageShapes
<1>5. UsageShapes'
  BY <1>1, <1>2, <1>3, <1>4 DEF UsageShapes
<1>6. /\ disturbed' \in BOOLEAN /\ (~disturbed' => ~disturbed /\ meter[p].pc # "persist")
      /\ dropped' \in BOOLEAN
      /\ ~dropped' => /\ ~dropped /\ ~meter[p].disk
                      /\ meter[p].pc \notin {"disk", "lock", "mark", "sshd", "hold", "reapply"}
  BY <1>1
<1>7. UsageFlags'
  BY <1>1, <1>2, <1>6 DEF UsageFlags
<1>8. UsageQuiet
  <2>1. \A q \in Usage!Meters : \/ meter'[q] = meter[q]
                                \/ /\ meter'[q].pc = "idle" /\ meter'[q].month <= month
    BY <1>2, <1>3, MeterIdle DEF UsageShapes
  <2>2. ~Measures(p)'
    BY <1>3, MeterIdle DEF Measures
  <2> QED
    BY <1>1, <1>3, <1>6, <2>1, <2>2 DEF UsageQuiet
<1>9. MarksSet'
  BY <1>4 DEF MarksSet
<1>10. HoldKnown'
  <2>1. CASE p # "worker"
    <3>1. meter'["worker"] = meter["worker"]
      BY <1>3, <2>1 DEF Usage!Meters
    <3> QED
      BY <1>1, <1>4, <1>6, <3>1, UsageWorkerKept
  <2>2. CASE p = "worker"
    <3>1. meter'["worker"].pc = "idle" /\ ~meter'["worker"].disk
      BY <1>3, <2>2, MeterIdle
    <3>2. Usage!BandwidthHold' = Usage!BandwidthHold
      BY <1>1 DEF Usage!BandwidthHold
    <3>3. meter["worker"].pc \in Usage!Steps
      BY <1>2 DEF UsageShapes, Usage!Meters, Meter
    <3>4. ~dropped' /\ ~reconcile => site = Usage!BandwidthHold
      BY <1>1, <1>6, <2>2, <3>3 DEF UsageInv, HoldKnown, Usage!Steps
    <3> QED
      BY <1>1, <3>1, <3>2, <3>4 DEF HoldKnown
  <2> QED
    BY <2>1, <2>2
<1> QED
  BY <1>5, <1>7, <1>8, <1>9, <1>10, UsageTyped, UsageQuietly DEF UsageInv

-----------------------------------------------------------------------------
(* recordUsage, after the measurement.                                     *)

\* A step of the worker's measurement that counts nothing.
LEMMA UsageWorks ==
    ASSUME UsageInv, NEW r \in Meter, meter' = [meter EXCEPT !["worker"] = r],
           r.pc \notin {"delta", "persist"}, r.month <= month,
           r.pc = "total" => r.month >= 1,
           meter["worker"].pc # "persist",
           UNCHANGED <<month, log, cp, total, logged, recount, limit, reconcile, changes>>,
           usage' \in Nat, failures' \in 0..MeterFailures,
           disk' \in [full : BOOLEAN, lock : BOOLEAN, mark : BOOLEAN, sshd : BOOLEAN],
           site' \in BOOLEAN, dropped' \in BOOLEAN, disturbed' \in BOOLEAN,
           ~disturbed' => ~disturbed,
           ~disturbed' /\ r.pc = "total" => ~Usage!Measuring,
           HoldKnown', MarksSet'
    PROVE  UsageInv'
<1>1. UsageShapes /\ UsageFlags /\ "worker" \in Usage!Meters
  BY UsageTyped DEF UsageInv, Usage!Meters
<1>2. /\ meter' \in [Usage!Meters -> Meter] /\ meter'["worker"] = r
      /\ \A q \in Usage!Meters \ {"worker"} : meter'[q] = meter[q]
  BY <1>1, MeterUpdated DEF UsageShapes
<1>3. UsageShapes'
  BY <1>1, <1>2 DEF UsageShapes
<1>4. UsageFlags'
  BY <1>1 DEF UsageFlags
<1>5. UsageQuiet
  <2>1. \A q \in Usage!Meters : \/ meter'[q] = meter[q]
                                \/ /\ meter'[q].pc \notin {"delta", "persist"}
                                   /\ meter'[q].month <= month
                                   /\ meter'[q].pc = "total" => meter'[q].month >= 1
    BY <1>2
  <2>2. ~Usage!Measuring => \A q \in Usage!Meters : ~Measures(q)
    BY DEF Usage!Measuring, Measures
  <2>3. Measures("worker")' => r.pc = "total"
    BY <1>2 DEF Measures
  <2>4. \A q \in Usage!Meters : meter[q].pc = "persist" => meter'[q] = meter[q]
    BY <1>2
  <2> QED
    BY <1>1, <1>2, <2>1, <2>2, <2>3, <2>4 DEF UsageQuiet
<1> QED
  BY <1>3, <1>4, <1>5, UsageTyped, UsageQuietly DEF UsageInv

\* The state a step of the worker starts from.
LEMMA WorkerFacts ==
    ASSUME UsageInv
    PROVE  /\ meter["worker"] \in Meter /\ meter["worker"].month <= month
           /\ month \in 1..Months /\ usage \in Nat /\ failures \in 0..MeterFailures
           /\ disk \in [full : BOOLEAN, lock : BOOLEAN, mark : BOOLEAN, sshd : BOOLEAN]
           /\ site \in BOOLEAN /\ dropped \in BOOLEAN /\ disturbed \in BOOLEAN
           /\ meter \in [Usage!Meters -> Meter] /\ "worker" \in Usage!Meters
<1>1. UsageShapes /\ UsageFlags /\ "worker" \in Usage!Meters
  BY UsageTyped DEF UsageInv, Usage!Meters
<1> QED
  BY <1>1 DEF UsageInv, MonthsPast, UsageShapes, UsageFlags

LEMMA UsagePuts == UsageInv /\ Usage!PersistUsage => UsageInv'
<1> SUFFICES ASSUME UsageInv, Usage!PersistUsage PROVE UsageInv'
  OBVIOUS
<1> DEFINE w == meter["worker"]
           r == [w EXCEPT !.pc = "disk"]
<1>1. /\ w.pc = "put" /\ usage' = w.total + w.delta /\ meter' = [meter EXCEPT !["worker"] = r]
      /\ UNCHANGED <<month, log, cp, total, logged, limit, changes, disk, failures>>
      /\ UNCHANGED <<recount, reconcile, disturbed, site, dropped>>
  BY DEF Usage!PersistUsage, Usage!Move, Usage!Rest
<1>2. /\ r \in Meter /\ r.pc = "disk" /\ r.month = w.month /\ r.held = w.held
      /\ w.total + w.delta \in Nat
  BY WorkerFacts DEF Meter, Usage!Steps
<1> HIDE DEF r
<1>3. meter'["worker"] = r
  BY <1>1, <1>2, WorkerFacts, MeterUpdated
<1>4. MarksSet'
  BY <1>2, <1>3 DEF MarksSet
<1>5. HoldKnown'
  <2>1. ~dropped /\ ~reconcile => w.held = site
    BY <1>1 DEF UsageInv, HoldKnown
  <2> QED
    BY <1>1, <1>2, <1>3, <2>1 DEF HoldKnown
<1> QED
  BY <1>1, <1>2, <1>4, <1>5, WorkerFacts, UsageWorks

LEMMA UsagePutsZero == UsageInv /\ Usage!PersistWithoutAgent => UsageInv'
<1> SUFFICES ASSUME UsageInv, Usage!PersistWithoutAgent PROVE UsageInv'
  OBVIOUS
<1>1. /\ meter["worker"].pc \in {"total", "put"} /\ usage' = 0
      /\ failures < MeterFailures /\ failures' = failures + 1
      /\ meter' = [meter EXCEPT !["worker"] = Usage!Idle]
      /\ UNCHANGED <<month, log, cp, total, logged, limit, changes, disk>>
      /\ UNCHANGED <<recount, reconcile, disturbed, site>> /\ dropped' = TRUE
  BY DEF Usage!PersistWithoutAgent, Usage!Fails, Usage!Rest
<1>2. failures' \in 0..MeterFailures /\ failures' # 0
  BY <1>1, WorkerFacts, Bounds
<1>3. MarksSet'
  BY <1>2 DEF MarksSet
<1>4. meter'["worker"] = Usage!Idle
  BY <1>1, MeterIdle, WorkerFacts, MeterUpdated
<1>5. HoldKnown'
  BY <1>1, <1>4, MeterIdle DEF HoldKnown
<1>6. Usage!Idle.month <= month /\ dropped' \in BOOLEAN
  BY <1>1, MeterIdle, WorkerFacts
<1> QED
  BY <1>1, <1>2, <1>3, <1>5, <1>6, MeterIdle, WorkerFacts, UsageWorks

LEMMA UsageEnforces == UsageInv /\ Usage!EnforceAccountDisk => UsageInv'
<1> SUFFICES ASSUME UsageInv, Usage!EnforceAccountDisk PROVE UsageInv'
  OBVIOUS
<1> DEFINE w == meter["worker"]
           r == [w EXCEPT !.pc = "total", !.disk = TRUE, !.month = month, !.full = disk.full]
<1>1. /\ w.pc = "disk" /\ meter' = [meter EXCEPT !["worker"] = r]
      /\ UNCHANGED <<month, log, cp, total, logged, limit, changes, disk, failures, usage>>
      /\ UNCHANGED <<recount, reconcile, site, dropped>>
      /\ disturbed' = (disturbed \/ Usage!Measuring)
  BY DEF Usage!EnforceAccountDisk
<1>2. /\ r \in Meter /\ r.pc = "total" /\ r.month = month /\ r.held = w.held /\ r.disk = TRUE
  <2>1. disk.full \in BOOLEAN
    BY WorkerFacts, Zenon
  <2>2. PICK b \in BOOLEAN : b = disk.full
    BY <2>1, Zenon
  <2>3. PICK v \in Meter : v = meter["worker"]
    BY WorkerFacts, Zenon
  <2>4. r = [v EXCEPT !.pc = "total", !.disk = TRUE, !.month = month, !.full = b]
    BY <2>2, <2>3, Zenon
  <2> HIDE DEF r
  <2>5. month \in 0..Months
    BY WorkerFacts, Bounds
  <2>6. r \in Meter /\ r.pc = "total" /\ r.month = month /\ r.held = v.held /\ r.disk = TRUE
    BY <2>2, <2>3, <2>4, <2>5 DEF Meter, Usage!Steps
  <2> QED
    BY <2>3, <2>6
<1> HIDE DEF r
<1>3. meter'["worker"] = r
  BY <1>1, <1>2, WorkerFacts, MeterUpdated
<1>4. MarksSet'
  BY <1>2, <1>3 DEF MarksSet
<1>5. HoldKnown'
  <2>1. ~dropped /\ ~reconcile => w.held = site
    BY <1>1 DEF UsageInv, HoldKnown
  <2> QED
    BY <1>1, <1>2, <1>3, <2>1 DEF HoldKnown
<1>6. disturbed' \in BOOLEAN /\ (~disturbed' => ~disturbed /\ ~Usage!Measuring)
  BY <1>1
<1>7. r.month <= month /\ r.month >= 1
  BY <1>2, WorkerFacts
<1> QED
  BY <1>1, <1>2, <1>4, <1>5, <1>6, <1>7, WorkerFacts, UsageWorks

\* The three marks, one after the other, and the comparison.
LEMMA UsageMarks ==
    ASSUME UsageInv, NEW step \in {"mark", "sshd", "hold"},
           meter["worker"].pc \in {"lock", "mark", "sshd"},
           Usage!Move("worker", step), Usage!Rest, UNCHANGED <<usage, site, dropped>>,
           failures' \in 0..MeterFailures,
           disk' \in [full : BOOLEAN, lock : BOOLEAN, mark : BOOLEAN, sshd : BOOLEAN],
           failures' = 0 =>
              /\ step = "mark" => disk'.lock = meter["worker"].full
              /\ step = "sshd" => /\ disk'.lock = meter["worker"].full
                                  /\ disk'.mark = meter["worker"].full
              /\ step = "hold" => disk'.lock = disk'.mark /\ disk'.mark = disk'.sshd
    PROVE  UsageInv'
<1> DEFINE w == meter["worker"]
           r == [w EXCEPT !.pc = step]
<1>1. /\ meter' = [meter EXCEPT !["worker"] = r]
      /\ UNCHANGED <<month, log, cp, total, logged, limit, changes>>
      /\ UNCHANGED <<recount, reconcile, disturbed>>
  BY DEF Usage!Move, Usage!Rest
<1>2. /\ r \in Meter /\ r.pc = step /\ r.month = w.month /\ r.held = w.held /\ r.full = w.full
  BY WorkerFacts DEF Meter, Usage!Steps
<1> HIDE DEF r
<1>3. meter'["worker"] = r
  BY <1>1, <1>2, WorkerFacts, MeterUpdated
<1>4. MarksSet'
  BY <1>2, <1>3 DEF MarksSet
<1>5. HoldKnown'
  <2>1. ~dropped /\ ~reconcile => w.held = site
    BY DEF UsageInv, HoldKnown
  <2> QED
    BY <1>1, <1>2, <1>3, <2>1 DEF HoldKnown
<1> QED
  BY <1>1, <1>2, <1>4, <1>5, WorkerFacts, UsageWorks

LEMMA UsageLocks ==
    ASSUME UsageInv,
           Usage!SetHomeWriteLock \/ Usage!SetQuotaReadOnlyMarker \/ Usage!RewriteSFTPQuotaSSHD
    PROVE  UsageInv'
<1> DEFINE w == meter["worker"]
<1>1. disk \in [full : BOOLEAN, lock : BOOLEAN, mark : BOOLEAN, sshd : BOOLEAN]
      /\ w.full \in BOOLEAN /\ failures \in 0..MeterFailures
  BY WorkerFacts DEF Meter
<1>2. ASSUME failures < MeterFailures, failures' = failures + 1
      PROVE  failures' \in 0..MeterFailures /\ failures' # 0
  BY <1>1, <1>2, Bounds
<1>3. CASE Usage!SetHomeWriteLock
  <2>1. /\ w.pc = "lock" /\ Usage!Rest /\ UNCHANGED <<usage, site, dropped>>
        /\ \/ /\ disk' = [disk EXCEPT !["lock"] = w.full] /\ Usage!Move("worker", "mark")
              /\ failures' = failures
           \/ /\ disk' = disk /\ Usage!Fails /\ Usage!Move("worker", "hold")
    BY <1>3 DEF Usage!SetHomeWriteLock, Usage!Enforce
  <2>2. CASE /\ disk' = [disk EXCEPT !["lock"] = w.full] /\ Usage!Move("worker", "mark")
             /\ failures' = failures
    <3>1. /\ disk' \in [full : BOOLEAN, lock : BOOLEAN, mark : BOOLEAN, sshd : BOOLEAN]
          /\ disk'.lock = w.full
      BY <1>1, <2>2
    <3> QED
      BY <1>1, <2>1, <2>2, <3>1, UsageMarks
  <2>3. CASE disk' = disk /\ Usage!Fails /\ Usage!Move("worker", "hold")
    BY <1>1, <1>2, <2>1, <2>3, UsageMarks DEF Usage!Fails
  <2> QED
    BY <2>1, <2>2, <2>3
<1>4. CASE Usage!SetQuotaReadOnlyMarker
  <2>1. /\ w.pc = "mark" /\ Usage!Rest /\ UNCHANGED <<usage, site, dropped>>
        /\ \/ /\ disk' = [disk EXCEPT !["mark"] = w.full] /\ Usage!Move("worker", "sshd")
              /\ failures' = failures
           \/ /\ disk' = disk /\ Usage!Fails /\ Usage!Move("worker", "hold")
    BY <1>4 DEF Usage!SetQuotaReadOnlyMarker, Usage!Enforce
  <2>2. CASE /\ disk' = [disk EXCEPT !["mark"] = w.full] /\ Usage!Move("worker", "sshd")
             /\ failures' = failures
    <3>1. /\ disk' \in [full : BOOLEAN, lock : BOOLEAN, mark : BOOLEAN, sshd : BOOLEAN]
          /\ disk'.mark = w.full /\ disk'.lock = disk.lock
      BY <1>1, <2>2
    <3>2. failures = 0 => disk.lock = w.full
      BY <2>1 DEF UsageInv, MarksSet
    <3> QED
      BY <1>1, <2>1, <2>2, <3>1, <3>2, UsageMarks
  <2>3. CASE disk' = disk /\ Usage!Fails /\ Usage!Move("worker", "hold")
    BY <1>1, <1>2, <2>1, <2>3, UsageMarks DEF Usage!Fails
  <2> QED
    BY <2>1, <2>2, <2>3
<1>5. CASE Usage!RewriteSFTPQuotaSSHD
  <2>1. /\ w.pc = "sshd" /\ Usage!Rest /\ UNCHANGED <<usage, site, dropped>>
        /\ Usage!Move("worker", "hold")
        /\ \/ disk' = [disk EXCEPT !.sshd = disk.mark] /\ failures' = failures
           \/ disk' = disk /\ Usage!Fails
    BY <1>5 DEF Usage!RewriteSFTPQuotaSSHD
  <2>2. CASE disk' = [disk EXCEPT !.sshd = disk.mark] /\ failures' = failures
    <3>1. /\ disk' \in [full : BOOLEAN, lock : BOOLEAN, mark : BOOLEAN, sshd : BOOLEAN]
          /\ disk'.sshd = disk.mark /\ disk'.lock = disk.lock /\ disk'.mark = disk.mark
      BY <1>1, <2>2
    <3>2. failures = 0 => disk.lock = disk.mark
      BY <2>1 DEF UsageInv, MarksSet
    <3> QED
      BY <1>1, <2>1, <2>2, <3>1, <3>2, UsageMarks
  <2>3. CASE disk' = disk /\ Usage!Fails
    BY <1>1, <1>2, <2>1, <2>3, UsageMarks DEF Usage!Fails
  <2> QED
    BY <2>1, <2>2, <2>3
<1> QED
  BY <1>3, <1>4, <1>5

LEMMA UsageCompares == UsageInv /\ Usage!CompareHold => UsageInv'
<1> SUFFICES ASSUME UsageInv, Usage!CompareHold PROVE UsageInv'
  OBVIOUS
<1> DEFINE w == meter["worker"]
           r == IF Usage!BandwidthHold # w.held THEN [w EXCEPT !.pc = "reapply"] ELSE Usage!Idle
<1>1. /\ w.pc = "hold" /\ meter' = [meter EXCEPT !["worker"] = r]
      /\ UNCHANGED <<month, log, cp, total, logged, limit, changes, usage, disk, failures>>
      /\ UNCHANGED <<recount, reconcile, disturbed, site, dropped>>
  BY DEF Usage!CompareHold, Usage!Rest
<1>2. /\ r \in Meter /\ r.pc \in {"reapply", "idle"} /\ r.month <= month
      /\ r.pc = "idle" => Usage!BandwidthHold = w.held
  <2>1. CASE Usage!BandwidthHold # w.held
    <3>1. r = [w EXCEPT !.pc = "reapply"]
      BY <2>1
    <3> HIDE DEF r
    <3> QED
      BY <3>1, WorkerFacts DEF Meter, Usage!Steps
  <2>2. CASE Usage!BandwidthHold = w.held
    <3>1. r = Usage!Idle
      BY <2>2
    <3> HIDE DEF r
    <3> QED
      BY <2>2, <3>1, MeterIdle, WorkerFacts
  <2> QED
    BY <2>1, <2>2
<1> HIDE DEF r
<1>3. meter'["worker"] = r
  BY <1>1, <1>2, WorkerFacts, MeterUpdated
<1>4. MarksSet'
  BY <1>2, <1>3 DEF MarksSet
<1>5. HoldKnown'
  <2>1. ~dropped /\ ~reconcile => w.held = site
    BY <1>1 DEF UsageInv, HoldKnown
  <2>2. Usage!BandwidthHold' = Usage!BandwidthHold
    BY <1>1 DEF Usage!BandwidthHold
  <2> QED
    BY <1>1, <1>2, <1>3, <2>1, <2>2 DEF HoldKnown
<1> QED
  BY <1>1, <1>2, <1>4, <1>5, WorkerFacts, UsageWorks

LEMMA UsageReapplies == UsageInv /\ Usage!ReapplyAccountWebsites => UsageInv'
<1> SUFFICES ASSUME UsageInv, Usage!ReapplyAccountWebsites PROVE UsageInv'
  OBVIOUS
<1>1. /\ meter["worker"].pc = "reapply" /\ meter' = [meter EXCEPT !["worker"] = Usage!Idle]
      /\ UNCHANGED <<month, log, cp, total, logged, limit, changes, usage, disk>>
      /\ UNCHANGED <<recount, reconcile, disturbed>>
      /\ failures' = failures \/ (failures < MeterFailures /\ failures' = failures + 1)
  BY DEF Usage!ReapplyAccountWebsites, Usage!Rest, Usage!Fails
<1>2. \/ site' = Usage!BandwidthHold /\ dropped' = FALSE
      \/ site' = site /\ dropped' = TRUE
  BY DEF Usage!ReapplyAccountWebsites
<1>3. site' \in BOOLEAN /\ dropped' \in BOOLEAN
  <2>1. site \in BOOLEAN
    BY WorkerFacts
  <2> QED
    BY <1>2, <2>1, HoldBoolean, Zenon
<1>4. failures' \in 0..MeterFailures
  BY <1>1, WorkerFacts, Bounds
<1>5. meter'["worker"] = Usage!Idle
  BY <1>1, MeterIdle, WorkerFacts, MeterUpdated
<1>6. MarksSet'
  BY <1>5, MeterIdle DEF MarksSet
<1>7. HoldKnown'
  <2>1. Usage!BandwidthHold' = Usage!BandwidthHold
    BY <1>1 DEF Usage!BandwidthHold
  <2> QED
    BY <1>2, <1>5, <2>1, MeterIdle DEF HoldKnown
<1>8. Usage!Idle.month <= month
  BY MeterIdle, WorkerFacts
<1> QED
  BY <1>1, <1>3, <1>4, <1>6, <1>7, <1>8, MeterIdle, WorkerFacts, UsageWorks

LEMMA UsageReconciles == UsageInv /\ Usage!Reconcile => UsageInv'
<1> SUFFICES ASSUME UsageInv, Usage!Reconcile PROVE UsageInv'
  OBVIOUS
<1>1. /\ meter["worker"].pc = "idle"
      /\ UNCHANGED <<month, log, cp, total, usage, limit, disk, meter, failures, changes, logged>>
      /\ UNCHANGED <<disturbed, recount>>
  BY DEF Usage!Reconcile
<1>2. site' = Usage!BandwidthHold /\ dropped' = FALSE /\ reconcile' = FALSE
  BY DEF Usage!Reconcile
<1>3. site' \in BOOLEAN /\ dropped' \in BOOLEAN /\ reconcile' \in BOOLEAN
  BY <1>2, HoldBoolean, Zenon
<1>4. UsageShapes /\ UsageFlags /\ "worker" \in Usage!Meters
  BY UsageTyped DEF UsageInv, Usage!Meters
<1>5. UsageShapes'
  BY <1>1, <1>4 DEF UsageShapes
<1>6. UsageFlags'
  BY <1>1, <1>3, <1>4 DEF UsageFlags
<1>7. UsageQuiet
  BY <1>1, <1>4 DEF UsageQuiet, Measures
<1>8. MarksSet'
  BY <1>1 DEF UsageInv, MarksSet
<1>9. HoldKnown'
  <2>1. Usage!BandwidthHold' = Usage!BandwidthHold
    BY <1>1 DEF Usage!BandwidthHold
  <2> QED
    BY <1>1, <1>2, <2>1 DEF HoldKnown
<1> QED
  BY <1>5, <1>6, <1>7, <1>8, <1>9, UsageTyped, UsageQuietly DEF UsageInv

\* Every step of the metering keeps its invariant.
LEMMA UsageStep == UsageInv /\ (Usage!Next \/ UNCHANGED Usage!vars) => UsageInv'
<1>1. ASSUME UsageInv, UNCHANGED Usage!vars PROVE UsageInv'
  <2>1. /\ UNCHANGED <<month, log, cp, total, usage, limit, disk, meter, failures, changes, logged>>
        /\ UNCHANGED <<site, reconcile, disturbed, recount, dropped>>
    BY <1>1 DEF Usage!vars
  <2>2. UsageShapes /\ UsageFlags /\ "worker" \in Usage!Meters
    BY <1>1, UsageTyped DEF UsageInv, Usage!Meters
  <2>3. UsageShapes' /\ UsageFlags'
    BY <2>1, <2>2 DEF UsageShapes, UsageFlags
  <2>4. UsageQuiet
    BY <2>1, <2>2 DEF UsageQuiet, Measures
  <2>5. HoldKnown' /\ MarksSet'
    BY <1>1, <2>1, UsageWorkerKept
  <2> QED
    BY <1>1, <2>3, <2>4, <2>5, UsageTyped, UsageQuietly DEF UsageInv
<1>2. ASSUME UsageInv, Usage!Next PROVE UsageInv'
  <2>1. CASE \E p \in Usage!Meters : \/ Usage!Start(p) \/ Usage!ReadPersistedMonthly(p)
                                     \/ Usage!ReadBandwidthDelta(p)
                                     \/ Usage!PersistBandwidthTotal(p) \/ Usage!Crash(p)
    BY <1>2, <2>1, UsageStart, UsageReads, UsageDelta, UsagePersists, UsageCrash
  <2> QED
    BY <1>2, <2>1, UsageServe, UsageNewMonth, UsageRotate, UsageChanges, UsagePuts,
       UsagePutsZero, UsageEnforces, UsageLocks, UsageCompares, UsageReapplies,
       UsageReconciles DEF Usage!Next
<1> QED
  BY <1>1, <1>2

\* What the invariant says of the metering.
LEMMA UsageHolds ==
    UsageInv => /\ Usage!NeverCountedTwice /\ Usage!NothingLeftOut
                /\ Usage!HoldFollowsUsage /\ Usage!MarksOfFullHomeAgree
<1> SUFFICES ASSUME UsageInv
             PROVE  /\ Usage!NeverCountedTwice /\ Usage!NothingLeftOut
                    /\ Usage!HoldFollowsUsage /\ Usage!MarksOfFullHomeAgree
  OBVIOUS
<1>1. UsageShapes
  BY UsageTyped DEF UsageInv
<1>2. ASSUME ~recount, NEW m \in 1..Months PROVE total[m] <= logged[m]
  <2>1. total[m] \in Nat /\ logged[m] \in Nat /\ StillCounted(m) \in Nat
    BY <1>1, UnreadFacts, Bounds, SMTT(30) DEF UsageInv, UsageShapes
  <2> QED
    BY <1>2, <2>1 DEF UsageInv, CountedOnce
<1>3. Usage!NeverCountedTwice
  BY <1>2 DEF Usage!NeverCountedTwice
<1>4. Usage!NothingLeftOut
  BY DEF UsageInv, NoneLeftOut, LinesFound, AtPersist, Usage!NothingLeftOut, Usage!Measuring
<1>5. Usage!HoldFollowsUsage /\ Usage!MarksOfFullHomeAgree
  BY DEF UsageInv, HoldKnown, MarksSet, Usage!HoldFollowsUsage, Usage!MarksOfFullHomeAgree
<1> QED
  BY <1>3, <1>4, <1>5

-----------------------------------------------------------------------------
(* The databases and WordPress.                                            *)

DbJob == [n : Nat, type : Database!Types, name : Database!Names, id : Nat,
          attempts : 0..MaxAttempts]
DbRunning == [pc : Database!Steps \ {"idle"}, job : DbJob, pw : Nat, reset : BOOLEAN,
              dropUser : BOOLEAN]
DbWorker == worker.pc = "idle" \/ worker \in DbRunning

\* A job of WordPress is about its database, another has the id of a row that
\* was; a job that waits has an attempt left.
DbJobs ==
    /\ jobs \subseteq DbJob
    /\ \A j \in jobs : j.attempts < MaxAttempts
    /\ \A j \in jobs \cup (IF worker.pc = "idle" THEN {} ELSE {worker.job}) :
          IF j.type = "wordpress.install" THEN j.name = "wp" ELSE j.id # 0
DbRowsMade == \A n \in Database!Names : rows.db[n] = Database!NoRow \/ rows.db[n].id # 0

\* The attempt's step belongs to its job, whose row only the attempt deletes.
Making == {"creds", "create", "put"}
Syncing == {"syncCreds", "syncCreate", "syncConfig"}
Deleting == {"count", "drop", "delRow"}
Installing == {"archive", "unpack", "tables", "putApp"}
DbStepOfJob ==
    /\ worker.pc \in Making => worker.job.type \in {"database.provision", "wordpress.install"}
    /\ worker.pc \in Syncing => worker.job.type = "database.provision"
    /\ worker.pc \in Deleting => worker.job.type = "database.delete"
    /\ worker.pc \in Installing => worker.job.type = "wordpress.install"
    /\ worker.pc \in Making \cup Deleting /\ worker.job.type # "wordpress.install" =>
          rows.db[worker.job.name].id = worker.job.id

\* A password is stored before the server gets it, and the attempt has the
\* stored one.
PasswordStored ==
    /\ worker.pc \in {"create", "put"} =>
          worker.pw = rows.pw[Database!E] /\ worker.pw # 0
    /\ worker.pc \in {"syncCreate", "syncConfig", "archive", "unpack", "tables"} =>
          worker.pw = rows.pw["mariadb"] /\ worker.pw # 0
    /\ \A n \in Database!Names :
          rows.db[n].status = "active" => rows.pw[Database!Engine(n)] # 0

\* A database has its row before it is made and until it is dropped.
RowOfDatabase ==
    /\ \A n \in host.db : rows.db[n] # Database!NoRow \/ n = "wp"
    /\ worker.pc = "delRow" => worker.job.name \notin host.db
    /\ worker.pc = "put" => worker.job.name \in host.db

\* A job of the kind waits or runs.
DbDeletes(n) ==
    \/ \E j \in jobs : /\ j.type = "database.delete" /\ j.name = n
                       /\ j.id = rows.db[n].id
    \/ worker.pc \in Deleting /\ worker.job.name = n
DbSyncs ==
    \/ \E j \in jobs : j.type = "database.provision"
    \/ /\ worker.pc \in Making \cup {"syncCreds", "syncCreate"}
       /\ worker.job.type = "database.provision"

\* The users of a database that is active are there, and the one deletion that
\* takes them is of the account's last database.
UsersMade ==
    /\ \A n \in Database!Names :
          rows.db[n].status = "active" =>
              \/ DbDeletes(n)
              \/ /\ n \in host.db
                 /\ \A u \in Database!UsersOf(Database!Engine(n)) : host.user[u] # 0
    /\ worker.pc = "put" =>
          \A u \in Database!UsersOf(Database!E) : host.user[u] # 0
LastDatabase ==
    worker.pc = "drop" /\ worker.dropUser =>
        \A n \in Database!Names \ {worker.job.name} : rows.db[n].status # "active"

\* A user has the stored password, or none, unless the attempt that resets it
\* is at it or died, or MariaDB's users are still to be reset by a sync.
UsersCurrent ==
    \A e \in Database!Engines \ stale :
        rows.pw[e] # 0 =>
            \/ \A u \in Database!UsersOf(e) : host.user[u] \in {0, rows.pw[e]}
            \/ Database!Resetting /\ Database!E = e
            \/ e = "mariadb" /\ DbSyncs

UsersAgree == ~lost => UsersMade /\ UsersCurrent

\* One job installs WordPress, and each of its steps finds what it left.
OneInstall ==
    /\ \A j, k \in jobs : j.type = "wordpress.install" /\ k.type = "wordpress.install" =>
          j = k
    /\ \A j \in jobs : j.type = "wordpress.install" =>
          /\ rows.app = "provisioning"
          /\ worker.pc # "idle" => worker.job.type # "wordpress.install"
    /\ worker.pc # "idle" /\ worker.job.type = "wordpress.install" =>
          rows.app = "provisioning"
WordPressMade ==
    /\ worker.pc \in {"tables", "putApp"} => host.files = "whole"
    /\ worker.pc = "tables" => host.config = worker.pw
    /\ rows.app = "running" => host.files = "whole"
    /\ rows.app = "running" \/ worker.pc = "putApp" =>
          /\ host.config = rows.pw["mariadb"] /\ host.config # 0
          /\ host.user["loopback"] = host.config

DbInv == /\ Database!TypeOK /\ DbWorker /\ DbJobs /\ DbRowsMade /\ DbStepOfJob
         /\ PasswordStored /\ RowOfDatabase /\ LastDatabase /\ UsersAgree
         /\ OneInstall /\ WordPressMade
\* The fields of the rows and the servers.
DbRow == [db : [Database!Names -> [id : Nat, status : Database!Statuses]],
          pw : [Database!Engines -> Nat], app : {"none", "provisioning", "running"}]
DbHost == [db : SUBSET Database!Names, user : [Database!Users -> Nat],
           note : [Database!Names -> Nat], cache : {"none", "partial", "whole"},
           files : {"none", "partial", "whole"}, config : Nat]
DbShapes == /\ rows \in DbRow /\ host \in DbHost /\ jobs \subseteq DbJob /\ DbWorker
            /\ changes \in 0..MaxChanges /\ failures \in 0..MaxFailures
            /\ stale \subseteq Database!Engines /\ lost \in BOOLEAN

LEMMA DbTyped == /\ DbInv => DbShapes
                 /\ DbShapes => Database!TypeOK /\ DbWorker
                 /\ DbShapes' => Database!TypeOK' /\ DbWorker'
<1>1. ASSUME DbInv PROVE DbShapes
  BY <1>1 DEF DbInv, DbShapes, Database!TypeOK, DbRow, DbHost, DbJobs
<1>2. ASSUME DbShapes PROVE Database!TypeOK /\ DbWorker
  <2>1. worker.pc \in Database!Steps
    BY <1>2 DEF DbShapes, DbWorker, DbRunning, Database!Steps
  <2>2. \A j \in jobs : j.type \in Database!Types /\ j.attempts \in 0..MaxAttempts
    BY <1>2 DEF DbShapes, DbJob
  <2> QED
    BY <1>2, <2>1, <2>2 DEF DbShapes, Database!TypeOK, DbRow, DbHost
<1>3. ASSUME DbShapes' PROVE Database!TypeOK' /\ DbWorker'
  <2>1. worker'.pc \in Database!Steps
    BY <1>3 DEF DbShapes, DbWorker, DbRunning, Database!Steps
  <2>2. \A j \in jobs' : j.type \in Database!Types /\ j.attempts \in 0..MaxAttempts
    BY <1>3 DEF DbShapes, DbJob
  <2> QED
    BY <1>3, <2>1, <2>2 DEF DbShapes, Database!TypeOK, DbRow, DbHost
<1> QED
  BY <1>1, <1>2, <1>3

\* The engines and the users they know.
LEMMA DbEngines ==
    /\ \A n \in Database!Names : Database!Engine(n) \in Database!Engines
    /\ "wp" \in Database!Names /\ Database!Engine("wp") = "mariadb"
    /\ "mariadb" \in Database!Engines /\ "postgres" \in Database!Engines
    /\ \A e \in Database!Engines : Database!UsersOf(e) \subseteq Database!Users
    /\ \A e, f \in Database!Engines, u \in Database!Users :
          u \in Database!UsersOf(e) /\ u \in Database!UsersOf(f) => e = f
    /\ Database!UsersOf("mariadb") = {"localhost", "loopback"}
    /\ Database!UsersOf("postgres") = {"role"}
    /\ "loopback" \in Database!UsersOf("mariadb") /\ "loopback" \in Database!Users
    /\ "localhost" \in Database!UsersOf("mariadb") /\ "localhost" \in Database!Users
    /\ "role" \in Database!UsersOf("postgres") /\ "role" \in Database!Users
  BY DEF Database!Names, Database!Engine, Database!Engines, Database!UsersOf, Database!Users

\* An attempt that runs has its job.
LEMMA DbRuns ==
    ASSUME DbInv, worker.pc # "idle"
    PROVE  /\ worker \in DbRunning /\ worker.job \in DbJob /\ worker.job.name \in Database!Names
           /\ worker.pw \in Nat /\ worker.reset \in BOOLEAN /\ worker.dropUser \in BOOLEAN
           /\ Database!E \in Database!Engines
           /\ worker.job.type \in Database!Types /\ worker.job.attempts \in 0..MaxAttempts
  BY DbEngines DEF DbInv, DbWorker, DbRunning, DbJob, Database!E

-----------------------------------------------------------------------------
\* The statements of createHostedDatabase, whatever the order.
Stmts(e, reset) ==
    {<<"db", IF e = "postgres" THEN "role" ELSE "localhost">>}
    \cup {<<"user", u>> : u \in Database!UsersOf(e)}
    \cup {<<"alter", u>> : u \in {v \in Database!UsersOf(e) : reset}}

LEMMA StatementsOfEngine ==
    ASSUME NEW e \in Database!Engines, NEW reset \in BOOLEAN
    PROVE  LET s == Database!Statements(e, reset) IN
           /\ Len(s) \in Nat
           /\ {s[i] : i \in 1..Len(s)} = Stmts(e, reset)
<1>1. CASE e = "postgres" /\ reset = FALSE
  <2>1. Database!Statements(e, reset) = <<<<"user", "role">>, <<"db", "role">>>>
    BY <1>1 DEF Database!Statements
  <2>2. Stmts(e, reset) = {<<"db", "role">>, <<"user", "role">>}
    BY <1>1 DEF Stmts, Database!UsersOf
  <2> QED
    BY <2>1, <2>2
<1>2. CASE e = "postgres" /\ reset = TRUE
  <2>1. Database!Statements(e, reset)
            = <<<<"user", "role">>, <<"alter", "role">>, <<"db", "role">>>>
    BY <1>2 DEF Database!Statements
  <2>2. Stmts(e, reset) = {<<"db", "role">>, <<"user", "role">>, <<"alter", "role">>}
    BY <1>2 DEF Stmts, Database!UsersOf
  <2> QED
    BY <2>1, <2>2
<1>3. CASE e = "mariadb" /\ reset = FALSE
  <2>1. Database!Statements(e, reset)
            = <<<<"db", "localhost">>, <<"user", "localhost">>, <<"user", "loopback">>>>
    BY <1>3 DEF Database!Statements
  <2>2. Stmts(e, reset)
            = {<<"db", "localhost">>, <<"user", "localhost">>, <<"user", "loopback">>}
    BY <1>3 DEF Stmts, Database!UsersOf
  <2> QED
    BY <2>1, <2>2
<1>4. CASE e = "mariadb" /\ reset = TRUE
  <2>1. Database!Statements(e, reset)
            = <<<<"db", "localhost">>, <<"user", "localhost">>, <<"alter", "localhost">>,
                <<"user", "loopback">>, <<"alter", "loopback">>>>
    BY <1>4 DEF Database!Statements
  <2>2. Stmts(e, reset)
            = {<<"db", "localhost">>, <<"user", "localhost">>, <<"user", "loopback">>,
               <<"alter", "localhost">>, <<"alter", "loopback">>}
    BY <1>4 DEF Stmts, Database!UsersOf
  <2> QED
    BY <2>1, <2>2
<1> QED
  BY <1>1, <1>2, <1>3, <1>4 DEF Database!Engines

\* What some of the statements do to the server, and what all of them do.
LEMMA StatementsDo ==
    ASSUME NEW e \in Database!Engines, NEW reset \in BOOLEAN, NEW name \in Database!Names,
           NEW pw \in Nat, host \in DbHost, NEW done \in SUBSET Stmts(e, reset)
    PROVE  LET h == Database!Executed(name, pw, done) IN
           /\ h \in DbHost /\ h.db \in {host.db, host.db \cup {name}}
           /\ h.note = host.note /\ h.cache = host.cache /\ h.files = host.files
           /\ h.config = host.config
           /\ \A u \in Database!Users :
                 /\ h.user[u] \in {host.user[u], pw}
                 /\ u \notin Database!UsersOf(e) => h.user[u] = host.user[u]
                 /\ ~reset /\ host.user[u] # 0 => h.user[u] = host.user[u]
           /\ done = Stmts(e, reset) =>
                 /\ h.db = host.db \cup {name}
                 /\ \A u \in Database!UsersOf(e) :
                       h.user[u] = pw \/ (~reset /\ host.user[u] # 0)
<1> DEFINE h == Database!Executed(name, pw, done)
           db == IF \E s \in done : s[1] = "db" THEN host.db \cup {name} ELSE host.db
           user == [u \in Database!Users |->
                      IF <<"alter", u>> \in done \/ (<<"user", u>> \in done /\ host.user[u] = 0)
                      THEN pw ELSE host.user[u]]
<1>1. h = [host EXCEPT !.db = db, !.user = user]
  BY DEF Database!Executed
<1>2. db \in SUBSET Database!Names /\ db \in {host.db, host.db \cup {name}}
  BY DEF DbHost
<1>3. user \in [Database!Users -> Nat]
  BY DEF DbHost
<1>4. \A u \in Database!Users :
        /\ user[u] \in {host.user[u], pw}
        /\ u \notin Database!UsersOf(e) => user[u] = host.user[u]
        /\ ~reset /\ host.user[u] # 0 => user[u] = host.user[u]
  <2>1. \A u : <<"alter", u>> \in done => u \in Database!UsersOf(e) /\ reset
    BY DEF Stmts
  <2>2. \A u : <<"user", u>> \in done => u \in Database!UsersOf(e)
    BY DEF Stmts
  <2> QED
    BY <2>1, <2>2
<1>5. ASSUME done = Stmts(e, reset)
      PROVE  /\ db = host.db \cup {name}
             /\ \A u \in Database!UsersOf(e) : user[u] = pw \/ (~reset /\ host.user[u] # 0)
  <2>1. \E s \in done : s[1] = "db"
    BY <1>5 DEF Stmts
  <2>2. ASSUME NEW u \in Database!UsersOf(e)
        PROVE  user[u] = pw \/ (~reset /\ host.user[u] # 0)
    <3>1. <<"user", u>> \in done /\ (reset => <<"alter", u>> \in done) /\ u \in Database!Users
      BY <1>5, <2>2, DbEngines DEF Stmts
    <3> QED
      BY <3>1
  <2> QED
    BY <2>1, <2>2
<1> HIDE DEF db, user, h
<1>6. /\ h \in DbHost /\ h.db = db /\ h.user = user
      /\ h.note = host.note /\ h.cache = host.cache /\ h.files = host.files
      /\ h.config = host.config
  BY <1>1, <1>2, <1>3 DEF DbHost
<1>7. /\ h \in DbHost /\ h.db \in {host.db, host.db \cup {name}}
      /\ h.note = host.note /\ h.cache = host.cache /\ h.files = host.files
      /\ h.config = host.config
      /\ \A u \in Database!Users :
            /\ h.user[u] \in {host.user[u], pw}
            /\ u \notin Database!UsersOf(e) => h.user[u] = host.user[u]
            /\ ~reset /\ host.user[u] # 0 => h.user[u] = host.user[u]
      /\ done = Stmts(e, reset) =>
            /\ h.db = host.db \cup {name}
            /\ \A u \in Database!UsersOf(e) :
                  h.user[u] = pw \/ (~reset /\ host.user[u] # 0)
  <2>1. h \in DbHost /\ h.db \in {host.db, host.db \cup {name}}
    BY <1>2, <1>6
  <2>2. \A u \in Database!Users :
            /\ h.user[u] \in {host.user[u], pw}
            /\ u \notin Database!UsersOf(e) => h.user[u] = host.user[u]
            /\ ~reset /\ host.user[u] # 0 => h.user[u] = host.user[u]
    BY <1>4, <1>6, Zenon
  <2>3. done = Stmts(e, reset) =>
            /\ h.db = host.db \cup {name}
            /\ \A u \in Database!UsersOf(e) :
                  h.user[u] = pw \/ (~reset /\ host.user[u] # 0)
    BY <1>5, <1>6, Zenon
  <2> QED
    BY <1>6, <2>1, <2>2, <2>3, Zenon
<1> QED
  BY <1>7, Zenon DEF h

-----------------------------------------------------------------------------
\* The attempt goes on with its job.
LEMMA DbMoves ==
    ASSUME DbInv, worker.pc # "idle", worker' \in DbRunning, worker'.job = worker.job,
           jobs' = jobs, changes' = changes, failures' \in 0..MaxFailures,
           rows' \in DbRow, rows'.app = rows.app, host' \in DbHost,
           stale' \subseteq Database!Engines, lost' \in BOOLEAN,
           DbRowsMade', DbStepOfJob', PasswordStored', RowOfDatabase', LastDatabase',
           UsersAgree', WordPressMade'
    PROVE  DbInv'
<1>1. DbShapes
  BY DbTyped
<1>2. DbWorker'
  BY DEF DbWorker
<1>3. worker'.pc # "idle"
  BY DEF DbRunning
<1>4. DbShapes'
  BY <1>1, <1>2 DEF DbShapes
<1>5. DbJobs'
  BY <1>3 DEF DbInv, DbJobs
<1>6. OneInstall'
  BY <1>3 DEF DbInv, OneInstall
<1> QED
  BY <1>4, <1>5, <1>6, DbTyped DEF DbInv

\* The attempt failed or died: its job is tried again, or is lost.
LEMMA DbRetries ==
    ASSUME DbInv, worker.pc # "idle", Database!Ends, rows' = rows, changes' = changes,
           failures' \in 0..MaxFailures, host' \in DbHost, stale' \subseteq Database!Engines,
           \A n \in host'.db : rows.db[n] # Database!NoRow \/ n = "wp",
           \A n \in host.db : \/ n \in host'.db
                              \/ worker.pc \in Deleting /\ worker.job.name = n,
           \A u \in Database!Users : host.user[u] # 0 => host'.user[u] # 0,
           \A e \in Database!Engines \ stale' :
               e \notin stale /\ ~(Database!Resetting /\ Database!E = e),
           \A e \in Database!Engines : \A u \in Database!UsersOf(e) :
               host'.user[u] \in {host.user[u], rows.pw[e]},
           rows.app = "running" => host'.files = "whole" /\ host'.config = host.config
    PROVE  DbInv'
<1>1. DbShapes
  BY DbTyped
<1>2. worker.job \in DbJob /\ worker.job.attempts \in 0..MaxAttempts
  BY DbRuns
<1>3. /\ worker' = [pc |-> "idle"] /\ worker'.pc = "idle"
      /\ \/ lost' = TRUE /\ jobs' = jobs
         \/ /\ jobs' = jobs \cup {worker.job} /\ lost' = lost
            /\ worker.job.attempts < MaxAttempts
  BY <1>2, Bounds DEF Database!Ends
<1>4. jobs' \subseteq DbJob /\ lost' \in BOOLEAN
  BY <1>1, <1>2, <1>3 DEF DbShapes
<1>5. DbShapes'
  BY <1>1, <1>3, <1>4 DEF DbShapes, DbWorker
<1>6. DbJobs'
  BY <1>3, <1>4 DEF DbInv, DbJobs
<1>7. DbRowsMade' /\ DbStepOfJob' /\ LastDatabase'
  BY <1>3 DEF DbInv, DbRowsMade, DbStepOfJob, LastDatabase, Making, Syncing, Deleting, Installing
<1>8. PasswordStored'
  BY <1>3 DEF DbInv, PasswordStored
<1>9. RowOfDatabase'
  BY <1>3 DEF RowOfDatabase
<1>10. OneInstall'
  BY <1>3 DEF DbInv, OneInstall
<1>11. WordPressMade'
  <2>1. rows.app = "running" =>
            /\ host.config = rows.pw["mariadb"] /\ host.config # 0
            /\ host.user["loopback"] = host.config
    BY DEF DbInv, WordPressMade
  <2>2. host'.user["loopback"] \in {host.user["loopback"], rows.pw["mariadb"]}
    BY DbEngines
  <2> QED
    BY <1>3, <2>1, <2>2 DEF WordPressMade
<1>12. UsersAgree'
  <2> SUFFICES ASSUME ~lost' PROVE UsersMade' /\ UsersCurrent'
    BY DEF UsersAgree
  <2>1. /\ jobs' = jobs \cup {worker.job} /\ ~lost
    BY <1>3
  <2>2. UsersMade /\ UsersCurrent
    BY <2>1 DEF DbInv, UsersAgree
  <2>3. \A n : DbDeletes(n) => DbDeletes(n)'
    BY <2>1 DEF DbInv, DbDeletes, DbStepOfJob, Deleting
  <2>4. DbSyncs => DbSyncs'
    BY <2>1 DEF DbSyncs
  <2>5. \A n : worker.pc \in Deleting /\ worker.job.name = n => DbDeletes(n)
    BY DEF DbDeletes
  <2>6. UsersMade'
    <3> SUFFICES ASSUME NEW n \in Database!Names, rows.db[n].status = "active", ~DbDeletes(n)
                 PROVE  /\ n \in host'.db
                        /\ \A u \in Database!UsersOf(Database!Engine(n)) : host'.user[u] # 0
      BY <1>3, <2>3 DEF UsersMade
    <3>1. /\ n \in host.db
          /\ \A u \in Database!UsersOf(Database!Engine(n)) : host.user[u] # 0
      BY <2>2 DEF UsersMade
    <3>2. \A u \in Database!UsersOf(Database!Engine(n)) : u \in Database!Users
      BY DbEngines
    <3> QED
      BY <2>5, <3>1, <3>2
  <2>7. UsersCurrent'
    <3> SUFFICES ASSUME NEW e \in Database!Engines \ stale', rows.pw[e] # 0,
                        ~(e = "mariadb" /\ DbSyncs')
                 PROVE  \A u \in Database!UsersOf(e) : host'.user[u] \in {0, rows.pw[e]}
      BY DEF UsersCurrent
    <3>1. \A u \in Database!UsersOf(e) : host.user[u] \in {0, rows.pw[e]}
      BY <2>2, <2>4 DEF UsersCurrent
    <3> QED
      BY <3>1
  <2> QED
    BY <2>6, <2>7
<1> QED
  BY <1>5, <1>6, <1>7, <1>8, <1>9, <1>10, <1>11, <1>12, DbTyped DEF DbInv

LEMMA DbCrash == DbInv /\ Database!Crash => DbInv'
<1> SUFFICES ASSUME DbInv, Database!Crash PROVE DbInv'
  OBVIOUS
<1>1. /\ worker.pc # "idle" /\ Database!Ends /\ rows' = rows /\ host' = host
      /\ changes' = changes /\ failures < MaxFailures /\ failures' = failures + 1
      /\ stale' = IF Database!Resetting THEN stale \cup {Database!E} ELSE stale
  BY DEF Database!Crash, Database!Retry, Database!Fails
<1>2. DbShapes /\ Database!E \in Database!Engines
  BY <1>1, DbTyped, DbRuns
<1>3. failures' \in 0..MaxFailures /\ stale' \subseteq Database!Engines
  BY <1>1, <1>2, Bounds DEF DbShapes
<1>4. \A n \in host.db : rows.db[n] # Database!NoRow \/ n = "wp"
  BY DEF DbInv, RowOfDatabase
<1>5. rows.app = "running" => host.files = "whole"
  BY DEF DbInv, WordPressMade
<1>6. host' \in DbHost /\ \A e \in Database!Engines \ stale' :
               e \notin stale /\ ~(Database!Resetting /\ Database!E = e)
  BY <1>1, <1>2 DEF DbShapes
<1> QED
  BY <1>1, <1>3, <1>4, <1>5, <1>6, DbRetries

\* The password is read, or made and stored.
LEMMA DbCredentials ==
    ASSUME DbInv, worker.pc # "idle", NEW e \in Database!Engines,
           NEW next \in Database!Steps \ {"idle"}, Database!Credentials(e, next)
    PROVE  /\ worker' \in DbRunning /\ worker'.pc = next /\ worker'.job = worker.job
           /\ worker'.pw = rows'.pw[e] /\ rows'.pw[e] # 0
           /\ worker'.reset <=> rows.pw[e] = 0
           /\ rows' \in DbRow /\ rows'.db = rows.db /\ rows'.app = rows.app
           /\ \A f \in Database!Engines : f # e \/ rows.pw[e] # 0 => rows'.pw[f] = rows.pw[f]
           /\ UNCHANGED <<host, jobs, changes, failures, stale, lost>>
<1>1. DbShapes /\ worker \in DbRunning
  BY DbTyped, DbRuns
<1>2. changes \in Nat /\ rows \in DbRow /\ rows.pw[e] \in Nat
  BY <1>1, Bounds DEF DbShapes, DbRow
<1>3. PICK p \in Nat : p = (IF rows.pw[e] = 0 THEN changes + 2 ELSE rows.pw[e]) /\ p # 0
  BY <1>2
<1>4. (rows.pw[e] = 0) \in BOOLEAN
  OBVIOUS
<1>5. PICK b \in BOOLEAN : b = (rows.pw[e] = 0)
  BY <1>4, Zenon
<1>6. worker' = [worker EXCEPT !.pc = next, !.reset = rows.pw[e] = 0, !.pw = p]
  BY <1>3 DEF Database!Credentials
<1>7. worker' = [worker EXCEPT !.pc = next, !.reset = b, !.pw = p]
  BY <1>5, <1>6, Zenon
<1>8. rows' = [rows EXCEPT !.pw = [rows.pw EXCEPT ![e] = p]]
  BY <1>2, <1>3 DEF Database!Credentials, DbRow
<1>9. /\ rows' \in DbRow /\ rows'.db = rows.db /\ rows'.app = rows.app /\ rows'.pw[e] = p
      /\ \A f \in Database!Engines : f # e => rows'.pw[f] = rows.pw[f]
  BY <1>2, <1>8 DEF DbRow
<1>10. /\ worker' \in DbRunning /\ worker'.pc = next /\ worker'.job = worker.job
       /\ worker'.pw = p /\ worker'.reset = b
  BY <1>1, <1>7 DEF DbRunning
<1>11. UNCHANGED <<host, jobs, changes, failures, stale, lost>>
  BY DEF Database!Credentials
<1>12. worker'.reset <=> rows.pw[e] = 0
  BY <1>5, <1>10
<1> QED
  BY <1>3, <1>9, <1>10, <1>11, <1>12

LEMMA DbStoresPassword ==
    ASSUME DbInv, worker.pc # "idle", NEW e \in Database!Engines,
           NEW next \in Database!Steps \ {"idle"}, Database!Credentials(e, next),
           \/ worker.pc = "creds" /\ e = Database!E /\ next = "create"
           \/ worker.pc = "syncCreds" /\ e = "mariadb" /\ next = "syncCreate"
    PROVE  DbInv'
<1>1. /\ worker' \in DbRunning /\ worker'.pc = next /\ worker'.job = worker.job
      /\ worker'.pw = rows'.pw[e] /\ rows'.pw[e] # 0
      /\ worker'.reset <=> rows.pw[e] = 0
      /\ rows' \in DbRow /\ rows'.db = rows.db /\ rows'.app = rows.app
      /\ \A f \in Database!Engines : f # e \/ rows.pw[e] # 0 => rows'.pw[f] = rows.pw[f]
      /\ UNCHANGED <<host, jobs, changes, failures, stale, lost>>
  BY DbCredentials
<1>2. DbShapes /\ Database!E' = Database!E /\ Database!E \in Database!Engines
  BY <1>1, DbTyped, DbRuns DEF Database!E
<1>3. \A f \in Database!Engines : rows.pw[f] # 0 => rows'.pw[f] = rows.pw[f]
  BY <1>1
<1>4. DbRowsMade' /\ DbStepOfJob' /\ LastDatabase'
  BY <1>1 DEF DbInv, DbRowsMade, DbStepOfJob, LastDatabase, Making, Syncing, Deleting, Installing
<1>5. PasswordStored'
  BY <1>1, <1>2, <1>3, DbEngines DEF DbInv, PasswordStored
<1>6. RowOfDatabase'
  BY <1>1 DEF DbInv, RowOfDatabase
<1>7. WordPressMade'
  BY <1>1, <1>3, DbEngines DEF DbInv, WordPressMade
<1>8. UsersAgree'
  <2> SUFFICES ASSUME ~lost PROVE UsersMade' /\ UsersCurrent'
    BY <1>1 DEF UsersAgree
  <2>1. UsersMade /\ UsersCurrent
    BY DEF DbInv, UsersAgree
  <2>2. \A n \in Database!Names : DbDeletes(n)' <=> DbDeletes(n)
    BY <1>1 DEF DbDeletes, Deleting
  <2>3. UsersMade'
    BY <1>1, <2>1, <2>2 DEF UsersMade
  <2>4. DbSyncs => DbSyncs'
    BY <1>1 DEF DbSyncs, Making
  <2>5. worker.pc = "syncCreds" => DbSyncs'
    BY <1>1 DEF DbInv, DbStepOfJob, DbSyncs, Making, Syncing
  <2>6. worker.pc = "creds" /\ rows.pw[e] = 0 => Database!Resetting' /\ Database!E' = e
    BY <1>1, <1>2 DEF Database!Resetting
  <2>7. ~Database!Resetting
    BY DEF Database!Resetting
  <2>8. ASSUME NEW f \in Database!Engines \ stale, rows'.pw[f] # 0
        PROVE  \/ \A u \in Database!UsersOf(f) : host.user[u] \in {0, rows'.pw[f]}
               \/ Database!Resetting' /\ Database!E' = f
               \/ f = "mariadb" /\ DbSyncs'
    <3>1. CASE rows.pw[f] # 0
      BY <1>3, <2>1, <2>4, <2>7, <3>1 DEF UsersCurrent
    <3>2. CASE rows.pw[f] = 0
      BY <1>1, <2>5, <2>6, <2>8, <3>2
    <3> QED
      BY <3>1, <3>2
  <2> QED
    BY <1>1, <2>3, <2>8 DEF UsersCurrent
<1> QED
  BY <1>1, <1>2, <1>4, <1>5, <1>6, <1>7, <1>8, DbMoves DEF DbShapes

LEMMA DbHostedCredentials == DbInv /\ Database!HostedDBCredentials => DbInv'
<1> SUFFICES ASSUME DbInv, Database!HostedDBCredentials PROVE DbInv'
  OBVIOUS
<1>1. worker.pc = "creds" /\ Database!Credentials(Database!E, "create")
  BY DEF Database!HostedDBCredentials
<1>2. "create" \in Database!Steps \ {"idle"} /\ Database!E \in Database!Engines
  BY <1>1, DbRuns DEF Database!Steps
<1> QED
  BY <1>1, <1>2, DbStoresPassword

LEMMA DbSyncCredentials == DbInv /\ Database!SyncCredentials => DbInv'
<1> SUFFICES ASSUME DbInv, Database!SyncCredentials PROVE DbInv'
  OBVIOUS
<1>1. worker.pc = "syncCreds" /\ Database!Credentials("mariadb", "syncCreate")
  BY DEF Database!SyncCredentials
<1>2. "syncCreate" \in Database!Steps \ {"idle"} /\ "mariadb" \in Database!Engines
  BY DbEngines DEF Database!Steps
<1> QED
  BY <1>1, <1>2, DbStoresPassword

-----------------------------------------------------------------------------
\* A server on which the first n statements ran.
DbRan(h, e, name, reset, all) ==
    /\ h \in DbHost /\ h.db \in {host.db, host.db \cup {name}}
    /\ h.note = host.note /\ h.cache = host.cache /\ h.files = host.files
    /\ h.config = host.config
    /\ \A u \in Database!Users :
          /\ h.user[u] \in {host.user[u], worker.pw}
          /\ u \notin Database!UsersOf(e) => h.user[u] = host.user[u]
          /\ ~reset /\ host.user[u] # 0 => h.user[u] = host.user[u]
    /\ all => /\ h.db = host.db \cup {name}
              /\ \A u \in Database!UsersOf(e) :
                    h.user[u] = worker.pw \/ (~reset /\ host.user[u] # 0)

LEMMA DbRuns1 ==
    ASSUME NEW e \in Database!Engines, NEW reset \in BOOLEAN, NEW name \in Database!Names,
           worker.pw \in Nat, host \in DbHost,
           NEW n \in 0..Len(Database!Statements(e, reset))
    PROVE  LET s == Database!Statements(e, reset) IN
           DbRan(Database!Executed(name, worker.pw, {s[i] : i \in 1..n}), e, name, reset,
                 n = Len(s))
<1> DEFINE s == Database!Statements(e, reset)
           done == {s[i] : i \in 1..n}
           h == Database!Executed(name, worker.pw, done)
<1>1. Len(s) \in Nat /\ {s[i] : i \in 1..Len(s)} = Stmts(e, reset)
  BY StatementsOfEngine
<1>2. done \in SUBSET Stmts(e, reset) /\ (n = Len(s) => done = Stmts(e, reset))
  BY <1>1
<1> HIDE DEF s, done
<1>3. /\ h \in DbHost /\ h.db \in {host.db, host.db \cup {name}}
      /\ h.note = host.note /\ h.cache = host.cache /\ h.files = host.files
      /\ h.config = host.config
      /\ \A u \in Database!Users :
            /\ h.user[u] \in {host.user[u], worker.pw}
            /\ u \notin Database!UsersOf(e) => h.user[u] = host.user[u]
            /\ ~reset /\ host.user[u] # 0 => h.user[u] = host.user[u]
      /\ done = Stmts(e, reset) =>
            /\ h.db = host.db \cup {name}
            /\ \A u \in Database!UsersOf(e) :
                  h.user[u] = worker.pw \/ (~reset /\ host.user[u] # 0)
  BY <1>2, StatementsDo
<1> HIDE DEF h
<1>4. DbRan(h, e, name, reset, n = Len(s))
  BY <1>2, <1>3, Zenon DEF DbRan
<1> QED
  BY <1>4, Zenon DEF h, done, s

\* The statements all run, or run up to one that fails, or PostgreSQL's about
\* its user fail unnoticed.
LEMMA DbCreateEnds ==
    ASSUME DbInv, Database!Create
    PROVE  LET n == worker.job.name IN
           /\ worker.pc = "create" /\ rows' = rows /\ changes' = changes
           /\ \/ /\ DbRan(host', Database!E, n, worker.reset, TRUE) /\ Database!Goto("put")
                 /\ stale' = IF worker.reset THEN stale \ {Database!E} ELSE stale
              \/ /\ DbRan(host', Database!E, n, worker.reset, FALSE) /\ Database!Retry
                 /\ stale' = IF Database!Resetting THEN stale \cup {Database!E} ELSE stale
              \/ /\ host' = [host EXCEPT !.db = @ \cup {n}] /\ Database!Dropped("put")
                 /\ stale' = stale
<1> DEFINE n == worker.job.name
           s == Database!Statements(Database!E, worker.reset)
           After(i) == Database!Executed(n, worker.pw, {s[k] : k \in 1..i})
<1>1. /\ worker.pc = "create" /\ rows' = rows /\ changes' = changes
      /\ Database!CreateHostedDatabase(Database!E, n, worker.reset, "put", Database!Retry)
  BY DEF Database!Create
<1>2. /\ worker.pw \in Nat /\ worker.reset \in BOOLEAN /\ n \in Database!Names
      /\ Database!E \in Database!Engines /\ host \in DbHost
  BY <1>1, DbRuns, DbTyped DEF DbShapes
<1>3. \A i \in 0..Len(s) : DbRan(After(i), Database!E, n, worker.reset, i = Len(s))
  BY <1>2, DbRuns1
<1>4. Len(s) \in Nat
  BY <1>2, StatementsOfEngine
<1>5. \/ /\ host' = After(Len(s)) /\ Database!Goto("put")
         /\ stale' = IF worker.reset THEN stale \ {Database!E} ELSE stale
      \/ \E i \in 0..(Len(s) - 1) :
            /\ host' = After(i) /\ Database!Retry
            /\ stale' = IF Database!Resetting THEN stale \cup {Database!E} ELSE stale
      \/ /\ host' = [host EXCEPT !.db = @ \cup {n}] /\ Database!Dropped("put")
         /\ stale' = stale
  BY <1>1, Zenon DEF Database!CreateHostedDatabase
<1> HIDE DEF s, After, n
<1>6. ASSUME NEW h, NEW x, DbRan(h, Database!E, n, worker.reset, x)
      PROVE  DbRan(h, Database!E, n, worker.reset, FALSE)
  BY <1>6 DEF DbRan
<1>7. Len(s) \in 0..Len(s) /\ \A i \in 0..(Len(s) - 1) : i \in 0..Len(s)
  BY <1>4
<1>8. DbRan(After(Len(s)), Database!E, n, worker.reset, TRUE)
  <2>1. DbRan(After(Len(s)), Database!E, n, worker.reset, Len(s) = Len(s))
    BY <1>3, <1>7
  <2> QED
    BY <2>1 DEF DbRan
<1>9. \A i \in 0..(Len(s) - 1) : DbRan(After(i), Database!E, n, worker.reset, FALSE)
  BY <1>3, <1>6, <1>7
<1>10. \/ /\ DbRan(host', Database!E, n, worker.reset, TRUE) /\ Database!Goto("put")
          /\ stale' = IF worker.reset THEN stale \ {Database!E} ELSE stale
       \/ /\ DbRan(host', Database!E, n, worker.reset, FALSE) /\ Database!Retry
          /\ stale' = IF Database!Resetting THEN stale \cup {Database!E} ELSE stale
       \/ /\ host' = [host EXCEPT !.db = @ \cup {n}] /\ Database!Dropped("put")
          /\ stale' = stale
  BY <1>5, <1>8, <1>9, Zenon
<1> QED
  BY <1>1, <1>10, Zenon DEF n

\* Of a password opens: what the statements of an engine leave of its users.
LEMMA DbUsersRan ==
    ASSUME DbInv, worker.pc # "idle", NEW e \in Database!Engines,
           NEW name \in Database!Names, NEW reset, NEW all,
           DbRan(host', e, name, reset, all), worker.pw = rows.pw[e], worker.pw # 0
    PROVE  /\ host' \in DbHost /\ host'.db \in {host.db, host.db \cup {name}}
           /\ \A u \in Database!Users : host.user[u] # 0 => host'.user[u] # 0
           /\ \A f \in Database!Engines : \A u \in Database!UsersOf(f) :
                 host'.user[u] \in {host.user[u], rows.pw[f]}
           /\ rows.app = "running" => /\ host'.files = "whole" /\ host'.config = host.config
                                      /\ host'.user["loopback"] = host.user["loopback"]
<1>1. \A u \in Database!Users : /\ host'.user[u] \in {host.user[u], worker.pw}
                                /\ u \notin Database!UsersOf(e) => host'.user[u] = host.user[u]
  BY DEF DbRan
<1>2. ASSUME NEW f \in Database!Engines, NEW u \in Database!UsersOf(f)
      PROVE  host'.user[u] \in {host.user[u], rows.pw[f]}
  <2>1. u \in Database!Users /\ (u \in Database!UsersOf(e) => e = f)
    BY <1>2, DbEngines
  <2> QED
    BY <1>1, <2>1
<1>3. rows.app = "running" => /\ host.files = "whole" /\ host.config = rows.pw["mariadb"]
                              /\ host.user["loopback"] = host.config
  BY DEF DbInv, WordPressMade
<1>4. host'.user["loopback"] \in {host.user["loopback"], rows.pw["mariadb"]}
  BY <1>2, DbEngines
<1> QED
  BY <1>1, <1>2, <1>3, <1>4 DEF DbRan

LEMMA DbCreate == DbInv /\ Database!Create => DbInv'
<1> SUFFICES ASSUME DbInv, Database!Create PROVE DbInv'
  OBVIOUS
<1> DEFINE n == worker.job.name
<1>1. /\ worker.pc = "create" /\ rows' = rows /\ changes' = changes
      /\ \/ /\ DbRan(host', Database!E, n, worker.reset, TRUE) /\ Database!Goto("put")
            /\ stale' = IF worker.reset THEN stale \ {Database!E} ELSE stale
         \/ /\ DbRan(host', Database!E, n, worker.reset, FALSE) /\ Database!Retry
            /\ stale' = IF Database!Resetting THEN stale \cup {Database!E} ELSE stale
         \/ /\ host' = [host EXCEPT !.db = @ \cup {n}] /\ Database!Dropped("put")
            /\ stale' = stale
  BY DbCreateEnds, Zenon
<1>2. /\ DbShapes /\ worker \in DbRunning /\ worker.job.name \in Database!Names
      /\ Database!E \in Database!Engines /\ worker.reset \in BOOLEAN
      /\ worker.pw = rows.pw[Database!E] /\ worker.pw # 0
      /\ "put" \in Database!Steps \ {"idle"} /\ Database!E = Database!Engine(n)
  BY <1>1, DbTyped, DbRuns DEF DbInv, PasswordStored, Database!Steps, Database!E
<1>3. rows.db[n] # Database!NoRow \/ n = "wp"
  BY <1>1, <1>2 DEF DbInv, DbStepOfJob, Making, DbJobs, Database!NoRow
<1>4. \A k \in host.db : rows.db[k] # Database!NoRow \/ k = "wp"
  BY DEF DbInv, RowOfDatabase
<1>5. CASE DbRan(host', Database!E, n, worker.reset, FALSE) /\ Database!Retry
           /\ stale' = IF Database!Resetting THEN stale \cup {Database!E} ELSE stale
  <2>1. /\ Database!Ends /\ failures' \in 0..MaxFailures
    BY <1>2, <1>5, Bounds DEF Database!Retry, Database!Fails, DbShapes
  <2>2. /\ host' \in DbHost /\ host'.db \in {host.db, host.db \cup {n}}
        /\ \A u \in Database!Users : host.user[u] # 0 => host'.user[u] # 0
        /\ \A f \in Database!Engines : \A u \in Database!UsersOf(f) :
                 host'.user[u] \in {host.user[u], rows.pw[f]}
        /\ rows.app = "running" => host'.files = "whole" /\ host'.config = host.config
    BY <1>1, <1>2, <1>5, DbUsersRan
  <2>3. /\ stale' \subseteq Database!Engines
        /\ \A e \in Database!Engines \ stale' :
               e \notin stale /\ ~(Database!Resetting /\ Database!E = e)
    BY <1>2, <1>5 DEF DbShapes
  <2>4. /\ \A k \in host'.db : rows.db[k] # Database!NoRow \/ k = "wp"
        /\ \A k \in host.db : k \in host'.db
    BY <1>3, <1>4, <2>2
  <2> QED
    BY <1>1, <2>1, <2>2, <2>3, <2>4, DbRetries
<1> DEFINE Goes == /\ worker' = [worker EXCEPT !.pc = "put"] /\ jobs' = jobs
                   /\ host' \in DbHost /\ host'.db = host.db \cup {n}
                   /\ failures' \in 0..MaxFailures /\ lost' \in BOOLEAN
                   /\ stale' \subseteq Database!Engines
                   /\ rows.app = "running" => /\ host'.files = "whole"
                                              /\ host'.config = host.config
                                              /\ host'.user["loopback"] = host.user["loopback"]
<1>6. ASSUME Goes, UsersAgree' PROVE DbInv'
  <2>1. /\ worker' \in DbRunning /\ worker'.pc = "put" /\ worker'.job = worker.job
        /\ worker'.pw = worker.pw /\ Database!E' = Database!E
    BY <1>2, <1>6 DEF DbRunning, Database!E
  <2>2. DbRowsMade' /\ DbStepOfJob' /\ LastDatabase'
    BY <1>1, <2>1 DEF DbInv, DbRowsMade, DbStepOfJob, LastDatabase, Making, Syncing, Deleting,
       Installing
  <2>3. PasswordStored'
    BY <1>1, <1>2, <2>1 DEF DbInv, PasswordStored
  <2>4. RowOfDatabase'
    BY <1>1, <1>3, <1>4, <1>6, <2>1 DEF RowOfDatabase
  <2>5. WordPressMade'
    BY <1>1, <1>6, <2>1 DEF DbInv, WordPressMade
  <2>6. rows' \in DbRow /\ worker.pc # "idle"
    BY <1>1, <1>2 DEF DbShapes
  <2> QED
    BY <1>1, <1>6, <2>1, <2>2, <2>3, <2>4, <2>5, <2>6, DbMoves
<1>7. CASE host' = [host EXCEPT !.db = @ \cup {n}] /\ Database!Dropped("put") /\ stale' = stale
  <2>1. Goes
    <3>1. host' \in DbHost /\ host'.db = host.db \cup {n} /\ host'.files = host.files
          /\ host'.config = host.config /\ host'.user = host.user
      BY <1>2, <1>7 DEF DbShapes, DbHost
    <3>2. /\ worker' = [worker EXCEPT !.pc = "put"] /\ jobs' = jobs /\ lost' = TRUE
          /\ failures' \in 0..MaxFailures
      BY <1>2, <1>7, Bounds DEF DbShapes, Database!Dropped, Database!Fails
    <3> QED
      BY <1>2, <1>7, <3>1, <3>2 DEF DbShapes, DbInv, WordPressMade
  <2>2. UsersAgree'
    BY <1>7 DEF UsersAgree, Database!Dropped
  <2> QED
    BY <1>6, <2>1, <2>2
<1>8. CASE /\ DbRan(host', Database!E, n, worker.reset, TRUE) /\ Database!Goto("put")
           /\ stale' = IF worker.reset THEN stale \ {Database!E} ELSE stale
  <2>1. /\ worker' = [worker EXCEPT !.pc = "put"] /\ jobs' = jobs /\ lost' = lost
        /\ failures' = failures
    BY <1>8 DEF Database!Goto
  <2>2. /\ host' \in DbHost /\ host'.db = host.db \cup {n}
        /\ \A u \in Database!Users : host.user[u] # 0 => host'.user[u] # 0
        /\ \A f \in Database!Engines : \A u \in Database!UsersOf(f) :
                 host'.user[u] \in {host.user[u], rows.pw[f]}
        /\ rows.app = "running" => /\ host'.files = "whole" /\ host'.config = host.config
                                   /\ host'.user["loopback"] = host.user["loopback"]
    <3>1. host'.db = host.db \cup {n}
      BY <1>8 DEF DbRan
    <3> QED
      BY <1>1, <1>2, <1>8, <3>1, DbUsersRan
  <2>3. Goes
    BY <1>2, <1>8, <2>1, <2>2 DEF DbShapes
  <2>4. \A u \in Database!UsersOf(Database!E) :
            /\ host'.user[u] # 0
            /\ worker.reset => host'.user[u] = rows.pw[Database!E]
    <3>1. \A u \in Database!UsersOf(Database!E) :
             host'.user[u] = worker.pw \/ (~worker.reset /\ host.user[u] # 0)
      BY <1>8, Zenon DEF DbRan
    <3>2. \A u \in Database!UsersOf(Database!E) : u \in Database!Users
      BY <1>2, DbEngines
    <3> QED
      BY <1>2, <2>2, <3>1, <3>2
  <2>5. UsersAgree'
    <3> SUFFICES ASSUME ~lost PROVE UsersMade' /\ UsersCurrent'
      BY <2>1 DEF UsersAgree
    <3>1. UsersMade /\ UsersCurrent
      BY DEF DbInv, UsersAgree
    <3>2. worker'.pc = "put" /\ worker'.job = worker.job /\ Database!E' = Database!E
      BY <1>2, <2>1 DEF DbRunning, Database!E
    <3>3. \A k \in Database!Names : DbDeletes(k)' <=> DbDeletes(k)
      BY <1>1, <2>1, <3>2 DEF DbDeletes, Deleting
    <3>4. DbSyncs => DbSyncs'
      BY <1>1, <2>1, <3>2 DEF DbSyncs, Making
    <3>5. UsersMade'
      <4>1. ASSUME NEW k \in Database!Names, rows.db[k].status = "active", ~DbDeletes(k)
            PROVE  /\ k \in host'.db
                   /\ \A u \in Database!UsersOf(Database!Engine(k)) : host'.user[u] # 0
        <5>1. /\ k \in host.db
              /\ \A u \in Database!UsersOf(Database!Engine(k)) : host.user[u] # 0
          BY <3>1, <4>1 DEF UsersMade
        <5>2. \A u \in Database!UsersOf(Database!Engine(k)) : u \in Database!Users
          BY DbEngines
        <5> QED
          BY <2>2, <5>1, <5>2
      <4> QED
        BY <1>1, <2>4, <3>2, <3>3, <4>1 DEF UsersMade
    <3>6. UsersCurrent'
      <4> SUFFICES ASSUME NEW e \in Database!Engines \ stale', rows.pw[e] # 0,
                          ~(e = "mariadb" /\ DbSyncs')
                   PROVE  \A u \in Database!UsersOf(e) : host'.user[u] \in {0, rows.pw[e]}
        BY <1>1 DEF UsersCurrent
      <4>1. CASE e = Database!E /\ worker.reset
        BY <2>4, <4>1
      <4>2. CASE ~(e = Database!E /\ worker.reset)
        <5>1. e \notin stale
          BY <1>8, <4>2
        <5>2. \A u \in Database!UsersOf(e) : host.user[u] \in {0, rows.pw[e]}
          <6>1. ~(Database!Resetting /\ Database!E = e)
            BY <4>2 DEF Database!Resetting
          <6>2. \/ \A u \in Database!UsersOf(e) : host.user[u] \in {0, rows.pw[e]}
                \/ Database!Resetting /\ Database!E = e
                \/ e = "mariadb" /\ DbSyncs
            BY <3>1, <5>1 DEF UsersCurrent
          <6>3. ~(e = "mariadb" /\ DbSyncs)
            BY <3>4, Zenon
          <6> QED
            BY <6>1, <6>2, <6>3, Zenon
        <5> QED
          BY <2>2, <5>2
      <4> QED
        BY <4>1, <4>2
    <3> QED
      BY <3>5, <3>6
  <2> QED
    BY <1>6, <2>3, <2>5
<1> QED
  BY <1>1, <1>5, <1>7, <1>8

\* The note and the row.
LEMMA DbPut == DbInv /\ Database!Put => DbInv'
<1> SUFFICES ASSUME DbInv, Database!Put PROVE DbInv'
  OBVIOUS
<1> DEFINE n == worker.job.name
           wp == worker.job.type = "wordpress.install"
           next == IF wp THEN "archive" ELSE "syncCreds"
<1>1. /\ worker.pc = "put" /\ changes' = changes /\ stale' = stale
      /\ \/ host' = [host EXCEPT !.note[n] = worker.pw] /\ Database!Goto(next)
         \/ host' = host /\ Database!Dropped(next)
      /\ rows' = IF ~wp \/ rows.db[n] = Database!NoRow
                 THEN [rows EXCEPT !.db[n].status = "active",
                                   !.db[n].id = IF wp THEN changes + 2 ELSE worker.job.id]
                 ELSE rows
  BY DEF Database!Put
<1>2. /\ DbShapes /\ worker \in DbRunning /\ n \in Database!Names /\ worker.job \in DbJob
      /\ Database!E \in Database!Engines /\ Database!E = Database!Engine(n)
      /\ worker.pw = rows.pw[Database!E] /\ worker.pw # 0 /\ worker.pw \in Nat
      /\ n \in host.db /\ (wp => n = "wp") /\ (~wp => worker.job.id # 0)
      /\ ~wp => worker.job.type = "database.provision" /\ rows.db[n].id = worker.job.id
  BY <1>1, DbTyped, DbRuns DEF DbInv, PasswordStored, Database!E, RowOfDatabase, DbJobs,
     DbStepOfJob, Making
<1>3. next \in Database!Steps \ {"idle"}
  BY DEF Database!Steps
<1>4. /\ worker' = [worker EXCEPT !.pc = next] /\ jobs' = jobs /\ lost' \in BOOLEAN
      /\ ~lost' => ~lost
      /\ failures' \in 0..MaxFailures
  <2>1. worker' = [worker EXCEPT !.pc = next] /\ jobs' = jobs
    BY <1>1, <1>3 DEF Database!Goto, Database!Dropped
  <2>2. \/ failures' = failures /\ lost' = lost
        \/ failures < MaxFailures /\ failures' = failures + 1 /\ lost' = TRUE
    BY <1>1 DEF Database!Goto, Database!Dropped, Database!Fails
  <2>3. lost' \in BOOLEAN /\ (~lost' => ~lost)
    BY <1>2, <2>2 DEF DbShapes
  <2>4. failures' \in 0..MaxFailures
    BY <1>2, <2>2, Bounds DEF DbShapes
  <2> QED
    BY <2>1, <2>3, <2>4
<1>5. /\ host' \in DbHost /\ host'.db = host.db /\ host'.user = host.user
      /\ host'.cache = host.cache /\ host'.files = host.files /\ host'.config = host.config
  BY <1>1, <1>2 DEF DbShapes, DbHost
<1>6. /\ rows' \in DbRow /\ rows'.pw = rows.pw /\ rows'.app = rows.app
      /\ \A k \in Database!Names \ {n} : rows'.db[k] = rows.db[k]
      /\ \/ rows'.db[n] = rows.db[n] /\ rows.db[n] # Database!NoRow
         \/ /\ rows'.db[n].status = "active" /\ rows'.db[n].id # 0
            /\ ~wp => rows'.db[n].id = rows.db[n].id
  <2>1. CASE ~wp \/ rows.db[n] = Database!NoRow
    <3>1. PICK id \in Nat : id = (IF wp THEN changes + 2 ELSE worker.job.id) /\ id # 0
      BY <1>2, Bounds DEF DbShapes, DbJob
    <3>2. rows' = [rows EXCEPT !.db = [rows.db EXCEPT ![n] = [id |-> id, status |-> "active"]]]
      <4>1. PICK row \in [id : Nat, status : Database!Statuses] : row = rows.db[n]
        BY <1>2 DEF DbShapes, DbRow
      <4>2. rows' = [rows EXCEPT !.db[n].status = "active", !.db[n].id = id]
        BY <1>1, <2>1, <3>1, Zenon
      <4>3. rows \in DbRow
        BY <1>2 DEF DbShapes
      <4>4. rows' = [rows EXCEPT !.db = [rows.db EXCEPT ![n] =
                        [[row EXCEPT !.status = "active"] EXCEPT !.id = id]]]
        BY <1>2, <4>1, <4>2, <4>3 DEF DbRow
      <4>5. [[row EXCEPT !.status = "active"] EXCEPT !.id = id] = [id |-> id, status |-> "active"]
        <5> DEFINE made == [[row EXCEPT !.status = "active"] EXCEPT !.id = id]
        <5>1. made \in [id : Nat, status : Database!Statuses]
          BY <4>1, <3>1 DEF Database!Statuses
        <5>2. made.id = id /\ made.status = "active"
          BY <4>1
        <5> HIDE DEF made
        <5>3. made = [id |-> id, status |-> "active"]
          BY <5>1, <5>2
        <5> QED
          BY <5>3 DEF made
      <4> QED
        BY <4>4, <4>5
    <3>3. [id |-> id, status |-> "active"] \in [id : Nat, status : Database!Statuses]
      BY DEF Database!Statuses
    <3>4. rows \in DbRow /\ rows.db \in [Database!Names -> [id : Nat, status : Database!Statuses]]
      BY <1>2 DEF DbShapes, DbRow
    <3>5. /\ rows' \in DbRow /\ rows'.pw = rows.pw /\ rows'.app = rows.app
          /\ rows'.db = [rows.db EXCEPT ![n] = [id |-> id, status |-> "active"]]
      BY <1>2, <3>2, <3>3, <3>4 DEF DbRow
    <3> QED
      BY <1>2, <3>1, <3>4, <3>5
  <2>2. CASE ~(~wp \/ rows.db[n] = Database!NoRow)
    BY <1>1, <1>2, <2>2 DEF DbShapes
  <2> QED
    BY <2>1, <2>2
<1>7. /\ worker' \in DbRunning /\ worker'.pc = next /\ worker'.job = worker.job
      /\ worker'.pw = worker.pw
  BY <1>2, <1>3, <1>4 DEF DbRunning
<1> HIDE DEF next
<1>8. \/ next = "archive" /\ wp
      \/ next = "syncCreds" /\ ~wp
  BY DEF next
<1>9. DbRowsMade' /\ DbStepOfJob' /\ LastDatabase'
  BY <1>2, <1>6, <1>7, <1>8 DEF DbInv, DbRowsMade, DbStepOfJob, LastDatabase, Making,
     Syncing, Deleting, Installing, Database!NoRow
<1>10. PasswordStored'
  BY <1>2, <1>6, <1>7, <1>8, DbEngines DEF DbInv, PasswordStored
<1>11. RowOfDatabase'
  <2>1. host.db \subseteq Database!Names
    BY <1>2 DEF DbShapes, DbHost
  <2>2. rows'.db[n] # Database!NoRow
    BY <1>6 DEF Database!NoRow
  <2>3. \A k \in host.db : rows'.db[k] # Database!NoRow \/ k = "wp"
    BY <1>6, <2>1, <2>2 DEF DbInv, RowOfDatabase
  <2> QED
    BY <1>5, <1>7, <1>8, <2>3 DEF RowOfDatabase
<1>12. WordPressMade'
  BY <1>5, <1>6, <1>7, <1>8 DEF DbInv, WordPressMade
<1>13. UsersAgree'
  <2> SUFFICES ASSUME ~lost' PROVE UsersMade' /\ UsersCurrent'
    BY DEF UsersAgree
  <2>1. UsersMade /\ UsersCurrent
    BY <1>4 DEF DbInv, UsersAgree
  <2>2. \A k \in Database!Names : rows'.db[k] = rows.db[k] => (DbDeletes(k) <=> DbDeletes(k)')
    BY <1>1, <1>4, <1>7, <1>8 DEF DbDeletes, Deleting
  <2>3. DbSyncs => DbSyncs'
    BY <1>1, <1>4, <1>7, <1>8 DEF DbSyncs, Making
  <2>4. UsersMade'
    <3>1. ASSUME NEW k \in Database!Names, rows'.db[k].status = "active", ~DbDeletes(k)'
          PROVE  /\ k \in host.db
                 /\ \A u \in Database!UsersOf(Database!Engine(k)) : host.user[u] # 0
      <4>1. CASE k = n
        BY <1>1, <1>2, <2>1, <4>1 DEF UsersMade
      <4>2. CASE k # n
        <5>1. rows'.db[k] = rows.db[k]
          BY <1>6, <4>2
        <5> QED
          BY <2>1, <2>2, <3>1, <5>1 DEF UsersMade
      <4> QED
        BY <4>1, <4>2
    <3>2. next \in {"archive", "syncCreds"}
      BY DEF next
    <3>3. worker'.pc # "put"
      <4>1. \A x \in {"archive", "syncCreds"} : x # "put"
        BY SMTT(30)
      <4> QED
        BY <1>7, <3>2, <4>1, Zenon
    <3> QED
      BY <1>5, <3>1, <3>3 DEF UsersMade
  <2>5. UsersCurrent'
    BY <1>1, <1>5, <1>6, <2>1, <2>3 DEF UsersCurrent, Database!Resetting
  <2> QED
    BY <2>4, <2>5
<1>14. worker.pc # "idle" /\ stale' \subseteq Database!Engines
  BY <1>1, <1>2 DEF DbShapes
<1> QED
  BY <1>1, <1>4, <1>5, <1>6, <1>7, <1>9, <1>10, <1>11, <1>12, <1>13, <1>14, DbMoves

-----------------------------------------------------------------------------
(* syncWordPressDatabase.                                                  *)

LEMMA DbSyncEnds ==
    ASSUME DbInv, Database!SyncCreate
    PROVE  /\ worker.pc = "syncCreate" /\ rows' = rows /\ changes' = changes
           /\ \E n \in Database!Names :
                /\ rows.db[n] # Database!NoRow \/ n = "wp"
                /\ \/ /\ DbRan(host', "mariadb", n, TRUE, TRUE) /\ Database!Goto("syncConfig")
                      /\ stale' = stale \ {"mariadb"}
                   \/ /\ DbRan(host', "mariadb", n, TRUE, FALSE)
                      /\ Database!Dropped("syncConfig") /\ stale' = stale
<1>1. /\ worker.pc = "syncCreate" /\ rows' = rows /\ changes' = changes
      /\ \E n \in Database!Names :
           /\ rows.db[n] # Database!NoRow \/ n = "wp"
           /\ Database!CreateHostedDatabase("mariadb", n, TRUE, "syncConfig",
                                            Database!Dropped("syncConfig"))
  BY DbEngines DEF Database!SyncCreate
<1>2. PICK n \in Database!Names :
           /\ rows.db[n] # Database!NoRow \/ n = "wp"
           /\ Database!CreateHostedDatabase("mariadb", n, TRUE, "syncConfig",
                                            Database!Dropped("syncConfig"))
  BY <1>1, Zenon
<1> DEFINE s == Database!Statements("mariadb", TRUE)
           After(i) == Database!Executed(n, worker.pw, {s[k] : k \in 1..i})
<1>3. /\ worker.pw \in Nat /\ "mariadb" \in Database!Engines /\ host \in DbHost
      /\ TRUE \in BOOLEAN
  BY <1>1, DbRuns, DbTyped, DbEngines DEF DbShapes
<1>4. \A i \in 0..Len(s) : DbRan(After(i), "mariadb", n, TRUE, i = Len(s))
  BY <1>3, DbRuns1
<1>5. Len(s) \in Nat
  BY <1>3, StatementsOfEngine
<1>6. \/ /\ host' = After(Len(s)) /\ Database!Goto("syncConfig")
         /\ stale' = stale \ {"mariadb"}
      \/ \E i \in 0..(Len(s) - 1) :
            /\ host' = After(i) /\ Database!Dropped("syncConfig")
            /\ stale' = IF Database!Resetting THEN stale \cup {"mariadb"} ELSE stale
  <2>1. "mariadb" # "postgres"
    OBVIOUS
  <2> QED
    BY <1>2, <2>1, Zenon DEF Database!CreateHostedDatabase
<1>7. ~Database!Resetting
  BY <1>1 DEF Database!Resetting
<1> HIDE DEF s, After
<1>8. ASSUME NEW h, NEW x, DbRan(h, "mariadb", n, TRUE, x)
      PROVE  DbRan(h, "mariadb", n, TRUE, FALSE)
  BY <1>8 DEF DbRan
<1>9. Len(s) \in 0..Len(s) /\ \A i \in 0..(Len(s) - 1) : i \in 0..Len(s)
  BY <1>5
<1>10. DbRan(After(Len(s)), "mariadb", n, TRUE, TRUE)
  <2>1. DbRan(After(Len(s)), "mariadb", n, TRUE, Len(s) = Len(s))
    BY <1>4, <1>9
  <2> QED
    BY <2>1 DEF DbRan
<1>11. \A i \in 0..(Len(s) - 1) : DbRan(After(i), "mariadb", n, TRUE, FALSE)
  BY <1>4, <1>8, <1>9
<1>12. \/ /\ DbRan(host', "mariadb", n, TRUE, TRUE) /\ Database!Goto("syncConfig")
          /\ stale' = stale \ {"mariadb"}
       \/ /\ DbRan(host', "mariadb", n, TRUE, FALSE)
          /\ Database!Dropped("syncConfig") /\ stale' = stale
  BY <1>6, <1>7, <1>10, <1>11, Zenon
<1> QED
  BY <1>1, <1>2, <1>12, Zenon

LEMMA DbSyncCreate == DbInv /\ Database!SyncCreate => DbInv'
<1> SUFFICES ASSUME DbInv, Database!SyncCreate PROVE DbInv'
  OBVIOUS
<1>1. /\ worker.pc = "syncCreate" /\ rows' = rows /\ changes' = changes
  BY DbSyncEnds
<1>2. PICK n \in Database!Names :
        /\ rows.db[n] # Database!NoRow \/ n = "wp"
        /\ \/ /\ DbRan(host', "mariadb", n, TRUE, TRUE) /\ Database!Goto("syncConfig")
              /\ stale' = stale \ {"mariadb"}
           \/ /\ DbRan(host', "mariadb", n, TRUE, FALSE)
              /\ Database!Dropped("syncConfig") /\ stale' = stale
  BY DbSyncEnds
<1>3. /\ DbShapes /\ worker \in DbRunning /\ "mariadb" \in Database!Engines
      /\ worker.pw = rows.pw["mariadb"] /\ worker.pw # 0
      /\ "syncConfig" \in Database!Steps \ {"idle"}
  BY <1>1, DbTyped, DbRuns, DbEngines DEF DbInv, PasswordStored, Database!Steps
<1>4. /\ worker' = [worker EXCEPT !.pc = "syncConfig"] /\ jobs' = jobs /\ lost' \in BOOLEAN
      /\ failures' \in 0..MaxFailures /\ stale' \subseteq Database!Engines
  <2>1. worker' = [worker EXCEPT !.pc = "syncConfig"] /\ jobs' = jobs
    BY <1>2 DEF Database!Goto, Database!Dropped
  <2>2. \/ failures' = failures /\ lost' = lost
        \/ failures < MaxFailures /\ failures' = failures + 1 /\ lost' = TRUE
    BY <1>2 DEF Database!Goto, Database!Dropped, Database!Fails
  <2>3. lost' \in BOOLEAN
    BY <1>3, <2>2 DEF DbShapes
  <2>4. failures' \in 0..MaxFailures /\ stale' \subseteq Database!Engines
    <3>1. failures \in 0..MaxFailures /\ stale \subseteq Database!Engines
      BY <1>3 DEF DbShapes
    <3>2. stale' \subseteq stale
      BY <1>2
    <3> QED
      BY <2>2, <3>1, <3>2, Bounds
  <2> QED
    BY <2>1, <2>3, <2>4
<1>5. \E all : DbRan(host', "mariadb", n, TRUE, all)
  BY <1>2, Zenon
<1>6. /\ host' \in DbHost /\ host'.db \in {host.db, host.db \cup {n}}
      /\ \A u \in Database!Users : host.user[u] # 0 => host'.user[u] # 0
      /\ \A f \in Database!Engines : \A u \in Database!UsersOf(f) :
               host'.user[u] \in {host.user[u], rows.pw[f]}
      /\ rows.app = "running" => /\ host'.files = "whole" /\ host'.config = host.config
                                 /\ host'.user["loopback"] = host.user["loopback"]
  BY <1>1, <1>3, <1>5, DbUsersRan
<1>7. /\ worker' \in DbRunning /\ worker'.pc = "syncConfig" /\ worker'.job = worker.job
      /\ worker'.pw = worker.pw
  BY <1>3, <1>4 DEF DbRunning
<1>8. DbRowsMade' /\ DbStepOfJob' /\ LastDatabase'
  BY <1>1, <1>7 DEF DbInv, DbRowsMade, DbStepOfJob, LastDatabase, Making, Syncing, Deleting,
     Installing
<1>9. PasswordStored' /\ RowOfDatabase' /\ WordPressMade'
  BY <1>1, <1>2, <1>3, <1>6, <1>7 DEF DbInv, PasswordStored, RowOfDatabase, WordPressMade
<1>10. UsersAgree'
  <2> SUFFICES ASSUME ~lost' PROVE UsersMade' /\ UsersCurrent'
    BY DEF UsersAgree
  <2>1. /\ DbRan(host', "mariadb", n, TRUE, TRUE) /\ lost' = lost
        /\ stale' = stale \ {"mariadb"}
    BY <1>2 DEF Database!Goto, Database!Dropped
  <2>2. UsersMade /\ UsersCurrent
    BY <2>1 DEF DbInv, UsersAgree
  <2>3. \A k \in Database!Names : DbDeletes(k)' <=> DbDeletes(k)
    BY <1>1, <1>4, <1>7 DEF DbDeletes, Deleting
  <2>4. \A u \in Database!UsersOf("mariadb") : host'.user[u] = rows.pw["mariadb"]
    BY <1>3, <2>1 DEF DbRan
  <2>5. UsersMade'
    <3>1. ASSUME NEW k \in Database!Names, rows.db[k].status = "active", ~DbDeletes(k)
          PROVE  /\ k \in host'.db
                 /\ \A u \in Database!UsersOf(Database!Engine(k)) : host'.user[u] # 0
      <4>1. /\ k \in host.db
            /\ \A u \in Database!UsersOf(Database!Engine(k)) : host.user[u] # 0
        BY <2>2, <3>1 DEF UsersMade
      <4>2. \A u \in Database!UsersOf(Database!Engine(k)) : u \in Database!Users
        BY DbEngines
      <4> QED
        BY <1>6, <4>1, <4>2
    <3> QED
      BY <1>1, <1>7, <2>3, <3>1 DEF UsersMade
  <2>6. UsersCurrent'
    <3> SUFFICES ASSUME NEW e \in Database!Engines \ stale', rows.pw[e] # 0
                 PROVE  \A u \in Database!UsersOf(e) : host'.user[u] \in {0, rows.pw[e]}
      BY <1>1 DEF UsersCurrent
    <3>1. CASE e = "mariadb"
      BY <2>4, <3>1
    <3>2. CASE e # "mariadb"
      <4>1. \A u \in Database!UsersOf(e) : host.user[u] \in {0, rows.pw[e]}
        BY <1>1, <2>1, <2>2, <3>2 DEF UsersCurrent, Database!Resetting
      <4> QED
        BY <1>6, <4>1
    <3> QED
      BY <3>1, <3>2
  <2> QED
    BY <2>5, <2>6
<1>11. rows' \in DbRow /\ worker.pc # "idle"
  BY <1>1, <1>3 DEF DbShapes
<1> QED
  BY <1>1, <1>4, <1>6, <1>7, <1>8, <1>9, <1>10, <1>11, DbMoves

\* The attempt is over.
LEMMA DbDone ==
    ASSUME DbInv, worker.pc # "idle", worker' = [pc |-> "idle"], jobs' = jobs,
           changes' = changes, failures' \in 0..MaxFailures, rows' \in DbRow,
           host' \in DbHost, stale' = stale, lost' \in BOOLEAN, ~lost' => ~lost,
           rows'.pw = rows.pw, rows'.app = rows.app \/ worker.pc = "putApp",
           \A n \in Database!Names :
               \/ rows'.db[n] = rows.db[n]
               \/ /\ rows'.db[n] = Database!NoRow /\ worker.pc = "delRow"
                  /\ worker.job.name = n,
           worker.pc = "delRow" => rows'.db[worker.job.name] = Database!NoRow,
           worker.pc \notin {"drop", "count", "syncCreate", "syncCreds"} \cup Making,
           host'.db = host.db, host'.user = host.user, WordPressMade'
    PROVE  DbInv'
<1>1. DbShapes /\ worker'.pc = "idle" /\ host.db \subseteq Database!Names
  BY DbTyped DEF DbShapes, DbHost
<1>2. DbShapes'
  BY <1>1 DEF DbShapes, DbWorker
<1>3. DbJobs' /\ DbStepOfJob' /\ LastDatabase'
  BY <1>1 DEF DbInv, DbJobs, DbStepOfJob, LastDatabase, Making, Syncing, Deleting, Installing
<1>4. DbRowsMade' /\ PasswordStored'
  <2>1. \A n \in Database!Names : rows'.db[n].status = "active" => rows.db[n].status = "active"
    BY DEF Database!NoRow
  <2> QED
    BY <1>1, <2>1 DEF DbInv, DbRowsMade, PasswordStored, Database!NoRow
<1>5. RowOfDatabase'
  BY <1>1 DEF DbInv, RowOfDatabase
<1>6. OneInstall'
  <2>1. worker.pc = "putApp" => worker.job.type = "wordpress.install"
    BY DEF DbInv, DbStepOfJob, Installing
  <2> QED
    BY <1>1, <2>1 DEF DbInv, OneInstall
<1>7. UsersAgree'
  <2> SUFFICES ASSUME ~lost' PROVE UsersMade' /\ UsersCurrent'
    BY DEF UsersAgree
  <2>1. UsersMade /\ UsersCurrent
    BY DEF DbInv, UsersAgree
  <2>2. DbSyncs => DbSyncs'
    BY DEF DbSyncs
  <2>3. UsersCurrent'
    BY <2>1, <2>2 DEF UsersCurrent, Database!Resetting, Making
  <2>4. ASSUME NEW n \in Database!Names, rows'.db[n].status = "active", ~DbDeletes(n)'
        PROVE  /\ n \in host.db
               /\ \A u \in Database!UsersOf(Database!Engine(n)) : host.user[u] # 0
    <3>1. rows'.db[n] = rows.db[n] /\ ~(worker.pc = "delRow" /\ worker.job.name = n)
      BY <2>4 DEF Database!NoRow
    <3>2. ~DbDeletes(n)
      BY <2>4, <3>1 DEF DbDeletes, Deleting
    <3> QED
      BY <2>1, <2>4, <3>1, <3>2 DEF UsersMade
  <2>5. UsersMade'
    BY <1>1, <2>4 DEF UsersMade
  <2> QED
    BY <2>3, <2>5
<1> QED
  BY <1>2, <1>3, <1>4, <1>5, <1>6, <1>7, DbTyped DEF DbInv

LEMMA DbSyncConfig == DbInv /\ Database!SyncWordPressDatabase => DbInv'
<1> SUFFICES ASSUME DbInv, Database!SyncWordPressDatabase PROVE DbInv'
  OBVIOUS
<1>1. /\ worker.pc = "syncConfig" /\ UNCHANGED <<rows, changes, stale, jobs>>
      /\ worker' = [pc |-> "idle"]
      /\ \/ host' = [host EXCEPT !.config = IF @ = 0 THEN 0 ELSE worker.pw]
         \/ host' = host
      /\ \/ failures' = failures /\ lost' = lost
         \/ failures < MaxFailures /\ failures' = failures + 1 /\ lost' = TRUE
  BY DEF Database!SyncWordPressDatabase, Database!Done, Database!Dropped, Database!Fails
<1>2. /\ DbShapes /\ worker.pw \in Nat /\ worker.pw = rows.pw["mariadb"]
      /\ worker.pw # 0
  BY <1>1, DbTyped, DbRuns DEF DbInv, PasswordStored
<1>3. /\ host' \in DbHost /\ host'.db = host.db /\ host'.user = host.user
      /\ host'.files = host.files
      /\ host'.config = host.config \/ (host.config # 0 /\ host'.config = worker.pw)
  BY <1>1, <1>2 DEF DbShapes, DbHost
<1>4. /\ failures' \in 0..MaxFailures /\ rows' \in DbRow
  BY <1>1, <1>2, Bounds DEF DbShapes
<1>5. lost' \in BOOLEAN /\ (~lost' => ~lost)
  BY <1>1, <1>2 DEF DbShapes
<1>6. WordPressMade'
  BY <1>1, <1>2, <1>3 DEF DbInv, WordPressMade
<1> QED
  BY <1>1, <1>3, <1>4, <1>5, <1>6, DbDone DEF Making

LEMMA DbDeleteRow == DbInv /\ Database!DeleteRow => DbInv'
<1> SUFFICES ASSUME DbInv, Database!DeleteRow PROVE DbInv'
  OBVIOUS
<1> DEFINE n == worker.job.name
<1>1. /\ worker.pc = "delRow" /\ UNCHANGED <<changes, stale, jobs, failures, lost>>
      /\ worker' = [pc |-> "idle"] /\ host' = [host EXCEPT !.note[n] = 0]
      /\ rows' = [rows EXCEPT !.db[n] = IF @.id = worker.job.id THEN Database!NoRow ELSE @]
  BY DEF Database!DeleteRow, Database!Done
<1>2. /\ DbShapes /\ n \in Database!Names /\ rows.db[n].id = worker.job.id
  BY <1>1, DbTyped, DbRuns DEF DbInv, DbStepOfJob, Deleting
<1>3. /\ host' \in DbHost /\ host'.db = host.db /\ host'.user = host.user
      /\ host'.files = host.files /\ host'.config = host.config
  BY <1>1, <1>2 DEF DbShapes, DbHost
<1>4. Database!NoRow \in [id : Nat, status : Database!Statuses]
  BY DEF Database!NoRow, Database!Statuses
<1>5. rows' = [rows EXCEPT !.db = [rows.db EXCEPT ![n] = Database!NoRow]]
  BY <1>1, <1>2 DEF DbShapes, DbRow
<1>6. /\ rows' \in DbRow /\ rows'.pw = rows.pw /\ rows'.app = rows.app
      /\ rows'.db[n] = Database!NoRow
      /\ \A k \in Database!Names \ {n} : rows'.db[k] = rows.db[k]
  BY <1>2, <1>4, <1>5 DEF DbShapes, DbRow
<1>7. WordPressMade'
  BY <1>1, <1>3, <1>6 DEF DbInv, WordPressMade
<1> QED
  BY <1>1, <1>2, <1>3, <1>6, <1>7, DbDone DEF Making, DbShapes

LEMMA DbPutApp == DbInv /\ Database!PutApp => DbInv'
<1> SUFFICES ASSUME DbInv, Database!PutApp PROVE DbInv'
  OBVIOUS
<1>1. /\ worker.pc = "putApp" /\ UNCHANGED <<changes, stale, jobs, failures, lost, host>>
      /\ worker' = [pc |-> "idle"] /\ rows' = [rows EXCEPT !.app = "running"]
  BY DEF Database!PutApp, Database!Done
<1>2. DbShapes
  BY DbTyped
<1>3. rows' \in DbRow /\ rows'.pw = rows.pw /\ rows'.db = rows.db
  BY <1>1, <1>2 DEF DbShapes, DbRow
<1>4. WordPressMade'
  BY <1>1, <1>3 DEF DbInv, WordPressMade
<1> QED
  BY <1>1, <1>2, <1>3, <1>4, DbDone DEF Making, DbShapes

-----------------------------------------------------------------------------
\* The attempt goes on and the rows, the databases and their users stay.
LEMMA DbGoes ==
    ASSUME DbInv, worker' \in DbRunning, worker'.job = worker.job,
           worker'.pw = worker.pw, UNCHANGED <<rows, jobs, changes, stale, failures, lost>>,
           host' \in DbHost, host'.db = host.db, host'.user = host.user,
           \/ worker.pc = "count" /\ worker'.pc = "drop"
           \/ worker.pc \in Installing /\ worker'.pc \in {"unpack", "tables", "putApp"}
              /\ (worker.pc = "tables" <=> worker'.pc = "putApp"),
           worker.pc # "putApp", LastDatabase', WordPressMade'
    PROVE  DbInv'
<1>1. DbShapes /\ worker.pc # "idle"
  BY DbTyped DEF Installing
<1>2. DbRowsMade' /\ DbStepOfJob'
  BY DEF DbInv, DbRowsMade, DbStepOfJob, Making, Syncing, Deleting, Installing
<1>3. PasswordStored' /\ RowOfDatabase'
  BY DEF DbInv, PasswordStored, RowOfDatabase, Installing
<1>4. \A k \in Database!Names : DbDeletes(k)' <=> DbDeletes(k)
  BY DEF DbDeletes, Deleting, Installing
<1>5. UsersAgree'
  BY <1>4 DEF DbInv, UsersAgree, UsersMade, UsersCurrent, DbSyncs, Making, Installing,
     Database!Resetting
<1> QED
  BY <1>1, <1>2, <1>3, <1>5, DbMoves DEF DbShapes

LEMMA DbCount == DbInv /\ Database!Count => DbInv'
<1> SUFFICES ASSUME DbInv, Database!Count PROVE DbInv'
  OBVIOUS
<1> DEFINE last == \A n \in Database!Names \ {worker.job.name} : rows.db[n] = Database!NoRow
<1>1. /\ worker.pc = "count" /\ UNCHANGED <<rows, host, jobs, changes, failures, stale, lost>>
      /\ worker' = [worker EXCEPT !.pc = "drop", !.dropUser = last]
  BY DEF Database!Count
<1>2. last \in BOOLEAN
  OBVIOUS
<1>3. PICK b \in BOOLEAN : b = last
  BY <1>2, Zenon
<1>4. worker' = [worker EXCEPT !.pc = "drop", !.dropUser = b]
  BY <1>1, <1>3, Zenon
<1>5. worker \in DbRunning /\ "drop" \in Database!Steps \ {"idle"} /\ host \in DbHost
  BY <1>1, DbRuns, DbTyped DEF Database!Steps, DbShapes
<1>6. /\ worker' \in DbRunning /\ worker'.pc = "drop" /\ worker'.job = worker.job
      /\ worker'.pw = worker.pw /\ worker'.dropUser = b
  BY <1>4, <1>5 DEF DbRunning
<1>7. LastDatabase'
  BY <1>1, <1>3, <1>6 DEF LastDatabase, Database!NoRow
<1>8. WordPressMade'
  BY <1>1, <1>6 DEF DbInv, WordPressMade
<1> QED
  BY <1>1, <1>5, <1>6, <1>7, <1>8, DbGoes

\* A retry after which the databases and their users are as they were.
LEMMA DbRetriesQuietly ==
    ASSUME DbInv, worker.pc # "idle", worker.pc # "create", Database!Ends, rows' = rows,
           changes' = changes, stale' = stale, host' \in DbHost, host'.user = host.user,
           host'.db \in {host.db, host.db \ {worker.job.name}},
           host'.db # host.db => worker.pc \in Deleting,
           host'.config = host.config, rows.app = "running" => host'.files = host.files,
           \/ failures' = failures
           \/ failures < MaxFailures /\ failures' = failures + 1
    PROVE  DbInv'
<1>1. DbShapes /\ host.db \subseteq Database!Names
  BY DbTyped DEF DbShapes, DbHost
<1>2. failures' \in 0..MaxFailures /\ stale' \subseteq Database!Engines
  BY <1>1, Bounds DEF DbShapes
<1>3. \A n \in host'.db : rows.db[n] # Database!NoRow \/ n = "wp"
  BY DEF DbInv, RowOfDatabase
<1>4. \A n \in host.db : n \in host'.db \/ (worker.pc \in Deleting /\ worker.job.name = n)
  OBVIOUS
<1>5. ~Database!Resetting
  BY DEF Database!Resetting
<1>6. rows.app = "running" => host'.files = "whole"
  BY DEF DbInv, WordPressMade
<1> QED
  BY <1>2, <1>3, <1>4, <1>5, <1>6, DbRetries

LEMMA DbDrop == DbInv /\ Database!DropHostedDatabase => DbInv'
<1> SUFFICES ASSUME DbInv, Database!DropHostedDatabase PROVE DbInv'
  OBVIOUS
<1> DEFINE n == worker.job.name
           dropped1 == [host EXCEPT !.db = @ \ {n}]
           user == IF Database!E = "postgres" THEN "role" ELSE "localhost"
<1>1. /\ worker.pc = "drop" /\ UNCHANGED <<rows, changes, stale>>
      /\ \/ /\ host' = IF worker.dropUser THEN [dropped1 EXCEPT !.user[user] = 0] ELSE dropped1
            /\ Database!Goto("delRow")
         \/ host' \in {host, dropped1} /\ Database!Retry
  BY DEF Database!DropHostedDatabase
<1>2. /\ DbShapes /\ worker \in DbRunning /\ n \in Database!Names /\ host \in DbHost
      /\ worker.dropUser \in BOOLEAN /\ worker.job.type = "database.delete"
  BY <1>1, DbTyped, DbRuns DEF DbInv, DbShapes, DbStepOfJob, Deleting
<1>3. /\ dropped1 \in DbHost /\ dropped1.db = host.db \ {n} /\ dropped1.user = host.user
      /\ dropped1.config = host.config /\ dropped1.files = host.files
  BY <1>2 DEF DbHost
<1>4. CASE host' \in {host, dropped1} /\ Database!Retry
  <2>1. /\ host' \in DbHost /\ host'.user = host.user /\ host'.config = host.config
        /\ host'.files = host.files /\ host'.db \in {host.db, host.db \ {n}}
    BY <1>2, <1>3, <1>4
  <2>2. /\ Database!Ends /\ failures < MaxFailures /\ failures' = failures + 1
    BY <1>4 DEF Database!Retry, Database!Fails
  <2> QED
    BY <1>1, <2>1, <2>2, DbRetriesQuietly DEF Deleting
<1>5. CASE /\ host' = IF worker.dropUser THEN [dropped1 EXCEPT !.user[user] = 0] ELSE dropped1
           /\ Database!Goto("delRow")
  <2>1. user \in Database!Users /\ user # "loopback"
    BY DbEngines
  <2> HIDE DEF dropped1, user
  <2>2. /\ host' \in DbHost /\ host'.db = host.db \ {n} /\ host'.config = host.config
        /\ host'.files = host.files
        /\ \A u \in Database!Users :
              \/ host'.user[u] = host.user[u]
              \/ worker.dropUser /\ u # "loopback" /\ host'.user[u] = 0
    <3>1. CASE worker.dropUser
      <4>1. host' = [dropped1 EXCEPT !.user = [dropped1.user EXCEPT ![user] = 0]]
        BY <1>3, <1>5, <2>1, <3>1 DEF DbHost
      <4>2. /\ host' \in DbHost /\ host'.db = dropped1.db /\ host'.config = dropped1.config
            /\ host'.files = dropped1.files /\ host'.user = [dropped1.user EXCEPT ![user] = 0]
        BY <1>3, <2>1, <4>1 DEF DbHost
      <4>3. host.user \in [Database!Users -> Nat]
        BY <1>2 DEF DbHost
      <4> QED
        BY <1>3, <2>1, <3>1, <4>2, <4>3
    <3>2. CASE ~worker.dropUser
      BY <1>3, <1>5, <3>2
    <3> QED
      BY <3>1, <3>2
  <2>3. /\ worker' = [worker EXCEPT !.pc = "delRow"] /\ UNCHANGED <<jobs, failures, lost>>
    BY <1>5 DEF Database!Goto
  <2>4. "delRow" \in Database!Steps \ {"idle"}
    BY DEF Database!Steps
  <2>5. worker' \in DbRunning /\ worker'.pc = "delRow" /\ worker'.job = worker.job
    BY <1>2, <2>3, <2>4 DEF DbRunning
  <2>6. DbRowsMade' /\ DbStepOfJob' /\ LastDatabase'
    BY <1>1, <1>2, <2>5 DEF DbInv, DbRowsMade, DbStepOfJob, LastDatabase, Making, Syncing,
       Deleting, Installing
  <2>7. PasswordStored' /\ RowOfDatabase'
    BY <1>1, <2>2, <2>5 DEF DbInv, PasswordStored, RowOfDatabase
  <2>8. WordPressMade'
    BY <1>1, <2>2, <2>5, DbEngines DEF DbInv, WordPressMade
  <2>9. UsersAgree'
    <3> SUFFICES ASSUME ~lost PROVE UsersMade' /\ UsersCurrent'
      BY <2>3 DEF UsersAgree
    <3>1. UsersMade /\ UsersCurrent
      BY DEF DbInv, UsersAgree
    <3>2. \A k \in Database!Names : DbDeletes(k)' <=> DbDeletes(k)
      BY <1>1, <2>3, <2>5 DEF DbDeletes, Deleting
    <3>3. DbDeletes(n)
      BY <1>1 DEF DbDeletes, Deleting
    <3>4. ASSUME NEW k \in Database!Names, rows.db[k].status = "active", ~DbDeletes(k)
          PROVE  /\ k \in host'.db
                 /\ \A u \in Database!UsersOf(Database!Engine(k)) : host'.user[u] # 0
      <4>1. /\ k \in host.db /\ k # n
            /\ \A u \in Database!UsersOf(Database!Engine(k)) : host.user[u] # 0
        BY <3>1, <3>3, <3>4 DEF UsersMade
      <4>2. \A u \in Database!UsersOf(Database!Engine(k)) : u \in Database!Users
        BY DbEngines
      <4>3. ~worker.dropUser
        BY <1>1, <3>4, <4>1 DEF DbInv, LastDatabase
      <4> QED
        BY <2>2, <4>1, <4>2, <4>3
    <3>5. UsersMade'
      BY <1>1, <2>5, <3>2, <3>4 DEF UsersMade
    <3>6. \A e \in Database!Engines : \A u \in Database!UsersOf(e) :
              host'.user[u] \in {0, host.user[u]}
      BY <2>2, DbEngines
    <3>7. UsersCurrent'
      BY <1>1, <2>3, <2>5, <3>1, <3>6 DEF UsersCurrent, Database!Resetting, DbSyncs, Making
    <3> QED
      BY <3>5, <3>7
  <2> QED
    BY <1>1, <1>2, <2>2, <2>3, <2>5, <2>6, <2>7, <2>8, <2>9, DbMoves DEF DbShapes
<1> QED
  BY <1>1, <1>4, <1>5

-----------------------------------------------------------------------------
(* WordPress.                                                              *)

\* While WordPress is installed the panel does not show it running.
LEMMA DbInstalls ==
    ASSUME DbInv, worker.pc \in Installing
    PROVE  /\ rows.app = "provisioning" /\ DbShapes /\ worker \in DbRunning
           /\ host \in DbHost /\ worker.pc # "idle" /\ worker.pc # "create"
           /\ worker.pc \notin Deleting
  BY DbTyped, DbRuns DEF DbInv, OneInstall, DbStepOfJob, Installing, DbShapes, Deleting

LEMMA DbArchive == DbInv /\ Database!WordpressArchive => DbInv'
<1> SUFFICES ASSUME DbInv, Database!WordpressArchive PROVE DbInv'
  OBVIOUS
<1>1. /\ worker.pc = "archive" /\ UNCHANGED <<rows, changes, stale>>
      /\ \/ host' \in {host, [host EXCEPT !.cache = "whole"]} /\ Database!Goto("unpack")
         \/ host' \in {host, [host EXCEPT !.cache = "partial"]} /\ Database!Retry
  BY DEF Database!WordpressArchive
<1>2. /\ rows.app = "provisioning" /\ DbShapes /\ worker \in DbRunning /\ host \in DbHost
      /\ worker.pc \in Installing /\ worker.pc \notin Deleting
  BY <1>1, DbInstalls DEF Installing
<1>3. /\ host' \in DbHost /\ host'.db = host.db /\ host'.user = host.user
      /\ host'.files = host.files /\ host'.config = host.config
  BY <1>1, <1>2 DEF DbHost
<1>4. CASE Database!Goto("unpack")
  <2>1. worker' = [worker EXCEPT !.pc = "unpack"] /\ UNCHANGED <<jobs, failures, lost>>
    BY <1>4 DEF Database!Goto
  <2>2. /\ worker' \in DbRunning /\ worker'.pc = "unpack" /\ worker'.job = worker.job
        /\ worker'.pw = worker.pw
    BY <1>2, <2>1 DEF DbRunning, Database!Steps
  <2>3. LastDatabase' /\ WordPressMade'
    BY <1>1, <1>2, <2>2 DEF LastDatabase, WordPressMade
  <2> QED
    BY <1>1, <1>2, <1>3, <2>1, <2>2, <2>3, DbGoes
<1>5. CASE Database!Retry
  <2>1. Database!Ends /\ failures < MaxFailures /\ failures' = failures + 1
    BY <1>5 DEF Database!Retry, Database!Fails
  <2> QED
    BY <1>1, <1>2, <1>3, <2>1, DbRetriesQuietly
<1> QED
  BY <1>1, <1>4, <1>5

LEMMA DbUnpack == DbInv /\ Database!Unpack => DbInv'
<1> SUFFICES ASSUME DbInv, Database!Unpack PROVE DbInv'
  OBVIOUS
<1>1. /\ worker.pc = "unpack" /\ UNCHANGED <<rows, changes, stale>>
      /\ \/ /\ host' = [host EXCEPT !.files = "whole", !.config = worker.pw]
            /\ Database!Goto("tables")
         \/ /\ host' \in {host, [host EXCEPT !.files = "partial"], [host EXCEPT !.files = "whole"]}
            /\ Database!Ends
            /\ \/ failures' = failures
               \/ failures < MaxFailures /\ failures' = failures + 1
  BY DEF Database!Unpack, Database!Retry, Database!Fails
<1>2. /\ rows.app = "provisioning" /\ DbShapes /\ worker \in DbRunning /\ host \in DbHost
      /\ worker.pc \in Installing /\ worker.pc \notin Deleting /\ worker.pw \in Nat
  BY <1>1, DbInstalls, DbRuns DEF Installing
<1>3. CASE /\ host' = [host EXCEPT !.files = "whole", !.config = worker.pw]
           /\ Database!Goto("tables")
  <2>1. worker' = [worker EXCEPT !.pc = "tables"] /\ UNCHANGED <<jobs, failures, lost>>
    BY <1>3 DEF Database!Goto
  <2>2. /\ worker' \in DbRunning /\ worker'.pc = "tables" /\ worker'.job = worker.job
        /\ worker'.pw = worker.pw
    BY <1>2, <2>1 DEF DbRunning, Database!Steps
  <2>3. /\ host' \in DbHost /\ host'.db = host.db /\ host'.user = host.user
        /\ host'.files = "whole" /\ host'.config = worker.pw
    BY <1>2, <1>3 DEF DbHost
  <2>4. LastDatabase' /\ WordPressMade'
    BY <1>1, <1>2, <2>2, <2>3 DEF LastDatabase, WordPressMade
  <2> QED
    BY <1>1, <1>2, <2>1, <2>2, <2>3, <2>4, DbGoes
<1>4. CASE /\ host' \in {host, [host EXCEPT !.files = "partial"], [host EXCEPT !.files = "whole"]}
           /\ Database!Ends
           /\ \/ failures' = failures
              \/ failures < MaxFailures /\ failures' = failures + 1
  <2>1. /\ host' \in DbHost /\ host'.db = host.db /\ host'.user = host.user
        /\ host'.config = host.config
    BY <1>2, <1>4 DEF DbHost
  <2> QED
    BY <1>1, <1>2, <1>4, <2>1, DbRetriesQuietly
<1> QED
  BY <1>1, <1>3, <1>4

LEMMA DbTables == DbInv /\ Database!FinishWordPressTables => DbInv'
<1> SUFFICES ASSUME DbInv, Database!FinishWordPressTables PROVE DbInv'
  OBVIOUS
<1>1. /\ worker.pc = "tables" /\ UNCHANGED <<rows, host, changes, stale>>
      /\ \/ /\ host.user["loopback"] = host.config /\ Database!Goto("putApp")
         \/ /\ Database!Ends
            /\ \/ failures' = failures
               \/ failures < MaxFailures /\ failures' = failures + 1
  BY DEF Database!FinishWordPressTables, Database!Retry, Database!Fails
<1>2. /\ rows.app = "provisioning" /\ DbShapes /\ worker \in DbRunning /\ host \in DbHost
      /\ worker.pc \in Installing /\ worker.pc \notin Deleting
      /\ host.config = worker.pw /\ worker.pw = rows.pw["mariadb"] /\ worker.pw # 0
      /\ host.files = "whole"
  BY <1>1, DbInstalls DEF Installing, DbInv, WordPressMade, PasswordStored
<1>3. CASE host.user["loopback"] = host.config /\ Database!Goto("putApp")
  <2>1. worker' = [worker EXCEPT !.pc = "putApp"] /\ UNCHANGED <<jobs, failures, lost>>
    BY <1>3 DEF Database!Goto
  <2>2. /\ worker' \in DbRunning /\ worker'.pc = "putApp" /\ worker'.job = worker.job
        /\ worker'.pw = worker.pw
    BY <1>2, <2>1 DEF DbRunning, Database!Steps
  <2>3. LastDatabase' /\ WordPressMade'
    BY <1>1, <1>2, <1>3, <2>2 DEF LastDatabase, WordPressMade
  <2> QED
    BY <1>1, <1>2, <2>1, <2>2, <2>3, DbGoes
<1>4. CASE /\ Database!Ends
           /\ \/ failures' = failures
              \/ failures < MaxFailures /\ failures' = failures + 1
  BY <1>1, <1>2, <1>4, DbRetriesQuietly
<1> QED
  BY <1>1, <1>3, <1>4

-----------------------------------------------------------------------------
LEMMA DbInitially == Database!Init => DbInv
<1> SUFFICES ASSUME Database!Init PROVE DbInv
  OBVIOUS
<1>1. PICK former \in {0, 1} :
         host = [db |-> {}, user |-> [u \in Database!Users |-> former],
                 note |-> [n \in Database!Names |-> 0], cache |-> "none",
                 files |-> "none", config |-> 0]
  BY DEF Database!Init, Database!Former
<1>2. /\ rows = [db |-> [n \in Database!Names |-> Database!NoRow],
                 pw |-> [e \in Database!Engines |-> 0], app |-> "none"]
      /\ jobs = {} /\ worker = [pc |-> "idle"] /\ worker.pc = "idle"
      /\ changes = 0 /\ failures = 0 /\ stale = {} /\ lost = FALSE
  BY DEF Database!Init
<1>3. rows \in DbRow /\ rows.app = "none"
      /\ \A n \in Database!Names : rows.db[n] = Database!NoRow
  BY <1>2 DEF DbRow, Database!NoRow, Database!Statuses
<1>4. \A e \in Database!Engines : rows.pw[e] = 0
  BY <1>2
<1>5. host \in DbHost /\ host.db = {}
  <2>1. /\ [u \in Database!Users |-> former] \in [Database!Users -> Nat]
        /\ [n \in Database!Names |-> 0] \in [Database!Names -> Nat]
    BY <1>1
  <2> QED
    BY <1>1, <2>1 DEF DbHost
<1>6. DbShapes
  <2>1. jobs \subseteq DbJob /\ DbWorker /\ stale \subseteq Database!Engines /\ lost \in BOOLEAN
    BY <1>2 DEF DbWorker
  <2>2. changes \in 0..MaxChanges /\ failures \in 0..MaxFailures
    BY <1>2, Bounds
  <2> QED
    BY <1>3, <1>5, <2>1, <2>2 DEF DbShapes
<1>7. DbJobs /\ DbRowsMade /\ DbStepOfJob /\ LastDatabase
  BY <1>2, <1>3 DEF DbJobs, DbRowsMade, DbStepOfJob, LastDatabase, Making, Syncing, Deleting,
     Installing
<1>8. PasswordStored /\ RowOfDatabase
  BY <1>2, <1>3, <1>5 DEF PasswordStored, RowOfDatabase, Database!NoRow
<1>9. UsersAgree
  BY <1>2, <1>3, <1>4 DEF UsersAgree, UsersMade, UsersCurrent, Database!NoRow
<1>10. OneInstall /\ WordPressMade
  BY <1>2, <1>3 DEF OneInstall, WordPressMade
<1> QED
  BY <1>6, <1>7, <1>8, <1>9, <1>10, DbTyped DEF DbInv

\* A request adds a job and makes no row active.
LEMMA DbRequests ==
    ASSUME DbInv, NEW j \in DbJob, j.attempts = 0, jobs' = jobs \cup {j},
           UNCHANGED <<host, worker, failures, stale, lost>>, changes' \in 0..MaxChanges,
           rows' \in DbRow, rows'.pw = rows.pw,
           \A k \in Database!Names :
               \/ rows'.db[k] = rows.db[k]
               \/ /\ rows'.db[k].status # "active" /\ rows'.db[k].id # 0
                  /\ rows.db[k] = Database!NoRow \/ rows'.db[k].id = rows.db[k].id,
           \/ rows'.app = rows.app /\ j.type # "wordpress.install" /\ j.id # 0
           \/ /\ rows.app = "none" /\ rows'.app = "provisioning"
              /\ j.type = "wordpress.install" /\ j.name = "wp"
    PROVE  DbInv'
<1>1. DbShapes /\ (worker.pc # "idle" => worker.job.name \in Database!Names)
  BY DbTyped, DbRuns
<1>2. DbShapes'
  BY <1>1 DEF DbShapes, DbWorker
<1>3. DbJobs'
  BY Bounds DEF DbInv, DbJobs
<1>4. DbRowsMade'
  BY DEF DbInv, DbRowsMade, Database!NoRow
<1>5. DbStepOfJob'
  <2>1. worker.pc \in Making \cup Deleting /\ worker.job.type # "wordpress.install" =>
            /\ rows.db[worker.job.name].id = worker.job.id /\ worker.job.id # 0
            /\ worker.job.name \in Database!Names
    BY <1>1 DEF DbInv, DbStepOfJob, DbJobs, Making, Deleting
  <2>2. worker.pc \in Making \cup Deleting /\ worker.job.type # "wordpress.install" =>
            rows'.db[worker.job.name].id = worker.job.id
    BY <2>1 DEF Database!NoRow
  <2> QED
    BY <2>2 DEF DbInv, DbStepOfJob
<1>6. \A k \in Database!Names : rows'.db[k].status = "active" => rows'.db[k] = rows.db[k]
  OBVIOUS
<1>7. LastDatabase' /\ PasswordStored'
  BY <1>6 DEF DbInv, LastDatabase, PasswordStored, Database!E
<1>8. RowOfDatabase'
  <2>1. host.db \subseteq Database!Names
    BY <1>1 DEF DbShapes, DbHost
  <2>2. \A k \in Database!Names : rows.db[k] # Database!NoRow => rows'.db[k] # Database!NoRow
    BY DEF Database!NoRow
  <2> QED
    BY <2>1, <2>2 DEF DbInv, RowOfDatabase
<1>9. OneInstall'
  BY DEF DbInv, OneInstall
<1>10. WordPressMade'
  <2>1. worker.pc = "putApp" => rows.app = "provisioning"
    BY DbInstalls DEF Installing
  <2> QED
    BY <2>1 DEF DbInv, WordPressMade
<1>11. UsersAgree'
  <2> SUFFICES ASSUME ~lost PROVE UsersMade' /\ UsersCurrent'
    BY DEF UsersAgree
  <2>1. UsersMade /\ UsersCurrent
    BY DEF DbInv, UsersAgree
  <2>2. \A k \in Database!Names : rows'.db[k].status = "active" => (DbDeletes(k) => DbDeletes(k)')
    BY <1>6 DEF DbDeletes
  <2>3. UsersMade'
    BY <1>6, <2>1, <2>2 DEF UsersMade, Database!E
  <2>4. DbSyncs => DbSyncs'
    BY DEF DbSyncs
  <2>5. UsersCurrent'
    BY <2>1, <2>4 DEF UsersCurrent, Database!Resetting, Database!E
  <2> QED
    BY <2>3, <2>5
<1> QED
  BY <1>2, <1>3, <1>4, <1>5, <1>7, <1>8, <1>9, <1>10, <1>11, DbTyped DEF DbInv

LEMMA DbRequest == DbInv /\ Database!Request => DbInv'
<1> SUFFICES ASSUME DbInv, Database!Request PROVE DbInv'
  OBVIOUS
<1>1. DbShapes /\ rows \in DbRow /\ changes \in Nat
      /\ rows.db \in [Database!Names -> [id : Nat, status : Database!Statuses]]
  BY DbTyped, Bounds DEF DbShapes, DbRow
<1>2. ASSUME NEW type \in Database!Types, NEW n \in Database!Names, NEW id \in Nat,
             Database!Enqueue(type, n, id)
      PROVE  \E j \in DbJob :
                /\ j.type = type /\ j.name = n /\ j.id = id /\ j.attempts = 0
                /\ jobs' = jobs \cup {j} /\ changes' \in 0..MaxChanges
                /\ UNCHANGED <<host, worker, failures, stale, lost>>
  <2> DEFINE j == [n |-> changes + 1, type |-> type, name |-> n, id |-> id, attempts |-> 0]
  <2>1. j \in DbJob
    BY <1>1, Bounds DEF DbJob
  <2>2. /\ jobs' = jobs \cup {j} /\ changes < MaxChanges /\ changes' = changes + 1
        /\ UNCHANGED <<host, worker, failures, stale, lost>>
    BY <1>2 DEF Database!Enqueue
  <2>3. changes' \in 0..MaxChanges
    BY <1>1, <2>2, Bounds
  <2> QED
    BY <2>1, <2>2, <2>3
<1>3. ASSUME NEW n \in Database!Names, Database!CreateDB(n) PROVE DbInv'
  <2>1. /\ rows.db[n] = Database!NoRow /\ Database!Enqueue("database.provision", n, changes + 2)
        /\ rows' = [rows EXCEPT !.db = [rows.db EXCEPT ![n] =
                       [id |-> changes + 2, status |-> "provisioning"]]]
    BY <1>1, <1>3 DEF Database!CreateDB, DbRow
  <2>2. PICK j \in DbJob :
             /\ j.type = "database.provision" /\ j.name = n /\ j.id = changes + 2
             /\ j.attempts = 0 /\ jobs' = jobs \cup {j} /\ changes' \in 0..MaxChanges
             /\ UNCHANGED <<host, worker, failures, stale, lost>>
    BY <1>1, <1>2, <2>1 DEF Database!Types
  <2> DEFINE row == [id |-> changes + 2, status |-> "provisioning"]
  <2>3. row \in [id : Nat, status : Database!Statuses] /\ row.id # 0 /\ row.status # "active"
    BY <1>1 DEF Database!Statuses
  <2> HIDE DEF row
  <2>4. rows' = [rows EXCEPT !.db = [rows.db EXCEPT ![n] = row]]
    BY <2>1 DEF row
  <2>5. /\ rows' \in DbRow /\ rows'.pw = rows.pw /\ rows'.app = rows.app
        /\ rows'.db = [rows.db EXCEPT ![n] = row]
    BY <1>1, <2>3, <2>4 DEF DbRow
  <2>6. \A k \in Database!Names : \/ rows'.db[k] = rows.db[k]
                                  \/ rows.db[k] = Database!NoRow /\ rows'.db[k] = row
    BY <1>1, <2>1, <2>5
  <2>7. j.id # 0
    BY <1>1, <2>2
  <2> QED
    BY <2>2, <2>3, <2>5, <2>6, <2>7, DbRequests
<1>4. ASSUME NEW n \in Database!Names, Database!RequestDelete(n) PROVE DbInv'
  <2>1. PICK row \in [id : Nat, status : Database!Statuses] : row = rows.db[n]
    BY <1>1
  <2>2. /\ row # Database!NoRow /\ Database!Enqueue("database.delete", n, row.id)
        /\ rows' = [rows EXCEPT !.db[n].status = "terminating"]
    BY <1>4, <2>1 DEF Database!RequestDelete
  <2>3. rows' = [rows EXCEPT !.db = [rows.db EXCEPT ![n] = [row EXCEPT !.status = "terminating"]]]
    BY <1>1, <2>1, <2>2 DEF DbRow
  <2>4. row.id # 0 /\ row.id \in Nat
    BY <2>1, <2>2 DEF DbInv, DbRowsMade
  <2>5. PICK j \in DbJob :
             /\ j.type = "database.delete" /\ j.name = n /\ j.id = row.id
             /\ j.attempts = 0 /\ jobs' = jobs \cup {j} /\ changes' \in 0..MaxChanges
             /\ UNCHANGED <<host, worker, failures, stale, lost>>
    BY <1>2, <2>2, <2>4 DEF Database!Types
  <2> DEFINE new == [row EXCEPT !.status = "terminating"]
  <2>6. /\ new \in [id : Nat, status : Database!Statuses] /\ new.id = row.id
        /\ new.status # "active"
    BY <2>1 DEF Database!Statuses
  <2> HIDE DEF new
  <2>7. rows' = [rows EXCEPT !.db = [rows.db EXCEPT ![n] = new]]
    BY <2>3 DEF new
  <2>8. /\ rows' \in DbRow /\ rows'.pw = rows.pw /\ rows'.app = rows.app
        /\ rows'.db = [rows.db EXCEPT ![n] = new]
    BY <1>1, <2>6, <2>7 DEF DbRow
  <2>9. \A k \in Database!Names : \/ rows'.db[k] = rows.db[k]
                                  \/ rows.db[k] = row /\ rows'.db[k] = new
    BY <1>1, <2>1, <2>8
  <2> QED
    BY <2>4, <2>5, <2>6, <2>8, <2>9, DbRequests
<1>5. ASSUME Database!QueueWordPress PROVE DbInv'
  <2>1. /\ rows.app = "none" /\ rows' = [rows EXCEPT !.app = "provisioning"]
        /\ Database!Enqueue("wordpress.install", "wp", 0)
    BY <1>5 DEF Database!QueueWordPress
  <2>2. PICK j \in DbJob :
             /\ j.type = "wordpress.install" /\ j.name = "wp"
             /\ j.attempts = 0 /\ jobs' = jobs \cup {j} /\ changes' \in 0..MaxChanges
             /\ UNCHANGED <<host, worker, failures, stale, lost>>
    BY <1>2, <2>1, DbEngines DEF Database!Types
  <2>3. /\ rows' \in DbRow /\ rows'.pw = rows.pw /\ rows'.app = "provisioning"
        /\ rows'.db = rows.db
    BY <1>1, <2>1 DEF DbRow
  <2> QED
    BY <2>1, <2>2, <2>3, DbRequests
<1> QED
  BY <1>3, <1>4, <1>5 DEF Database!Request

LEMMA DbClaim == DbInv /\ Database!Claim => DbInv'
<1> SUFFICES ASSUME DbInv, Database!Claim PROVE DbInv'
  OBVIOUS
<1>1. worker.pc = "idle" /\ UNCHANGED <<rows, host, changes, failures, stale>>
  BY DEF Database!Claim
<1>2. PICK j \in jobs :
        /\ jobs' = jobs \ {j}
        /\ \/ /\ \E step \in {"creds", "count"} :
                   /\ step = "creds" =>
                         \/ j.type = "wordpress.install"
                         \/ j.type = "database.provision" /\ rows.db[j.name].id = j.id
                   /\ step = "count" => j.type = "database.delete" /\ rows.db[j.name].id = j.id
                   /\ worker' = [pc |-> step, job |-> [j EXCEPT !.attempts = @ + 1],
                                 pw |-> 0, reset |-> FALSE, dropUser |-> FALSE]
              /\ lost' = lost
           \/ lost' = TRUE /\ worker' = worker /\ j.type = "database.provision"
           \/ /\ lost' = lost /\ worker' = worker /\ j.type = "database.delete"
              /\ rows.db[j.name].id # j.id
  <2>1. \A j \in jobs : j.type \in Database!Types
    BY DEF DbInv, DbJobs, DbJob
  <2> QED
    <3>1. PICK j \in jobs :
            /\ jobs' = jobs \ {j}
            /\ CASE j.type = "wordpress.install" ->
                      /\ worker' = [pc |-> "creds", job |-> [j EXCEPT !.attempts = @ + 1],
                                    pw |-> 0, reset |-> FALSE, dropUser |-> FALSE]
                      /\ UNCHANGED lost
                 [] j.type = "database.provision" /\ rows.db[j.name].id = j.id ->
                      /\ worker' = [pc |-> "creds", job |-> [j EXCEPT !.attempts = @ + 1],
                                    pw |-> 0, reset |-> FALSE, dropUser |-> FALSE]
                      /\ UNCHANGED lost
                 [] j.type = "database.provision" /\ ~(rows.db[j.name].id = j.id) ->
                      lost' = TRUE /\ UNCHANGED worker
                 [] j.type = "database.delete" /\ rows.db[j.name].id = j.id ->
                      /\ worker' = [pc |-> "count", job |-> [j EXCEPT !.attempts = @ + 1],
                                    pw |-> 0, reset |-> FALSE, dropUser |-> FALSE]
                      /\ UNCHANGED lost
                 [] j.type = "database.delete" /\ ~(rows.db[j.name].id = j.id) ->
                      UNCHANGED <<worker, lost>>
      BY Zenon DEF Database!Claim
    <3>2. CASE j.type = "wordpress.install"
      BY <3>1, <3>2
    <3>3. CASE j.type = "database.provision"
      BY <3>1, <3>3
    <3>4. CASE j.type = "database.delete"
      BY <3>1, <3>4
    <3> QED
      BY <2>1, <3>2, <3>3, <3>4 DEF Database!Types
<1>3. DbShapes /\ j \in DbJob /\ j.attempts < MaxAttempts
  BY DbTyped DEF DbInv, DbJobs
<1>4. jobs' \subseteq DbJob /\ jobs' \subseteq jobs
  BY <1>2, <1>3 DEF DbShapes
<1>5. DbRowsMade'
  BY <1>1 DEF DbInv, DbRowsMade
<1>6. \A k \in Database!Names : rows.db[k].status = "active" => rows.pw[Database!Engine(k)] # 0
  BY DEF DbInv, PasswordStored
<1>7. CASE lost' = TRUE /\ worker' = worker
  <2>1. DbShapes' /\ DbJobs'
    BY <1>1, <1>3, <1>4, <1>7 DEF DbInv, DbShapes, DbWorker, DbJobs
  <2>2. DbStepOfJob' /\ LastDatabase' /\ PasswordStored' /\ RowOfDatabase'
    BY <1>1, <1>6, <1>7 DEF DbInv, DbStepOfJob, LastDatabase, PasswordStored, RowOfDatabase,
       Making, Syncing, Deleting, Installing
  <2>3. UsersAgree' /\ OneInstall' /\ WordPressMade'
    BY <1>1, <1>4, <1>7 DEF DbInv, UsersAgree, OneInstall, WordPressMade
  <2> QED
    BY <1>5, <2>1, <2>2, <2>3, DbTyped DEF DbInv
<1>8. CASE lost' = lost /\ worker' = worker /\ j.type = "database.delete"
           /\ rows.db[j.name].id # j.id
  <2>1. DbShapes' /\ DbJobs'
    BY <1>1, <1>3, <1>4, <1>8 DEF DbInv, DbShapes, DbWorker, DbJobs
  <2>2. DbStepOfJob' /\ LastDatabase' /\ PasswordStored' /\ RowOfDatabase'
    BY <1>1, <1>6, <1>8 DEF DbInv, DbStepOfJob, LastDatabase, PasswordStored, RowOfDatabase,
       Making, Syncing, Deleting, Installing
  <2>3. OneInstall' /\ WordPressMade'
    BY <1>1, <1>4, <1>8 DEF DbInv, OneInstall, WordPressMade
  <2>4. \A k : DbDeletes(k) => DbDeletes(k)'
    BY <1>1, <1>2, <1>8 DEF DbDeletes
  <2>5. DbSyncs => DbSyncs'
    BY <1>1, <1>2, <1>8 DEF DbSyncs
  <2>6. UsersAgree'
    BY <1>1, <1>8, <2>4, <2>5 DEF DbInv, UsersAgree, UsersMade, UsersCurrent,
       Database!Resetting, Database!E
  <2> QED
    BY <1>5, <2>1, <2>2, <2>3, <2>6, DbTyped DEF DbInv
<1>9. ASSUME NEW step \in {"creds", "count"}, lost' = lost,
             step = "creds" => \/ j.type = "wordpress.install"
                               \/ j.type = "database.provision" /\ rows.db[j.name].id = j.id,
             step = "count" => j.type = "database.delete" /\ rows.db[j.name].id = j.id,
             worker' = [pc |-> step, job |-> [j EXCEPT !.attempts = @ + 1],
                        pw |-> 0, reset |-> FALSE, dropUser |-> FALSE]
      PROVE  DbInv'
  <2> DEFINE job == [j EXCEPT !.attempts = @ + 1]
  <2>1. job \in DbJob /\ job.type = j.type /\ job.name = j.name /\ job.id = j.id
    BY <1>3, Bounds DEF DbJob
  <2> HIDE DEF job
  <2>2. /\ worker' \in DbRunning /\ worker'.pc = step /\ worker'.job = job
    BY <1>9, <2>1 DEF DbRunning, Database!Steps, job
  <2>3. DbShapes'
    BY <1>1, <1>3, <1>4, <1>9, <2>2 DEF DbShapes, DbWorker
  <2>4. DbJobs'
    BY <1>1, <1>3, <1>4, <2>1, <2>2 DEF DbInv, DbJobs
  <2>5. DbStepOfJob'
    BY <1>1, <1>9, <2>1, <2>2 DEF DbStepOfJob, Making, Syncing, Deleting, Installing
  <2>6. LastDatabase' /\ PasswordStored' /\ RowOfDatabase'
    BY <1>1, <1>6, <2>2 DEF DbInv, LastDatabase, PasswordStored, RowOfDatabase
  <2>7. OneInstall'
    BY <1>1, <1>2, <2>1, <2>2 DEF DbInv, OneInstall
  <2>8. WordPressMade'
    BY <1>1, <2>2 DEF DbInv, WordPressMade
  <2>9. UsersAgree'
    <3> SUFFICES ASSUME ~lost PROVE UsersMade' /\ UsersCurrent'
      BY <1>9 DEF UsersAgree
    <3>1. UsersMade /\ UsersCurrent
      BY DEF DbInv, UsersAgree
    <3>2. \A k : DbDeletes(k) => DbDeletes(k)'
      BY <1>1, <1>2, <1>9, <2>1, <2>2 DEF DbDeletes, Deleting
    <3>3. DbSyncs => DbSyncs'
      BY <1>1, <1>2, <1>9, <2>1, <2>2 DEF DbSyncs, Making
    <3>4. UsersMade'
      BY <1>1, <2>2, <3>1, <3>2 DEF UsersMade
    <3>5. UsersCurrent'
      BY <1>1, <3>1, <3>3 DEF UsersCurrent, Database!Resetting
    <3> QED
      BY <3>4, <3>5
  <2> QED
    BY <1>5, <2>3, <2>4, <2>5, <2>6, <2>7, <2>8, <2>9, DbTyped DEF DbInv
<1> QED
  BY <1>2, <1>7, <1>8, <1>9

LEMMA DbStep == DbInv /\ (Database!Next \/ UNCHANGED Database!vars) => DbInv'
<1>1. ASSUME DbInv, UNCHANGED Database!vars PROVE DbInv'
  <2>1. UNCHANGED <<rows, host, jobs, worker, changes, failures, stale, lost>>
    BY <1>1 DEF Database!vars
  <2>2. DbShapes' /\ DbJobs' /\ DbRowsMade' /\ DbStepOfJob'
    BY <1>1, <2>1, DbTyped DEF DbInv, DbShapes, DbWorker, DbJobs, DbRowsMade, DbStepOfJob
  <2>3. PasswordStored' /\ RowOfDatabase' /\ LastDatabase' /\ OneInstall' /\ WordPressMade'
    BY <1>1, <2>1 DEF DbInv, PasswordStored, RowOfDatabase, LastDatabase, OneInstall,
       WordPressMade, Database!E
  <2>4. UsersAgree'
    BY <1>1, <2>1 DEF DbInv, UsersAgree, UsersMade, UsersCurrent, DbDeletes, DbSyncs,
       Database!Resetting, Database!E
  <2> QED
    BY <2>2, <2>3, <2>4, DbTyped DEF DbInv
<1>2. ASSUME DbInv, Database!Work PROVE DbInv'
  BY <1>2, DbHostedCredentials, DbCreate, DbPut, DbSyncCredentials, DbSyncCreate, DbSyncConfig,
     DbCount, DbDrop, DbDeleteRow, DbArchive, DbUnpack, DbTables, DbPutApp DEF Database!Work
<1> QED
  BY <1>1, <1>2, DbRequest, DbClaim, DbCrash DEF Database!Next

LEMMA DbHolds ==
    DbInv => /\ Database!PasswordOpensDatabases /\ Database!NoDatabaseBeyondRows
             /\ Database!RunningWordPressIsWhole
<1> SUFFICES ASSUME DbInv
             PROVE  /\ Database!PasswordOpensDatabases /\ Database!NoDatabaseBeyondRows
                    /\ Database!RunningWordPressIsWhole
  OBVIOUS
<1>1. Database!NoDatabaseBeyondRows
  BY DEF DbInv, RowOfDatabase, Database!NoDatabaseBeyondRows
<1>2. Database!RunningWordPressIsWhole
  BY DEF DbInv, WordPressMade, Database!RunningWordPressIsWhole
<1>3. ASSUME worker.pc = "idle", jobs = {}, ~lost, NEW n \in Database!Names,
             rows.db[n].status = "active", Database!Engine(n) \notin stale
      PROVE  /\ n \in host.db
             /\ \A u \in Database!UsersOf(Database!Engine(n)) :
                   host.user[u] = rows.pw[Database!Engine(n)]
  <2>1. UsersMade /\ UsersCurrent /\ rows.pw[Database!Engine(n)] # 0
    BY <1>3 DEF DbInv, UsersAgree, PasswordStored
  <2>2. ~DbDeletes(n) /\ ~DbSyncs /\ ~Database!Resetting
    BY <1>3 DEF DbDeletes, DbSyncs, Database!Resetting, Deleting, Making
  <2>3. /\ n \in host.db
        /\ \A u \in Database!UsersOf(Database!Engine(n)) : host.user[u] # 0
    BY <1>3, <2>1, <2>2 DEF UsersMade
  <2>4. \A u \in Database!UsersOf(Database!Engine(n)) :
            host.user[u] \in {0, rows.pw[Database!Engine(n)]}
    BY <1>3, <2>1, <2>2, DbEngines DEF UsersCurrent
  <2> QED
    BY <2>3, <2>4
<1> QED
  BY <1>1, <1>2, <1>3 DEF Database!PasswordOpensDatabases, Database!Settled

-----------------------------------------------------------------------------
(* The parts side by side.  A behaviour is one of a single part, so the    *)
(* invariant of that part is kept, and so are the limits of the policy     *)
(* service, which every behaviour has.                                     *)

HostingInv ==
    /\ PolicyInv
    /\ part = "mail" => MailInv
    /\ part = "site" => SiteInv
    /\ part = "database" => DbInv
    /\ part = "usage" => UsageInv
    /\ part = "lists" => ListsInv

LEMMA HostingInvInitial == HostingInit => HostingInv
<1>1. InitMail => HostingInv
  BY PolicyInvInitial, MailInitially DEF InitMail, HostingInv
<1>2. InitSmtp => HostingInv
  BY PolicyInvInitial DEF InitSmtp, HostingInv
<1>3. InitSite => HostingInv
  BY PolicyInvInitial, SiteInitially DEF InitSite, HostingInv
<1>4. InitDatabase => HostingInv
  BY PolicyInvInitial, DbInitially DEF InitDatabase, HostingInv
<1>5. InitUsage => HostingInv
  BY PolicyInvInitial, UsageInitially DEF InitUsage, HostingInv
<1>6. InitLists => HostingInv
  BY PolicyInvInitial, ListsInitially DEF InitLists, HostingInv
<1> QED
  BY <1>1, <1>2, <1>3, <1>4, <1>5, <1>6 DEF HostingInit

LEMMA HostingInvInductive == HostingInv /\ [HostingNext]_hostingVars => HostingInv'
<1> SUFFICES ASSUME HostingInv, [HostingNext]_hostingVars PROVE HostingInv'
  OBVIOUS
<1>1. CASE UNCHANGED hostingVars
  <2>1. /\ UNCHANGED <<part, vars, Work, Rows, Counters, History, Sites, Databases, Metering>>
    BY <1>1 DEF hostingVars
  <2>2. /\ UNCHANGED Mail!vars /\ UNCHANGED Site!vars /\ UNCHANGED Database!vars
        /\ UNCHANGED Usage!vars /\ UNCHANGED Lists!vars
    BY <2>1 DEF Work, Rows, Counters, History, Sites, Databases, Metering, Mail!vars, Site!vars,
       Database!vars, Usage!vars, Lists!vars
  <2>3. part' = part
    BY <2>1
  <2> QED
    BY <2>1, <2>2, <2>3, PolicyInvInductive, MailStep, SiteStep, DbStep, UsageStep, ListsStep
       DEF HostingInv
<1>2. CASE NextMail
  BY <1>2, PolicyInvInductive, MailStep DEF NextMail, HostingInv
<1>3. CASE NextSmtp
  BY <1>3, PolicyInvInductive DEF NextSmtp, HostingInv
<1>4. CASE NextSite
  BY <1>4, PolicyInvInductive, SiteStep DEF NextSite, HostingInv
<1>5. CASE NextDatabase
  BY <1>5, PolicyInvInductive, DbStep DEF NextDatabase, HostingInv
<1>6. CASE NextUsage
  BY <1>6, PolicyInvInductive, UsageStep DEF NextUsage, HostingInv
<1>7. CASE NextLists
  BY <1>7, PolicyInvInductive, ListsStep DEF NextLists, HostingInv
<1> QED
  BY <1>1, <1>2, <1>3, <1>4, <1>5, <1>6, <1>7 DEF HostingNext

LEMMA HostingInvariant == HostingSpec => []HostingInv
  BY HostingInvInitial, HostingInvInductive, PTL DEF HostingSpec

-----------------------------------------------------------------------------
\* Every state the hosted services reach has the rows, files, jobs and attempt
\* the code's types and statuses allow, for any number of domains, logins,
\* accounts, months and requests.
THEOREM HostingTypeCorrect == HostingSpec => []HostingTypeOK
<1>1. HostingInv => HostingTypeOK
  BY DEF HostingInv, HostingTypeOK, PolicyInv, MailInv, SiteInv, DbInv, UsageInv, ListsInv
<1> QED
  BY <1>1, HostingInvariant, PTL

\* Once every job has succeeded the host has what the rows say: the maps of
\* Postfix and Dovecot, the sites nginx serves, one for a domain, the logins of
\* vsftpd and the entries of cron, although each job writes what it read
\* earlier and jobs died and failed in between (worker.go, applyMailStack,
\* provisionWebsite, collapseDomainWebsites, syncFTPUsers, applyCron).
THEOREM HostAgrees == HostingSpec => []HostAgreesWithRows
<1>1. HostingInv => HostAgreesWithRows
  BY MailHolds, SiteHolds, ListsSettled DEF HostingInv, HostAgreesWithRows
<1> QED
  BY <1>1, HostingInvariant, PTL

\* An acknowledged password, mailbox, deletion or runtime is undone only by an
\* attempt the request overlapped, which writes back the row it read
\* (worker.go, provisionMailbox, provisionWebsite).
THEOREM LostOnlyByOverlap == HostingSpec => []ChangeLostOnlyByOverlap
<1>1. HostingInv => ChangeLostOnlyByOverlap
  BY MailHolds, SiteHolds DEF HostingInv, ChangeLostOnlyByOverlap
<1> QED
  BY <1>1, HostingInvariant, PTL

\* Deletions that succeeded left no unit of a site that is gone, nothing of a
\* retired application and no database, wherever attempts died (nginx.go,
\* retire.go, runtime.go).
THEOREM WholeDeletions == HostingSpec => []DeletionsAreWhole
<1>1. HostingInv => DeletionsAreWhole
  BY SiteHolds, DbHolds DEF HostingInv, DeletionsAreWhole
<1> QED
  BY <1>1, HostingInvariant, PTL

\* A login of vsftpd is confined to its account at every moment of a change of
\* the list, and a mailbox Postfix knows of has its home unless the job that
\* makes it waits or runs (ftp.go, applyFTPUsers; worker.go, applyMailStack).
THEOREM ServedOnlyPrepared == HostingSpec => []PreparedBeforeServed
<1>1. HostingInv => PreparedBeforeServed
  BY MailHolds, ListsSettled DEF HostingInv, PreparedBeforeServed
<1> QED
  BY <1>1, HostingInvariant, PTL

\* No mailbox is left without a zone wherever a deletion of a domain stops, so
\* that publishDKIMTXT never fails for good (worker.go, deleteDomain).
THEOREM ZonesOutlive == HostingSpec => []MailZoneOutlivesMailboxes
<1>1. HostingInv => MailZoneOutlivesMailboxes
  BY MailHolds DEF HostingInv, MailZoneOutlivesMailboxes
<1> QED
  BY <1>1, HostingInvariant, PTL

\* Mail is signed only with a key whose public half the zone serves, although
\* key, record and signing table are written in separate calls (worker.go,
\* publishDKIMTXT).
THEOREM SignedWithServed == HostingSpec => []MailSignedWithServedKey
<1>1. HostingInv => MailSignedWithServedKey
  BY MailHolds DEF HostingInv, MailSignedWithServedKey
<1> QED
  BY <1>1, HostingInvariant, PTL

\* Once every job has succeeded, the stored password opens every active
\* database, although statements failed midway and databases that share the
\* user are deleted (worker.go, provisionDB, deleteDB).
THEOREM PasswordOpens == HostingSpec => []DatabasePasswordOpens
<1>1. HostingInv => DatabasePasswordOpens
  BY DbHolds DEF HostingInv, DatabasePasswordOpens
<1> QED
  BY <1>1, HostingInvariant, PTL

\* A WordPress shown running came from a whole archive and has the server's
\* password (wordpress.go, installWordPress).
THEOREM WordPressWhole == HostingSpec => []DatabaseWordPressIsWhole
<1>1. HostingInv => DatabaseWordPressIsWhole
  BY DbHolds DEF HostingInv, DatabaseWordPressIsWhole
<1> QED
  BY <1>1, HostingInvariant, PTL

\* No byte is in a month's total twice, and none that was measured undisturbed
\* is left out of total and log, for any number of months, logged requests and
\* rotations (bandwidth.go, readBandwidthDelta).
THEOREM BytesCountedOnce == HostingSpec => []UsageCountedOnce
<1>1. HostingInv => UsageCountedOnce
  BY UsageHolds DEF HostingInv, UsageCountedOnce
<1> QED
  BY <1>1, HostingInvariant, PTL

\* The hold of the sites follows the stored usage, and the three marks of a
\* full home agree after an undisturbed collection (worker.go, recordUsage;
\* quota.go, enforceAccountDisk).
THEOREM LimitsEnforced == HostingSpec => []UsageEnforced
<1>1. HostingInv => UsageEnforced
  BY UsageHolds DEF HostingInv, UsageEnforced
<1> QED
  BY <1>1, HostingInvariant, PTL

\* The daily limit is kept in the composed specification as well, whichever
\* part a behaviour is about (policy.go, bumpCount, Decide).
THEOREM DailyLimitComposed == HostingSpec => []DailyLimitKept
  BY PolicyLimit, HostingInvariant, PTL DEF HostingInv
=============================================================================
