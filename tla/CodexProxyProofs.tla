-------------------------- MODULE CodexProxyProofs --------------------------
(***************************************************************************)
(* What is proved of CodexProxy for any accounts, threads and pins.         *)
(***************************************************************************)
EXTENDS CodexProxy, FiniteSetTheorems, TLAPS

-----------------------------------------------------------------------------
(* The inductive invariant *)

\* What a thread remembers, what codex holds for it, and its request.
Homebound(t) ==
    /\ threads[t] \in {None, sticky[t]}
    /\ rq[t].pc # "idle" => rq[t].previous = None \/ rq[t].carried \in {None, rq[t].previous}

\* No account is counted as dead before it was tried, and a request that has been
\* told of a limit still has, behind it and not counted as dead, an account the
\* book holds limited for as long.
Quoted(t) ==
    LET r == rq[t] IN
    /\ r.pc = "idle" => r.until = 0
    /\ r.pc # "idle" => answer[t].kind = "none"
    /\ r.pc \in {"send", "refresh"} => \A k \in r.i..Len(r.order) : r.order[k] \notin ToSet(r.dead)
    /\ r.until > now =>
          /\ r.first # None
          /\ \E k \in 1..Len(r.order) :
                /\ k < r.i \/ r.pc = "exhausted"
                /\ r.order[k] \notin ToSet(r.dead)
                /\ book[r.order[k]].until >= r.until

\* Whoever is about to move the pointer chose an account that was stored.
Pointing ==
    /\ PointerNamesAnAccount
    /\ user \in rows \cup doomed \cup {None}
    /\ lane # None => lane.target \in rows \cup doomed \cup {None}

IInv == TypeOK /\ Pointing /\ \A t \in Thread : Homebound(t) /\ Quoted(t)

-----------------------------------------------------------------------------
(* Orders *)

Ordering(o) == o \in Seq(Acct) /\ IsInjective(o)

LEMMA OrdersAreOrderings == \A o \in Orders : Ordering(o)
<1>1. Cardinality(Acct) \in Nat
  BY CodexProxyAssumption, FS_CardinalityType
<1> QED
  BY <1>1 DEF Orders, SeqOf, Ordering

\* Moving an account to the front keeps an order an order.
LEMMA LeadOrders ==
    ASSUME NEW a \in Acct, NEW o, Ordering(o)
    PROVE  Ordering(Lead(a, o)) /\ Len(Lead(a, o)) >= 1
<1> DEFINE n == Len(o)
           p == IF a \in ToSet(o) THEN CHOOSE k \in 1..n : o[k] = a ELSE n + 1
           m == IF p > n THEN p ELSE n
           f == [k \in 1..m |-> IF k = 1 THEN a ELSE IF k <= p THEN o[k - 1] ELSE o[k]]
<1>1. o \in [1..n -> Acct] /\ n \in Nat /\ DOMAIN o = 1..n
  BY DEF Ordering
<1>2. \A j, k \in 1..n : o[j] = o[k] => j = k
  BY <1>1 DEF Ordering, IsInjective
<1>3. /\ p \in 1..(n + 1) /\ (p <= n => o[p] = a)
      /\ p = n + 1 => \A k \in 1..n : o[k] # a
  BY <1>1 DEF ToSet
<1>4. Lead(a, o) = f
  BY DEF Lead
<1> HIDE DEF n, p
<1>5. m \in Nat /\ m >= 1 /\ m >= n /\ m >= p /\ (m = n \/ m = p)
  BY <1>1, <1>3
<1>6. f \in [1..m -> Acct]
  BY <1>1, <1>3, <1>5
<1>7. f \in Seq(Acct) /\ Len(f) = m
  BY <1>5, <1>6
<1>8. ASSUME NEW j \in 1..m, NEW k \in 1..m, f[j] = f[k]
      PROVE  j = k
  <2>1. f[j] = (IF j = 1 THEN a ELSE IF j <= p THEN o[j - 1] ELSE o[j])
    OBVIOUS
  <2>2. f[k] = (IF k = 1 THEN a ELSE IF k <= p THEN o[k - 1] ELSE o[k])
    OBVIOUS
  <2> QED
    BY <1>1, <1>2, <1>3, <1>5, <1>8, <2>1, <2>2
<1>9. IsInjective(f)
  BY <1>8 DEF IsInjective
<1> QED
  BY <1>4, <1>5, <1>7, <1>9 DEF Ordering

\* Whatever a request is ordered by, it names each account once.
LEMMA OrderOrders == ASSUME TypeOK, NEW t \in Thread, NEW o \in Order(t) PROVE Ordering(o)
<1>1. \A x \in RankedEligible : Ordering(x)
  BY OrdersAreOrderings DEF TypeOK, RankedEligible, Ordering
<1>2. CASE pin[t] # None
  <2>1. pin[t] \in Acct /\ o = <<pin[t]>>
    BY <1>2, CodexProxyAssumption DEF TypeOK, Order
  <2> QED
    BY <2>1 DEF Ordering, IsInjective
<1>3. CASE pin[t] = None
  <2>1. \/ o \in RankedEligible
        \/ \E a \in rows, x \in RankedEligible : o = Lead(a, x)
    BY <1>3 DEF Order
  <2> QED
    BY <1>1, <2>1, LeadOrders DEF TypeOK
<1> QED
  BY <1>2, <1>3

-----------------------------------------------------------------------------
(* The record of a request *)

Requests == /\ rq \in [Thread -> Request]
            /\ \A t \in Thread : /\ IsInjective(rq[t].order)
                                 /\ rq[t].pc # "idle" => rq[t].i \in 1..Len(rq[t].order)
Answers == answer \in [Thread -> [kind : Kinds, about : OrNone(Acct \cup Nat)]]
Tables == /\ login \in [Acct -> {"good", "stale", "dead"}]
          /\ quota \in [Acct -> Later] /\ book \in [Acct -> [until : Nat, known : BOOLEAN]]
Lanes == /\ ranked \in Seq(Acct) /\ IsInjective(ranked)
         /\ lane \in OrNone([target : OrNone(Acct), order : Seq(Acct)])
         /\ lane # None => IsInjective(lane.order)
Rest == /\ now \in 0..MaxNow /\ events \in 0..MaxEvents
        /\ rows \subseteq Acct /\ marked \subseteq Acct /\ doomed \subseteq Acct
        /\ serving \in OrNone(Acct) /\ user \in OrNone(Acct) /\ remover \in OrNone(Acct)
        /\ pin \in [Thread -> Pins]
        /\ threads \in [Thread -> OrNone(Acct)] /\ sticky \in [Thread -> OrNone(Acct)]

LEMMA TypeParts == TypeOK <=> Requests /\ Answers /\ Tables /\ Lanes /\ Rest
BY DEF TypeOK, Requests, Answers, Tables, Lanes, Rest

LEMMA IdleType == Idle \in Request /\ IsInjective(Idle.order) /\ Idle.pc = "idle" /\ Idle.until = 0
                  /\ Idle.dead = <<>> /\ Idle.i = 1
BY DEF Idle, Request, OrNone, IsInjective

\* The account a request under way is at.
LEMMA AtType == ASSUME Requests, NEW t \in Thread, rq[t].pc # "idle"
                PROVE  At(t) \in Acct /\ rq[t] \in Request
BY DEF Requests, At, Request

\* An answer ends the request.
LEMMA AnswerEnds ==
    ASSUME Requests, Answers, NEW t \in Thread, NEW k \in Kinds, NEW x \in OrNone(Acct \cup Nat), Answer(t, k, x)
    PROVE  /\ Requests' /\ Answers'
           /\ rq'[t] = Idle /\ answer'[t].kind = k
           /\ \A u \in Thread \ {t} : rq'[u] = rq[u] /\ answer'[u] = answer[u]
<1>1. answer' = [answer EXCEPT ![t] = [kind |-> k, about |-> x]] /\ rq' = [rq EXCEPT ![t] = Idle]
  BY DEF Answer, Told
<1>2. Answers' /\ answer'[t].kind = k /\ \A u \in Thread \ {t} : answer'[u] = answer[u]
  BY <1>1 DEF Answers
<1>3. rq'[t] = Idle /\ \A u \in Thread \ {t} : rq'[u] = rq[u]
  BY <1>1 DEF Requests
<1>4. Requests'
  BY <1>1, <1>3, IdleType DEF Requests
<1> QED
  BY <1>2, <1>3, <1>4

\* A record of a request with another place, or the one it had.
LEMMA ContinueGoesOn ==
    ASSUME Requests, Answers, NEW t \in Thread, NEW r \in Request, IsInjective(r.order),
           r.i \in 1..Len(r.order), Continue(t, r)
    PROVE  /\ Requests' /\ Answers' /\ UNCHANGED answer
           /\ \A u \in Thread \ {t} : rq'[u] = rq[u]
           /\ \/ r.i < Len(r.order) /\ rq'[t] = [r EXCEPT !.i = r.i + 1, !.pc = "send"]
              \/ r.i = Len(r.order) /\ rq'[t] = [r EXCEPT !.pc = "exhausted"]
<1>1. Len(r.order) \in Nat /\ r.i \in Nat
  BY DEF Request
<1>2. CASE r.i < Len(r.order)
  <2>1. rq' = [rq EXCEPT ![t] = [r EXCEPT !.i = r.i + 1, !.pc = "send"]]
    BY <1>2 DEF Continue
  <2>2. [r EXCEPT !.i = r.i + 1, !.pc = "send"] \in Request
    <3>1. [r EXCEPT !.i = r.i + 1] \in Request
      BY <1>1 DEF Request
    <3>2. [[r EXCEPT !.i = r.i + 1] EXCEPT !.pc = "send"] \in Request
      BY <3>1 DEF Request
    <3> QED
      BY <3>2
  <2>3. /\ [r EXCEPT !.i = r.i + 1, !.pc = "send"].order = r.order
        /\ [r EXCEPT !.i = r.i + 1, !.pc = "send"].i \in 1..Len(r.order)
    BY <1>1, <1>2 DEF Request
  <2> QED
    BY <1>2, <2>1, <2>2, <2>3 DEF Continue, Requests, Answers
<1>3. CASE r.i = Len(r.order)
  <2>0. ~(r.i < Len(r.order))
    BY <1>1, <1>3
  <2>1. rq' = [rq EXCEPT ![t] = [r EXCEPT !.pc = "exhausted"]]
    BY <2>0 DEF Continue
  <2>2. [r EXCEPT !.pc = "exhausted"] \in Request
    BY DEF Request
  <2>3. [r EXCEPT !.pc = "exhausted"].order = r.order /\ [r EXCEPT !.pc = "exhausted"].i = r.i
    BY DEF Request
  <2> QED
    BY <1>3, <2>1, <2>2, <2>3 DEF Continue, Requests, Answers
<1> QED
  BY <1>1, <1>2, <1>3

LEMMA DeadCounts ==
    ASSUME Requests, NEW t \in Thread, rq[t].pc # "idle"
    PROVE  /\ CountedAsDead(t) \in Request
           /\ CountedAsDead(t).order = rq[t].order /\ CountedAsDead(t).i = rq[t].i
           /\ CountedAsDead(t).until = rq[t].until /\ CountedAsDead(t).first = rq[t].first
           /\ CountedAsDead(t).previous = rq[t].previous /\ CountedAsDead(t).carried = rq[t].carried
           /\ ToSet(CountedAsDead(t).dead) = ToSet(rq[t].dead) \cup {At(t)}
<1>1. rq[t] \in Request /\ At(t) \in Acct
  BY AtType DEF Requests
<1>2. Append(rq[t].dead, At(t)) \in Seq(Acct)
  BY <1>1 DEF Request
<1>3. ToSet(Append(rq[t].dead, At(t))) = ToSet(rq[t].dead) \cup {At(t)}
  <2> DEFINE d == rq[t].dead
             e == At(t)
  <2>1. d \in Seq(Acct)
    BY <1>1 DEF Request
  <2> HIDE DEF d, e
  <2>2. /\ DOMAIN Append(d, e) = 1..(Len(d) + 1) /\ DOMAIN d = 1..Len(d) /\ Len(d) \in Nat
        /\ \A k \in 1..Len(d) : Append(d, e)[k] = d[k]
        /\ Append(d, e)[Len(d) + 1] = e
    BY <2>1
  <2>3. ToSet(Append(d, e)) = ToSet(d) \cup {e}
    BY <2>2 DEF ToSet
  <2> QED
    BY <2>3 DEF d, e
<1> QED
  BY <1>1, <1>2, <1>3 DEF CountedAsDead, Request

-----------------------------------------------------------------------------
(* Types *)

\* The steps of a request.
Requesting(t) ==
    \/ Ask(t) \/ NoCredential(t) \/ Unreachable(t) \/ Streams(t) \/ OutOfQuota(t)
    \/ Fails(t) \/ Unauthorized(t) \/ Refresh(t) \/ Exhausted(t)

LEMMA KindsNamed ==
    /\ {"none", "ok", "429", "401", "failed", "wait", "relogin", "transient", "unavailable"} \subseteq Kinds
    /\ None \in OrNone(Acct \cup Nat)
BY DEF Kinds, OrNone

LEMMA EventsType == ASSUME Rest, Happens PROVE events' \in 0..MaxEvents
BY CodexProxyAssumption DEF Rest, Happens

\* The book's instants are of the right type, whatever is entered in it.
LEMMA BookType ==
    ASSUME Tables, Rest, NEW a \in Acct, NEW until \in Nat, NEW known \in BOOLEAN
    PROVE  MarkLimitedFor(book, a, until, known) \in [Acct -> [until : Nat, known : BOOLEAN]]
BY DEF Tables, MarkLimitedFor

\* An instant that still runs is never moved forward.
LEMMA BookKeeps ==
    ASSUME Tables, Rest, NEW a \in Acct, NEW until \in Nat, until > now, NEW known \in BOOLEAN,
           NEW x \in Acct
    PROVE  /\ book[x].until > now => MarkLimitedFor(book, a, until, known)[x].until >= book[x].until
           /\ MarkLimitedFor(book, a, until, known)[a].until >= until
<1>1. now \in Nat /\ book[a].until \in Nat /\ book[x].until \in Nat
  BY CodexProxyAssumption DEF Rest, Tables
<1>2. CASE now < book[a].until /\ until < book[a].until
  BY <1>1, <1>2 DEF MarkLimitedFor
<1>3. CASE ~(now < book[a].until /\ until < book[a].until)
  <2>1. MarkLimitedFor(book, a, until, known) = [book EXCEPT ![a] = [until |-> until, known |-> known]]
    BY <1>3 DEF MarkLimitedFor
  <2>2. /\ MarkLimitedFor(book, a, until, known)[a].until = until
        /\ x # a => MarkLimitedFor(book, a, until, known)[x] = book[x]
    BY <2>1 DEF Tables
  <2> QED
    BY <1>1, <1>3, <2>2
<1> QED
  BY <1>2, <1>3

-----------------------------------------------------------------------------
(* What a step leaves of a request's claims *)

LEMMA Numbers == ASSUME Tables, Rest, Requests
                 PROVE  /\ now \in Nat
                        /\ \A x \in Acct : book[x].until \in Nat /\ quota[x] \in Nat
                        /\ \A t \in Thread : rq[t].until \in Nat /\ rq[t].i \in Nat /\ Len(rq[t].order) \in Nat
BY CodexProxyAssumption DEF Rest, Tables, Requests, Request, Later

\* The book forgets nothing that still runs.
Holds == \A x \in Acct : book[x].until > now => book'[x].until >= book[x].until

LEMMA Untouched ==
    ASSUME IInv, Tables', Rest', NEW u \in Thread, rq'[u] = rq[u], answer'[u] = answer[u],
           threads'[u] = threads[u], sticky'[u] = sticky[u], now' >= now, Holds
    PROVE  Homebound(u)' /\ Quoted(u)'
<1>1. Homebound(u) /\ Quoted(u) /\ Requests /\ Tables /\ Rest
  BY TypeParts DEF IInv
<1>2. Homebound(u)'
  BY <1>1 DEF Homebound
<1>3. /\ now \in Nat /\ now' \in Nat /\ rq[u].until \in Nat
      /\ \A x \in Acct : book[x].until \in Nat /\ book'[x].until \in Nat
  BY <1>1, Numbers, CodexProxyAssumption DEF Rest, Tables
<1>4. \A k \in 1..Len(rq[u].order) : rq[u].order[k] \in Acct
  BY <1>1 DEF Requests, Request
<1>5. ASSUME rq[u].until > now'
      PROVE  /\ rq[u].first # None
             /\ \E k \in 1..Len(rq[u].order) :
                   /\ k < rq[u].i \/ rq[u].pc = "exhausted"
                   /\ rq[u].order[k] \notin ToSet(rq[u].dead)
                   /\ book'[rq[u].order[k]].until >= rq[u].until
  <2>1. rq[u].until > now
    BY <1>3, <1>5
  <2>2. PICK k \in 1..Len(rq[u].order) :
             /\ k < rq[u].i \/ rq[u].pc = "exhausted"
             /\ rq[u].order[k] \notin ToSet(rq[u].dead)
             /\ book[rq[u].order[k]].until >= rq[u].until
    BY <1>1, <2>1 DEF Quoted
  <2>3. book'[rq[u].order[k]].until >= rq[u].until
    <3> DEFINE x == rq[u].order[k]
    <3>1. x \in Acct /\ book[x].until >= rq[u].until
      BY <1>4, <2>2
    <3> HIDE DEF x
    <3>2. book[x].until > now
      BY <1>3, <2>1, <3>1
    <3>3. book'[x].until >= book[x].until
      BY <3>1, <3>2 DEF Holds
    <3>4. book'[x].until >= rq[u].until
      BY <1>3, <3>1, <3>3
    <3> QED
      BY <3>4 DEF x
  <2> QED
    BY <1>1, <2>1, <2>2, <2>3 DEF Quoted
<1>6. Quoted(u)'
  BY <1>1, <1>5 DEF Quoted
<1> QED
  BY <1>2, <1>6

\* The next attempt, or the end of the order.
LEMMA NextAttempt ==
    ASSUME IInv, NEW t \in Thread, rq[t].pc # "idle", NEW r \in Request, Continue(t, r),
           r.order = rq[t].order, r.i = rq[t].i, r.previous = rq[t].previous, r.carried = rq[t].carried,
           now' = now, threads' = threads, sticky' = sticky,
           \A k \in (r.i + 1)..Len(r.order) : r.order[k] \notin ToSet(r.dead),
           r.until > now =>
             /\ r.first # None
             /\ \E k \in 1..Len(r.order) : /\ k <= r.i /\ r.order[k] \notin ToSet(r.dead)
                                          /\ book'[r.order[k]].until >= r.until
    PROVE  /\ Requests' /\ Answers' /\ UNCHANGED answer
           /\ Homebound(t)' /\ Quoted(t)'
           /\ \A u \in Thread \ {t} : rq'[u] = rq[u]
<1>1. Homebound(t) /\ Quoted(t) /\ Requests /\ Answers
  BY TypeParts DEF IInv
<1>2. IsInjective(r.order) /\ r.i \in 1..Len(r.order)
  BY <1>1 DEF Requests
<1>3. /\ Requests' /\ Answers' /\ UNCHANGED answer
      /\ \A u \in Thread \ {t} : rq'[u] = rq[u]
      /\ \/ r.i < Len(r.order) /\ rq'[t] = [r EXCEPT !.i = r.i + 1, !.pc = "send"]
         \/ r.i = Len(r.order) /\ rq'[t] = [r EXCEPT !.pc = "exhausted"]
  BY <1>1, <1>2, ContinueGoesOn
<1>4. /\ rq'[t].order = r.order /\ rq'[t].previous = r.previous /\ rq'[t].carried = r.carried
      /\ rq'[t].until = r.until /\ rq'[t].first = r.first /\ rq'[t].dead = r.dead
      /\ rq'[t].pc \in {"send", "exhausted"} /\ (rq'[t].pc = "exhausted" \/ rq'[t].i = r.i + 1)
  BY <1>3 DEF Request
<1>5. Homebound(t)'
  BY <1>1, <1>4 DEF Homebound
<1>6. Quoted(t)'
  <2>1. rq'[t].pc # "idle" /\ answer'[t].kind = "none"
    BY <1>1, <1>3, <1>4 DEF Quoted
  <2>2. ASSUME rq'[t].until > now'
        PROVE  \E k \in 1..Len(rq'[t].order) :
                  /\ k < rq'[t].i \/ rq'[t].pc = "exhausted"
                  /\ rq'[t].order[k] \notin ToSet(rq'[t].dead)
                  /\ book'[rq'[t].order[k]].until >= rq'[t].until
    <3>1. PICK k \in 1..Len(r.order) : /\ k <= r.i /\ r.order[k] \notin ToSet(r.dead)
                                       /\ book'[r.order[k]].until >= r.until
      BY <1>4, <2>2
    <3>2. k < r.i + 1 /\ k \in Nat
      BY <1>2, <3>1
    <3> QED
      BY <1>4, <3>1, <3>2
  <2> QED
    BY <1>4, <2>1, <2>2 DEF Quoted
<1> QED
  BY <1>3, <1>5, <1>6

\* An answer leaves nothing of the request's claims to keep.
LEMMA AnswerLeaves ==
    ASSUME IInv, NEW t \in Thread, NEW k \in Kinds, NEW x \in OrNone(Acct \cup Nat), Answer(t, k, x),
           threads'[t] \in {None, sticky'[t]}, now' \in Nat
    PROVE  /\ Requests' /\ Answers' /\ answer'[t].kind = k /\ rq'[t] = Idle
           /\ Homebound(t)' /\ Quoted(t)'
           /\ \A u \in Thread \ {t} : rq'[u] = rq[u] /\ answer'[u] = answer[u]
<1>1. Requests /\ Answers
  BY TypeParts DEF IInv
<1>2. /\ Requests' /\ Answers' /\ answer'[t].kind = k /\ rq'[t] = Idle
      /\ \A u \in Thread \ {t} : rq'[u] = rq[u] /\ answer'[u] = answer[u]
  BY <1>1, AnswerEnds
<1>3. rq'[t].pc = "idle" /\ rq'[t].until = 0
  BY <1>2, IdleType
<1>4. Homebound(t)' /\ Quoted(t)'
  BY <1>3 DEF Homebound, Quoted
<1> QED
  BY <1>2, <1>4

-----------------------------------------------------------------------------
(* The steps of a request *)

\* What is left to say of a step of thread t.
Ours(t) ==
    /\ Requests' /\ Answers' /\ Tables' /\ Lanes' /\ Rest'
    /\ Homebound(t)' /\ Quoted(t)'
    /\ \A u \in Thread \ {t} : rq'[u] = rq[u] /\ answer'[u] = answer[u]
    /\ \A u \in Thread \ {t} : threads'[u] = threads[u] /\ sticky'[u] = sticky[u]
    /\ UNCHANGED <<now, rows, pointing>> /\ Holds

LEMMA Parts == ASSUME IInv PROVE Requests /\ Answers /\ Tables /\ Lanes /\ Rest
BY TypeParts DEF IInv

LEMMA HoldsStill == ASSUME IInv, UNCHANGED book PROVE Holds
BY Parts, Numbers DEF Holds

LEMMA AskKeeps == ASSUME IInv, NEW t \in Thread, Ask(t) PROVE Ours(t)
<1>1. Requests /\ Answers /\ Tables /\ Lanes /\ Rest /\ Homebound(t)
  BY Parts DEF IInv
<1>2. UNCHANGED <<now, store, quota, book, ranked, client, pointing, events>>
  BY DEF Ask
<1>3. Tables' /\ Lanes' /\ Rest' /\ Holds
  BY <1>1, <1>2, HoldsStill DEF Tables, Lanes, Rest, store, client, pointing
<1>4. now' \in Nat /\ threads'[t] \in {None, sticky'[t]}
  BY <1>1, <1>2, Numbers DEF Homebound, client
<1>5. PICK order \in Order(t), carried \in {None, sticky[t]} :
        IF order = <<>> THEN Answer(t, "unavailable", None)
        ELSE /\ rq' = [rq EXCEPT ![t] = [Idle EXCEPT !.pc = "send", !.order = order,
                                         !.previous = threads[t], !.carried = carried]]
             /\ answer' = [answer EXCEPT ![t] = Told("none", None)]
  BY DEF Ask
<1>6. CASE order = <<>>
  <2>1. Answer(t, "unavailable", None)
    BY <1>5, <1>6
  <2> QED
    BY <1>2, <1>3, <1>4, <2>1, AnswerLeaves, KindsNamed DEF Ours, client, store
<1>7. CASE order # <<>>
  <2> DEFINE r == [Idle EXCEPT !.pc = "send", !.order = order, !.previous = threads[t], !.carried = carried]
  <2>1. Ordering(order) /\ Len(order) >= 1 /\ Len(order) \in Nat
    BY <1>7, OrderOrders DEF IInv, Ordering
  <2>2. threads[t] \in OrNone(Acct) /\ carried \in OrNone(Acct)
    BY <1>1 DEF Rest, OrNone
  <2>3. /\ r \in Request /\ r.order = order /\ r.pc = "send" /\ r.i = 1 /\ r.until = 0
        /\ r.previous = threads[t] /\ r.carried = carried /\ r.dead = <<>>
    <3> DEFINE r1 == [Idle EXCEPT !.pc = "send"]
               r2 == [r1 EXCEPT !.order = order]
               r3 == [r2 EXCEPT !.previous = threads[t]]
    <3>1. order \in Seq(Acct)
      BY <2>1 DEF Ordering
    <3>2. r1 \in Request /\ r1.pc = "send" /\ r1.i = 1 /\ r1.until = 0 /\ r1.dead = <<>>
      BY IdleType DEF Request
    <3>3. r2 \in Request /\ r2.pc = "send" /\ r2.i = 1 /\ r2.until = 0 /\ r2.order = order /\ r2.dead = <<>>
      BY <3>1, <3>2 DEF Request
    <3>4. /\ r3 \in Request /\ r3.pc = "send" /\ r3.i = 1 /\ r3.until = 0 /\ r3.order = order
          /\ r3.previous = threads[t] /\ r3.dead = <<>>
      BY <2>2, <3>3 DEF Request
    <3>5. r = [r3 EXCEPT !.carried = carried]
      OBVIOUS
    <3> HIDE DEF r, r3
    <3> QED
      BY <2>2, <3>4, <3>5 DEF Request
  <2> HIDE DEF r
  <2>4. rq' = [rq EXCEPT ![t] = r] /\ answer' = [answer EXCEPT ![t] = Told("none", None)]
    BY <1>5, <1>7 DEF r
  <2>5. Requests' /\ rq'[t] = r /\ \A u \in Thread \ {t} : rq'[u] = rq[u]
    BY <1>1, <2>1, <2>3, <2>4 DEF Requests, Ordering
  <2>6. Answers' /\ answer'[t].kind = "none" /\ \A u \in Thread \ {t} : answer'[u] = answer[u]
    BY <1>1, <2>4, KindsNamed DEF Answers, Told
  <2>7. Homebound(t)'
    BY <1>1, <1>2, <1>4, <2>3, <2>5 DEF Homebound, client
  <2>8. Quoted(t)'
    BY <1>4, <2>3, <2>5, <2>6 DEF Quoted, ToSet
  <2> QED
    BY <1>2, <1>3, <2>5, <2>6, <2>7, <2>8 DEF Ours, client, store
<1> QED
  BY <1>6, <1>7

\* A step that only goes on to the next attempt.
LEMMA SkipKeeps ==
    ASSUME IInv, NEW t \in Thread, rq[t].pc \in {"send", "refresh"}, NEW r \in Request, Continue(t, r),
           r.order = rq[t].order, r.i = rq[t].i, r.previous = rq[t].previous, r.carried = rq[t].carried,
           r.until = rq[t].until, r.first = rq[t].first, ToSet(r.dead) \subseteq ToSet(rq[t].dead) \cup {At(t)},
           UNCHANGED <<now, threads, sticky, book>>
    PROVE  /\ Requests' /\ Answers' /\ UNCHANGED answer
           /\ Homebound(t)' /\ Quoted(t)'
           /\ \A u \in Thread \ {t} : rq'[u] = rq[u]
<1>1. Requests /\ Tables /\ Rest /\ Quoted(t)
  BY Parts DEF IInv
<1>2. rq[t].i \in 1..Len(rq[t].order) /\ IsInjective(rq[t].order) /\ DOMAIN rq[t].order = 1..Len(rq[t].order)
  BY <1>1 DEF Requests, Request
<1>3. ASSUME r.until > now
      PROVE  /\ r.first # None
             /\ \E k \in 1..Len(r.order) : /\ k <= r.i /\ r.order[k] \notin ToSet(r.dead)
                                          /\ book'[r.order[k]].until >= r.until
  <2>1. PICK k \in 1..Len(rq[t].order) :
             /\ k < rq[t].i /\ rq[t].order[k] \notin ToSet(rq[t].dead)
             /\ book[rq[t].order[k]].until >= rq[t].until
    BY <1>1, <1>3 DEF Quoted
  <2>2. rq[t].order[k] # At(t) /\ k <= rq[t].i
    BY <1>2, <2>1 DEF IsInjective, At
  <2> QED
    BY <1>1, <1>3, <2>1, <2>2 DEF Quoted
<1>4. ASSUME NEW k \in (r.i + 1)..Len(r.order)
      PROVE  r.order[k] \notin ToSet(r.dead)
  <2>1. k \in rq[t].i..Len(rq[t].order) /\ k # rq[t].i /\ k \in 1..Len(rq[t].order)
    BY <1>2, <1>4
  <2>2. rq[t].order[k] # At(t) /\ rq[t].order[k] \notin ToSet(rq[t].dead)
    BY <1>1, <1>2, <2>1 DEF Quoted, IsInjective, At
  <2> QED
    BY <2>2
<1>5. rq[t].pc # "idle"
  OBVIOUS
<1> QED
  BY <1>3, <1>4, <1>5, NextAttempt

LEMMA NoCredentialKeeps == ASSUME IInv, NEW t \in Thread, NoCredential(t) PROVE Ours(t)
<1>1. Requests /\ Answers /\ Tables /\ Lanes /\ Rest
  BY Parts
<1>2. /\ rq[t].pc = "send" /\ Continue(t, CountedAsDead(t))
      /\ UNCHANGED <<now, store, quota, book, ranked, client, pointing, events>>
  BY DEF NoCredential
<1>3. Tables' /\ Lanes' /\ Rest' /\ Holds
  BY <1>1, <1>2, HoldsStill DEF Tables, Lanes, Rest, store, client, pointing
<1>4. /\ Requests' /\ Answers' /\ UNCHANGED answer /\ Homebound(t)' /\ Quoted(t)'
      /\ \A u \in Thread \ {t} : rq'[u] = rq[u]
  BY <1>1, <1>2, DeadCounts, SkipKeeps DEF client
<1> QED
  BY <1>2, <1>3, <1>4 DEF Ours, client, store

LEMMA UnreachableKeeps == ASSUME IInv, NEW t \in Thread, Unreachable(t) PROVE Ours(t)
<1>1. Requests /\ Answers /\ Tables /\ Lanes /\ Rest
  BY Parts
<1>2. /\ rq[t].pc = "send" /\ Happens /\ Continue(t, [rq[t] EXCEPT !.unreachable = TRUE])
      /\ UNCHANGED <<now, store, quota, book, ranked, client, pointing>>
  BY DEF Unreachable, Transmit
<1>3. Tables' /\ Lanes' /\ Rest' /\ Holds
  BY <1>1, <1>2, HoldsStill, EventsType DEF Tables, Lanes, Rest, store, client, pointing
<1> DEFINE r == [rq[t] EXCEPT !.unreachable = TRUE]
<1>4. /\ r \in Request /\ r.order = rq[t].order /\ r.i = rq[t].i /\ r.previous = rq[t].previous
      /\ r.carried = rq[t].carried /\ r.until = rq[t].until /\ r.first = rq[t].first /\ r.dead = rq[t].dead
  BY <1>1 DEF Requests, Request
<1>5. Continue(t, r)
  BY <1>2
<1> HIDE DEF r
<1>6. /\ Requests' /\ Answers' /\ UNCHANGED answer /\ Homebound(t)' /\ Quoted(t)'
      /\ \A u \in Thread \ {t} : rq'[u] = rq[u]
  BY <1>1, <1>2, <1>4, <1>5, SkipKeeps DEF client
<1> QED
  BY <1>2, <1>3, <1>6 DEF Ours, client, store

LEMMA StreamsKeeps == ASSUME IInv, NEW t \in Thread, Streams(t) PROVE Ours(t)
<1>1. Requests /\ Answers /\ Tables /\ Lanes /\ Rest
  BY Parts
<1>2. /\ rq[t].pc = "send" /\ Answer(t, "ok", None)
      /\ threads' = [threads EXCEPT ![t] = At(t)] /\ sticky' = [sticky EXCEPT ![t] = At(t)]
      /\ UNCHANGED <<now, store, quota, book, ranked, pin, pointing, events>>
  BY DEF Streams, Transmit
<1>3. At(t) \in Acct
  BY <1>1, <1>2, AtType
<1>4. threads' \in [Thread -> OrNone(Acct)] /\ sticky' \in [Thread -> OrNone(Acct)]
  BY <1>1, <1>2, <1>3 DEF Rest, OrNone
<1>5. Tables' /\ Lanes' /\ Rest' /\ Holds
  BY <1>1, <1>2, <1>4, HoldsStill DEF Tables, Lanes, Rest, store, pointing
<1>6. /\ threads'[t] = sticky'[t]
      /\ \A u \in Thread \ {t} : threads'[u] = threads[u] /\ sticky'[u] = sticky[u]
  BY <1>1, <1>2 DEF Rest
<1>7. now' \in Nat
  BY <1>1, <1>2, Numbers
<1>8. /\ Requests' /\ Answers' /\ Homebound(t)' /\ Quoted(t)'
      /\ \A u \in Thread \ {t} : rq'[u] = rq[u] /\ answer'[u] = answer[u]
  BY <1>2, <1>6, <1>7, AnswerLeaves, KindsNamed
<1> QED
  BY <1>2, <1>5, <1>6, <1>8 DEF Ours, store

\* An answer that changes nothing else of what a thread remembers.
LEMMA AnsweredKeeps ==
    ASSUME IInv, NEW t \in Thread, NEW k \in Kinds, NEW x \in OrNone(Acct \cup Nat), Answer(t, k, x),
           UNCHANGED <<now, threads, sticky>>
    PROVE  /\ Requests' /\ Answers' /\ Homebound(t)' /\ Quoted(t)'
           /\ \A u \in Thread \ {t} : rq'[u] = rq[u] /\ answer'[u] = answer[u]
<1>1. now' \in Nat /\ threads'[t] \in {None, sticky'[t]}
  BY Parts, Numbers DEF IInv, Homebound
<1> QED
  BY <1>1, AnswerLeaves

LEMMA FailsKeeps == ASSUME IInv, NEW t \in Thread, Fails(t) PROVE Ours(t)
<1>1. Requests /\ Answers /\ Tables /\ Lanes /\ Rest
  BY Parts
<1>2. /\ Happens /\ UNCHANGED <<now, store, quota, book, ranked, client, pointing>>
      /\ Answer(t, "429", None) \/ Answer(t, "failed", None)
  BY DEF Fails
<1>3. Tables' /\ Lanes' /\ Rest' /\ Holds
  BY <1>1, <1>2, HoldsStill, EventsType DEF Tables, Lanes, Rest, store, client, pointing
<1>4. /\ Requests' /\ Answers' /\ Homebound(t)' /\ Quoted(t)'
      /\ \A u \in Thread \ {t} : rq'[u] = rq[u] /\ answer'[u] = answer[u]
  BY <1>2, AnsweredKeeps, KindsNamed DEF client
<1> QED
  BY <1>2, <1>3, <1>4 DEF Ours, client, store

\* The request goes on with another step, and the same claims.
LEMMA TurnKeeps ==
    ASSUME IInv, NEW t \in Thread, rq[t].pc \in {"send", "refresh"}, NEW r \in Request,
           rq' = [rq EXCEPT ![t] = r], r.pc \in {"send", "refresh"},
           r.order = rq[t].order, r.i = rq[t].i, r.previous = rq[t].previous,
           r.carried = rq[t].carried, r.until = rq[t].until, r.first = rq[t].first, r.dead = rq[t].dead,
           UNCHANGED <<now, threads, sticky, book, answer>>
    PROVE  /\ Requests' /\ Answers' /\ Homebound(t)' /\ Quoted(t)'
           /\ \A u \in Thread \ {t} : rq'[u] = rq[u]
<1>1. Requests /\ Answers /\ Homebound(t) /\ Quoted(t)
  BY Parts DEF IInv
<1>2. rq'[t] = r /\ \A u \in Thread \ {t} : rq'[u] = rq[u]
  BY <1>1 DEF Requests
<1>3. Requests'
  BY <1>1, <1>2 DEF Requests
<1>4. Answers'
  BY <1>1 DEF Answers
<1>5. Homebound(t)'
  BY <1>1, <1>2 DEF Homebound
<1>6. Quoted(t)'
  BY <1>1, <1>2 DEF Quoted
<1> QED
  BY <1>2, <1>3, <1>4, <1>5, <1>6

LEMMA UnauthorizedKeeps == ASSUME IInv, NEW t \in Thread, Unauthorized(t) PROVE Ours(t)
<1>1. Requests /\ Answers /\ Tables /\ Lanes /\ Rest
  BY Parts
<1>2. /\ rq[t].pc = "send" /\ UNCHANGED <<now, store, quota, book, ranked, client, pointing, events>>
      /\ \/ Answer(t, "401", None)
         \/ /\ rq' = [rq EXCEPT ![t].pc = "refresh", ![t].refreshed = TRUE]
            /\ UNCHANGED answer
  BY DEF Unauthorized, Transmit
<1>3. Tables' /\ Lanes' /\ Rest' /\ Holds
  BY <1>1, <1>2, HoldsStill DEF Tables, Lanes, Rest, store, client, pointing
<1>4. CASE Answer(t, "401", None)
  <2>1. /\ Requests' /\ Answers' /\ Homebound(t)' /\ Quoted(t)'
        /\ \A u \in Thread \ {t} : rq'[u] = rq[u] /\ answer'[u] = answer[u]
    BY <1>2, <1>4, AnsweredKeeps, KindsNamed DEF client
  <2> QED
    BY <1>2, <1>3, <2>1 DEF Ours, client, store
<1>5. CASE rq' = [rq EXCEPT ![t].pc = "refresh", ![t].refreshed = TRUE] /\ UNCHANGED answer
  <2> DEFINE r1 == [rq[t] EXCEPT !.pc = "refresh"]
             r  == [r1 EXCEPT !.refreshed = TRUE]
  <2>1. /\ r1 \in Request /\ r1.pc = "refresh" /\ r1.order = rq[t].order /\ r1.i = rq[t].i
        /\ r1.previous = rq[t].previous /\ r1.carried = rq[t].carried /\ r1.until = rq[t].until
        /\ r1.first = rq[t].first /\ r1.dead = rq[t].dead
    BY <1>1 DEF Requests, Request
  <2>2. /\ r \in Request /\ r.pc = "refresh" /\ r.order = rq[t].order /\ r.i = rq[t].i
        /\ r.previous = rq[t].previous /\ r.carried = rq[t].carried /\ r.until = rq[t].until
        /\ r.first = rq[t].first /\ r.dead = rq[t].dead
    BY <2>1 DEF Request
  <2>3. rq' = [rq EXCEPT ![t] = r]
    BY <1>1, <1>5 DEF Requests
  <2> HIDE DEF r
  <2>4. /\ Requests' /\ Answers' /\ Homebound(t)' /\ Quoted(t)'
        /\ \A u \in Thread \ {t} : rq'[u] = rq[u]
    BY <1>2, <1>5, <2>2, <2>3, TurnKeeps DEF client
  <2> QED
    BY <1>2, <1>3, <1>5, <2>4 DEF Ours, client, store
<1> QED
  BY <1>2, <1>4, <1>5

LEMMA RefreshKeeps == ASSUME IInv, NEW t \in Thread, Refresh(t) PROVE Ours(t)
<1>1. Requests /\ Answers /\ Tables /\ Lanes /\ Rest
  BY Parts
<1>2. rq[t].pc = "refresh" /\ UNCHANGED <<now, rows, quota, book, ranked, client, pointing>>
  BY DEF Refresh
<1>3. At(t) \in Acct /\ rq[t] \in Request
  BY <1>1, <1>2, AtType
<1>4. Tables' /\ Lanes' /\ Rest' /\ Holds
  <2>1. login' \in [Acct -> {"good", "stale", "dead"}] /\ marked' \subseteq Acct /\ events' \in 0..MaxEvents
    BY <1>1, <1>3, EventsType DEF Refresh, Tables, Rest
  <2> QED
    BY <1>1, <1>2, <2>1, HoldsStill DEF Tables, Lanes, Rest, client, pointing
<1>5. CASE rq' = [rq EXCEPT ![t].pc = "send"] /\ UNCHANGED answer
  <2> DEFINE r == [rq[t] EXCEPT !.pc = "send"]
  <2>1. /\ r \in Request /\ r.pc = "send" /\ r.order = rq[t].order /\ r.i = rq[t].i
        /\ r.previous = rq[t].previous /\ r.carried = rq[t].carried /\ r.until = rq[t].until
        /\ r.first = rq[t].first /\ r.dead = rq[t].dead
    BY <1>3 DEF Request
  <2>2. rq' = [rq EXCEPT ![t] = r]
    BY <1>1, <1>5 DEF Requests
  <2> HIDE DEF r
  <2>3. /\ Requests' /\ Answers' /\ Homebound(t)' /\ Quoted(t)'
        /\ \A u \in Thread \ {t} : rq'[u] = rq[u]
    BY <1>2, <1>5, <2>1, <2>2, TurnKeeps DEF client
  <2> QED
    BY <1>2, <1>4, <1>5, <2>3 DEF Ours, client
<1>6. CASE Continue(t, CountedAsDead(t))
  <2>1. /\ Requests' /\ Answers' /\ UNCHANGED answer /\ Homebound(t)' /\ Quoted(t)'
        /\ \A u \in Thread \ {t} : rq'[u] = rq[u]
    BY <1>1, <1>2, <1>6, DeadCounts, SkipKeeps DEF client
  <2> QED
    BY <1>2, <1>4, <2>1 DEF Ours, client
<1>7. CASE Continue(t, [rq[t] EXCEPT !.transient = TRUE])
  <2> DEFINE r == [rq[t] EXCEPT !.transient = TRUE]
  <2>1. /\ r \in Request /\ r.order = rq[t].order /\ r.i = rq[t].i /\ r.previous = rq[t].previous
        /\ r.carried = rq[t].carried /\ r.until = rq[t].until /\ r.first = rq[t].first /\ r.dead = rq[t].dead
    BY <1>3 DEF Request
  <2>2. Continue(t, r)
    BY <1>7
  <2> HIDE DEF r
  <2>3. /\ Requests' /\ Answers' /\ UNCHANGED answer /\ Homebound(t)' /\ Quoted(t)'
        /\ \A u \in Thread \ {t} : rq'[u] = rq[u]
    BY <1>1, <1>2, <2>1, <2>2, SkipKeeps DEF client
  <2> QED
    BY <1>2, <1>4, <2>3 DEF Ours, client
<1> QED
  BY <1>5, <1>6, <1>7 DEF Refresh

\* While a stated limit runs, an exhausted request is told to wait.
LEMMA WaitingIsTold ==
    ASSUME IInv, NEW t \in Thread, rq[t].pc = "exhausted", rq[t].until > now
    PROVE  Waiting(t) # {} /\ rq[t].first # None
<1>1. Requests /\ Tables /\ Rest /\ Quoted(t)
  BY Parts DEF IInv
<1>2. PICK k \in 1..Len(rq[t].order) :
           rq[t].order[k] \notin ToSet(rq[t].dead) /\ book[rq[t].order[k]].until >= rq[t].until
  BY <1>1 DEF Quoted
<1> DEFINE x == rq[t].order[k]
<1>3. x \in Acct /\ x \in ToSet(rq[t].order)
  BY <1>1 DEF Requests, Request, ToSet
<1>4. book[x].until > now
  BY <1>1, <1>2, <1>3, Numbers
<1> QED
  BY <1>1, <1>2, <1>3, <1>4 DEF Waiting, Limited, Quoted

\* What an exhausted request may be told.
LEMMA ExhaustedTells ==
    ASSUME IInv, NEW t \in Thread, Exhausted(t)
    PROVE  \E k \in Kinds, x \in OrNone(Acct \cup Nat) :
             Answer(t, k, x) /\ (rq[t].until > now => k = "wait")
<1>1. Requests /\ Tables /\ Rest
  BY Parts
<1>2. rq[t].pc = "exhausted" /\ rq[t] \in Request
  BY <1>1 DEF Exhausted, Requests
<1>3. CASE OutOfAccounts(t)
  <2>1. CASE Waiting(t) # {}
    <3>1. Wait(t)
      BY <1>3, <2>1 DEF OutOfAccounts
    <3>2. Resets(t) \subseteq Nat
      BY <1>1, <1>2, Numbers DEF Resets, Waiting, ToSet, Request
    <3> QED
      BY <3>1, <3>2, KindsNamed DEF Wait, OrNone
  <2>2. CASE Waiting(t) = {} /\ StoredDead(t) # {}
    <3>1. Relogin(t)
      BY <1>3, <2>2 DEF OutOfAccounts
    <3>2. PICK k \in StoredDead(t) : Answer(t, "relogin", rq[t].dead[k])
      BY <3>1 DEF Relogin
    <3>3. rq[t].dead[k] \in OrNone(Acct \cup Nat)
      BY <1>2, <3>2 DEF StoredDead, Request, OrNone
    <3> QED
      BY <1>2, <2>2, <3>2, <3>3, KindsNamed, WaitingIsTold
  <2>3. CASE Waiting(t) = {} /\ StoredDead(t) = {}
    BY <1>2, <1>3, <2>3, KindsNamed, WaitingIsTold DEF OutOfAccounts
  <2> QED
    BY <2>1, <2>2, <2>3
<1>4. CASE ~OutOfAccounts(t)
  <2>1. rq[t].first = None /\ (Answer(t, "transient", None) \/ Answer(t, "unavailable", None))
    BY <1>4 DEF Exhausted
  <2> QED
    BY <1>2, <2>1, KindsNamed, WaitingIsTold
<1> QED
  BY <1>3, <1>4

LEMMA ExhaustedKeeps == ASSUME IInv, NEW t \in Thread, Exhausted(t) PROVE Ours(t)
<1>1. Requests /\ Answers /\ Tables /\ Lanes /\ Rest
  BY Parts
<1>2. UNCHANGED <<now, store, quota, book, ranked, client, pointing, events>>
  BY DEF Exhausted
<1>3. Tables' /\ Lanes' /\ Rest' /\ Holds
  BY <1>1, <1>2, HoldsStill DEF Tables, Lanes, Rest, store, client, pointing
<1>4. /\ Requests' /\ Answers' /\ Homebound(t)' /\ Quoted(t)'
      /\ \A u \in Thread \ {t} : rq'[u] = rq[u] /\ answer'[u] = answer[u]
  BY <1>2, ExhaustedTells, AnsweredKeeps DEF client
<1> QED
  BY <1>2, <1>3, <1>4 DEF Ours, client, store

LEMMA OutOfQuotaKeeps == ASSUME IInv, NEW t \in Thread, OutOfQuota(t) PROVE Ours(t)
<1>1. Requests /\ Answers /\ Tables /\ Lanes /\ Rest /\ Quoted(t)
  BY Parts DEF IInv
<1>2. rq[t].pc = "send" /\ UNCHANGED <<now, store, quota, ranked, client, pointing, events>>
  BY DEF OutOfQuota, Transmit
<1>3. At(t) \in Acct /\ rq[t] \in Request /\ now \in Nat /\ now < quota[At(t)] /\ quota[At(t)] \in Nat
  BY <1>1, <1>2, AtType, Numbers DEF OutOfQuota, Transmit
<1>4. PICK stated \in BOOLEAN :
        LET until == IF stated THEN quota[At(t)] ELSE now + 1
            r == [rq[t] EXCEPT !.first = IF @ = None THEN At(t) ELSE @,
                               !.until = IF @ < until THEN until ELSE @]
        IN  /\ book' = MarkLimitedFor(book, At(t), until, stated)
            /\ IF pin[t] # None \/ (Midway(t) /\ ~Replay) THEN Answer(t, "429", None)
               ELSE Continue(t, r)
  BY DEF OutOfQuota
<1> DEFINE until == IF stated THEN quota[At(t)] ELSE now + 1
           r1 == [rq[t] EXCEPT !.first = IF @ = None THEN At(t) ELSE @]
           r  == [r1 EXCEPT !.until = IF @ < until THEN until ELSE @]
<1>5. until \in Nat /\ until > now
  BY <1>3
<1>6. /\ book' = MarkLimitedFor(book, At(t), until, stated)
      /\ Answer(t, "429", None) \/ Continue(t, r)
  BY <1>4
<1> HIDE DEF until
<1>7. /\ r1 \in Request /\ r1.order = rq[t].order /\ r1.i = rq[t].i /\ r1.previous = rq[t].previous
      /\ r1.carried = rq[t].carried /\ r1.until = rq[t].until /\ r1.dead = rq[t].dead /\ r1.first # None
  BY <1>3, CodexProxyAssumption DEF Request, OrNone
<1>8. /\ r \in Request /\ r.order = rq[t].order /\ r.i = rq[t].i /\ r.previous = rq[t].previous
      /\ r.carried = rq[t].carried /\ r.dead = rq[t].dead /\ r.first # None
      /\ r.until = IF rq[t].until < until THEN until ELSE rq[t].until
  BY <1>5, <1>7 DEF Request
<1> HIDE DEF r
<1>9. Holds /\ book'[At(t)].until >= until
  BY <1>1, <1>3, <1>5, <1>6, BookKeeps DEF Holds
<1>10. Tables' /\ Lanes' /\ Rest'
  BY <1>1, <1>2, <1>3, <1>5, <1>6, BookType DEF Tables, Lanes, Rest, store, client, pointing
<1>11. CASE Answer(t, "429", None)
  <2>1. /\ Requests' /\ Answers' /\ Homebound(t)' /\ Quoted(t)'
        /\ \A u \in Thread \ {t} : rq'[u] = rq[u] /\ answer'[u] = answer[u]
    BY <1>2, <1>11, AnsweredKeeps, KindsNamed DEF client
  <2> QED
    BY <1>2, <1>9, <1>10, <2>1 DEF Ours, client, store
<1>12. CASE Continue(t, r)
  <2>1. rq[t].i \in 1..Len(rq[t].order) /\ rq[t].i \in Nat /\ rq[t].until \in Nat
    BY <1>1, <1>2, Numbers DEF Requests
  <2>2. ASSUME rq[t].until > now
        PROVE  \E k \in 1..Len(rq[t].order) :
                  /\ k <= rq[t].i /\ rq[t].order[k] \notin ToSet(rq[t].dead)
                  /\ book'[rq[t].order[k]].until >= rq[t].until
    <3>1. PICK k \in 1..Len(rq[t].order) :
               /\ k < rq[t].i /\ rq[t].order[k] \notin ToSet(rq[t].dead)
               /\ book[rq[t].order[k]].until >= rq[t].until
      BY <1>1, <1>2, <2>2 DEF Quoted
    <3> DEFINE x == rq[t].order[k]
    <3>2. x \in Acct /\ book[x].until \in Nat /\ book'[x].until \in Nat
      <4>1. x \in Acct
        BY <1>3 DEF Request
      <4> QED
        BY <1>1, <1>10, <4>1 DEF Tables
    <3>3. book[x].until > now
      BY <1>3, <2>1, <2>2, <3>1, <3>2
    <3>4. book'[x].until >= book[x].until
      BY <1>9, <3>2, <3>3 DEF Holds
    <3> QED
      BY <2>1, <3>1, <3>2, <3>4
  <2>3. \A k \in rq[t].i..Len(rq[t].order) : rq[t].order[k] \notin ToSet(rq[t].dead)
    BY <1>1, <1>2 DEF Quoted
  <2>4. ASSUME r.until > now
        PROVE  \E k \in 1..Len(r.order) : /\ k <= r.i /\ r.order[k] \notin ToSet(r.dead)
                                           /\ book'[r.order[k]].until >= r.until
    <3>1. CASE rq[t].until < until
      <4>1. r.until = until /\ rq[t].order[rq[t].i] \notin ToSet(rq[t].dead) /\ book'[rq[t].order[rq[t].i]].until >= until
        BY <1>8, <1>9, <2>1, <2>3, <3>1 DEF At
      <4> QED
        BY <1>8, <2>1, <4>1
    <3>2. CASE ~(rq[t].until < until)
      <4>1. r.until = rq[t].until
        BY <1>8, <3>2
      <4> QED
        BY <1>8, <2>2, <2>4, <4>1
    <3> QED
      BY <3>1, <3>2
  <2>5. \A k \in (r.i + 1)..Len(r.order) : r.order[k] \notin ToSet(r.dead)
    <3>1. \A k \in (rq[t].i + 1)..Len(rq[t].order) : k \in rq[t].i..Len(rq[t].order)
      BY <2>1
    <3> QED
      BY <1>8, <2>3, <3>1
  <2>6. /\ Requests' /\ Answers' /\ UNCHANGED answer /\ Homebound(t)' /\ Quoted(t)'
        /\ \A u \in Thread \ {t} : rq'[u] = rq[u]
    <3>1. rq[t].pc # "idle" /\ now' = now /\ threads' = threads /\ sticky' = sticky
      BY <1>2 DEF client
    <3> QED
      BY <1>8, <1>12, <2>4, <2>5, <3>1, NextAttempt
  <2> QED
    BY <1>2, <1>9, <1>10, <2>6 DEF Ours, client, store
<1> QED
  BY <1>6, <1>11, <1>12

-----------------------------------------------------------------------------
(* Every step keeps the invariant *)

LEMMA InitHolds == ASSUME Init PROVE IInv
<1>1. Requests /\ Answers
  BY IdleType, KindsNamed DEF Init, Requests, Answers, Told
<1>2. Tables
  BY CodexProxyAssumption DEF Init, Tables, Later
<1>3. Lanes
  BY DEF Init, Lanes, OrNone, IsInjective
<1>4. Rest
  BY CodexProxyAssumption DEF Init, Rest, OrNone
<1>5. Pointing
  BY DEF Init, Pointing, PointerNamesAnAccount, OrNone
<1>6. \A t \in Thread : Homebound(t) /\ Quoted(t)
  BY IdleType, CodexProxyAssumption DEF Init, Homebound, Quoted
<1> QED
  BY <1>1, <1>2, <1>3, <1>4, <1>5, <1>6, TypeParts DEF IInv

LEMMA RequestingKeeps == ASSUME IInv, NEW t \in Thread, Requesting(t) PROVE IInv'
<1>1. Ours(t)
  BY AskKeeps, NoCredentialKeeps, UnreachableKeeps, StreamsKeeps, OutOfQuotaKeeps, FailsKeeps,
     UnauthorizedKeeps, RefreshKeeps, ExhaustedKeeps DEF Requesting
<1>2. TypeOK'
  BY <1>1, TypeParts DEF Ours, TypeOK, Requests, Answers, Tables, Lanes, Rest
<1>3. Pointing'
  BY <1>1 DEF IInv, Ours, Pointing, PointerNamesAnAccount, pointing
<1>4. ASSUME NEW u \in Thread PROVE Homebound(u)' /\ Quoted(u)'
  <2>1. CASE u = t
    BY <1>1, <2>1 DEF Ours
  <2>2. CASE u # t
    <3>1. now' >= now
      BY <1>1, Parts, Numbers DEF Ours
    <3> QED
      BY <1>1, <2>2, <3>1, Untouched DEF Ours
  <2> QED
    BY <2>1, <2>2
<1> QED
  BY <1>2, <1>3, <1>4 DEF IInv

\* What a step that is no request's leaves to show.
LEMMA AsideKeeps ==
    ASSUME IInv, UNCHANGED <<client, rq, answer>>, Tables', Lanes', Rest', Pointing', now' >= now, Holds
    PROVE  IInv'
<1>1. Requests /\ Answers
  BY Parts
<1>2. Requests' /\ Answers'
  BY <1>1 DEF Requests, Answers
<1>3. \A u \in Thread : Homebound(u)' /\ Quoted(u)'
  BY Untouched DEF client
<1>4. TypeOK'
  BY <1>2 DEF TypeOK, Requests, Answers, Tables, Lanes, Rest
<1> QED
  BY <1>3, <1>4 DEF IInv

LEMMA EvaluateKeeps == ASSUME IInv, Evaluate PROVE IInv'
<1>1. Requests /\ Tables /\ Lanes /\ Rest /\ Pointing
  BY Parts DEF IInv
<1>2. PICK order \in Orders, target \in rows \cup {None} : lane' = [target |-> target, order |-> order]
  BY DEF Evaluate
<1>3. UNCHANGED <<now, store, quota, book, ranked, client, rq, answer, serving, user, remover, doomed, events>>
  BY DEF Evaluate
<1>4. Lanes'
  BY <1>1, <1>2, <1>3, OrdersAreOrderings DEF Lanes, Rest, OrNone, Ordering
<1>5. Tables' /\ Rest'
  BY <1>1, <1>3 DEF Tables, Rest, store, client
<1>6. Pointing'
  BY <1>1, <1>2, <1>3 DEF Pointing, PointerNamesAnAccount, store
<1>7. now' >= now /\ Holds
  BY <1>1, <1>3, HoldsStill, Numbers
<1> QED
  BY <1>3, <1>4, <1>5, <1>6, <1>7, AsideKeeps

LEMMA RepointKeeps == ASSUME IInv, Repoint PROVE IInv'
<1>1. Requests /\ Tables /\ Lanes /\ Rest /\ Pointing
  BY Parts DEF IInv
<1>2. UNCHANGED <<now, store, quota, book, client, rq, answer, user, remover, doomed, events>>
  BY DEF Repoint
<1>3. lane # None /\ lane' = None /\ ranked' = lane.order /\ serving' \in {serving, lane.target}
  BY DEF Repoint
<1>4. lane.target \in OrNone(Acct) /\ lane.order \in Seq(Acct) /\ IsInjective(lane.order)
  BY <1>1, <1>3 DEF Lanes, OrNone
<1>5. Tables' /\ Lanes' /\ Rest'
  BY <1>1, <1>2, <1>3, <1>4 DEF Tables, Lanes, Rest, OrNone, store, client
<1>6. Pointing'
  BY <1>1, <1>2, <1>3 DEF Pointing, PointerNamesAnAccount, store
<1>7. now' >= now /\ Holds
  BY <1>1, <1>2, HoldsStill, Numbers
<1> QED
  BY <1>2, <1>5, <1>6, <1>7, AsideKeeps

LEMMA ExecuteKeeps == ASSUME IInv, Execute PROVE IInv'
<1>1. Requests /\ Tables /\ Lanes /\ Rest /\ Pointing
  BY Parts DEF IInv
<1>2. /\ UNCHANGED <<now, store, quota, book, ranked, client, rq, answer, lane, remover, doomed, events>>
      /\ serving' = user /\ user' = None
  BY DEF Execute
<1>3. Tables' /\ Lanes' /\ Rest'
  BY <1>1, <1>2 DEF Tables, Lanes, Rest, OrNone, store, client
<1>4. Pointing'
  BY <1>1, <1>2 DEF Pointing, PointerNamesAnAccount, store
<1>5. now' >= now /\ Holds
  BY <1>1, <1>2, HoldsStill, Numbers
<1> QED
  BY <1>2, <1>3, <1>4, <1>5, AsideKeeps

LEMMA ClearIfServingKeeps == ASSUME IInv, ClearIfServing PROVE IInv'
<1>1. Requests /\ Tables /\ Lanes /\ Rest /\ Pointing
  BY Parts DEF IInv
<1>2. /\ UNCHANGED <<now, store, quota, book, ranked, client, rq, answer, lane, user, doomed, events>>
      /\ serving' = (IF serving = remover THEN None ELSE serving) /\ remover' = None
  BY DEF ClearIfServing, Cleared
<1>3. Tables' /\ Lanes' /\ Rest'
  BY <1>1, <1>2 DEF Tables, Lanes, Rest, OrNone, store, client
<1>4. Pointing'
  BY <1>1, <1>2 DEF Pointing, PointerNamesAnAccount, store
<1>5. now' >= now /\ Holds
  BY <1>1, <1>2, HoldsStill, Numbers
<1> QED
  BY <1>2, <1>3, <1>4, <1>5, AsideKeeps

LEMMA ChooseKeeps == ASSUME IInv, NEW a \in Acct, Choose(a) PROVE IInv'
<1>1. Requests /\ Tables /\ Lanes /\ Rest /\ Pointing
  BY Parts DEF IInv
<1>2. /\ UNCHANGED <<now, store, quota, book, ranked, client, rq, answer, serving, lane, remover, doomed>>
      /\ user' = a /\ a \in rows /\ Happens
  BY DEF Choose
<1>3. Tables' /\ Lanes' /\ Rest'
  BY <1>1, <1>2, EventsType DEF Tables, Lanes, Rest, OrNone, store, client
<1>4. Pointing'
  BY <1>1, <1>2 DEF Pointing, PointerNamesAnAccount, store
<1>5. now' >= now /\ Holds
  BY <1>1, <1>2, HoldsStill, Numbers
<1> QED
  BY <1>2, <1>3, <1>4, <1>5, AsideKeeps

LEMMA RemoveAccountKeeps == ASSUME IInv, NEW a \in Acct, RemoveAccount(a) PROVE IInv'
<1>1. Requests /\ Tables /\ Lanes /\ Rest /\ Pointing
  BY Parts DEF IInv
<1>2. /\ UNCHANGED <<now, login, marked, quota, book, ranked, client, rq, answer, serving, lane, user>>
      /\ remover = None /\ rows' = rows \ {a} /\ remover' = a /\ Happens
      /\ doomed' = IF a = user \/ (lane # None /\ a = lane.target) THEN doomed \cup {a} ELSE doomed
  BY DEF RemoveAccount
<1>3. Tables' /\ Lanes' /\ Rest'
  BY <1>1, <1>2, EventsType DEF Tables, Lanes, Rest, OrNone, client
<1>4. Pointing'
  BY <1>1, <1>2 DEF Pointing, PointerNamesAnAccount
<1>5. now' >= now /\ Holds
  BY <1>1, <1>2, HoldsStill, Numbers
<1> QED
  BY <1>2, <1>3, <1>4, <1>5, AsideKeeps

LEMMA AddCodexKeeps == ASSUME IInv, NEW a \in Acct, AddCodex(a) PROVE IInv'
<1>1. Requests /\ Tables /\ Lanes /\ Rest /\ Pointing
  BY Parts DEF IInv
<1>2. /\ UNCHANGED <<now, quota, book, ranked, client, rq, answer, serving, lane, user, remover, events>>
      /\ rows' = rows \cup {a} /\ login' = [login EXCEPT ![a] = "good"] /\ marked' = marked \ {a}
      /\ doomed' = doomed \ {a}
  BY DEF AddCodex
<1>3. Tables' /\ Lanes' /\ Rest'
  BY <1>1, <1>2 DEF Tables, Lanes, Rest, client
<1>4. Pointing'
  BY <1>1, <1>2 DEF Pointing, PointerNamesAnAccount
<1>5. now' >= now /\ Holds
  BY <1>1, <1>2, HoldsStill, Numbers
<1> QED
  BY <1>2, <1>3, <1>4, <1>5, AsideKeeps

LEMMA PollLimitedKeeps == ASSUME IInv, NEW a \in Acct, PollLimited(a) PROVE IInv'
<1>1. Requests /\ Tables /\ Lanes /\ Rest /\ Pointing
  BY Parts DEF IInv
<1>2. /\ UNCHANGED <<now, store, quota, ranked, client, rq, answer, pointing>>
      /\ book' = MarkLimitedFor(book, a, now + 1, TRUE) /\ Happens
  BY DEF PollLimited
<1>3. now \in Nat /\ now + 1 \in Nat /\ now + 1 > now
  BY <1>1, Numbers
<1>4. Tables' /\ Lanes' /\ Rest'
  BY <1>1, <1>2, <1>3, EventsType, BookType DEF Tables, Lanes, Rest, store, client, pointing
<1>5. Pointing'
  BY <1>1, <1>2 DEF Pointing, PointerNamesAnAccount, store, pointing
<1>6. now' >= now /\ Holds
  <2> DEFINE until == now + 1
             known == TRUE
  <2>1. until \in Nat /\ until > now /\ known \in BOOLEAN /\ book' = MarkLimitedFor(book, a, until, known)
    BY <1>2, <1>3
  <2>2. now' = now
    BY <1>2
  <2> HIDE DEF until, known
  <2>3. Holds
    BY <1>1, <2>1, BookKeeps DEF Holds
  <2> QED
    BY <1>3, <2>2, <2>3
<1> QED
  BY <1>2, <1>4, <1>5, <1>6, AsideKeeps

\* The endpoint's own steps, and the clock's.
LEMMA WorldKeeps ==
    ASSUME IInv,
           \/ \E a \in Acct, how \in {"stale", "dead"} : Ends(a, how)
           \/ \E a \in Acct, until \in Later : Exhaust(a, until)
           \/ Tick
    PROVE  IInv'
<1>1. Requests /\ Tables /\ Lanes /\ Rest /\ Pointing
  BY Parts DEF IInv
<1>2. UNCHANGED <<rows, marked, book, ranked, client, rq, answer, pointing>>
  BY DEF Ends, Exhaust, Tick, store
<1>3. Tables'
  BY <1>1 DEF Ends, Exhaust, Tick, Tables, store
<1>4. now' >= now /\ now' \in 0..MaxNow /\ events' \in 0..MaxEvents
  BY <1>1, EventsType, CodexProxyAssumption DEF Ends, Exhaust, Tick, Rest
<1>5. Lanes' /\ Rest'
  BY <1>1, <1>2, <1>4 DEF Lanes, Rest, client, pointing
<1>6. Pointing'
  BY <1>1, <1>2 DEF Pointing, PointerNamesAnAccount, pointing
<1>7. Holds
  BY <1>2, HoldsStill
<1> QED
  BY <1>2, <1>3, <1>4, <1>5, <1>6, <1>7, AsideKeeps

LEMMA RestartKeeps == ASSUME IInv, Restart PROVE IInv'
<1>1. Requests /\ Tables /\ Lanes /\ Rest /\ Pointing
  BY Parts DEF IInv
<1>2. /\ UNCHANGED <<now, store, quota, pin, sticky, serving, user, remover, doomed>>
      /\ threads' = [t \in Thread |-> None] /\ ranked' = <<>> /\ lane' = None /\ Happens
      /\ book' = [a \in Acct |-> [until |-> 0, known |-> FALSE]]
      /\ rq' = [t \in Thread |-> Idle] /\ answer' = [t \in Thread |-> Told("none", None)]
  BY DEF Restart
<1>3. Requests' /\ Answers'
  BY <1>2, IdleType, KindsNamed DEF Requests, Answers, Told
<1>4. Tables' /\ Lanes' /\ Rest'
  BY <1>1, <1>2, EventsType DEF Tables, Lanes, Rest, OrNone, IsInjective, store
<1>5. Pointing'
  BY <1>1, <1>2 DEF Pointing, PointerNamesAnAccount, store
<1>6. \A t \in Thread : Homebound(t)' /\ Quoted(t)'
  <2>1. now' \in Nat
    BY <1>1, <1>2, Numbers
  <2> QED
    BY <1>2, <2>1, IdleType DEF Homebound, Quoted
<1>7. TypeOK'
  BY <1>3, <1>4 DEF TypeOK, Requests, Answers, Tables, Lanes, Rest
<1> QED
  BY <1>5, <1>6, <1>7 DEF IInv

LEMMA StepKeeps == ASSUME IInv, [Next]_vars PROVE IInv'
<1>1. CASE UNCHANGED vars
  <2>1. UNCHANGED <<client, rq, answer, now, store, quota, book, ranked, pointing, events>>
    BY <1>1 DEF vars
  <2>2. Requests /\ Tables /\ Lanes /\ Rest /\ Pointing
    BY Parts DEF IInv
  <2>3. Tables' /\ Lanes' /\ Rest' /\ Pointing'
    BY <2>1, <2>2 DEF Tables, Lanes, Rest, Pointing, PointerNamesAnAccount, store, client, pointing
  <2>4. now' >= now /\ Holds
    BY <2>1, <2>2, HoldsStill, Numbers
  <2> QED
    BY <2>1, <2>3, <2>4, AsideKeeps
<1>2. CASE \E t \in Thread : Requesting(t)
  BY <1>2, RequestingKeeps
<1>3. CASE Evaluate \/ Repoint \/ Execute \/ ClearIfServing
  BY <1>3, EvaluateKeeps, RepointKeeps, ExecuteKeeps, ClearIfServingKeeps
<1>4. CASE Restart
  BY <1>4, RestartKeeps
<1>5. CASE \E a \in Acct : PollLimited(a) \/ Choose(a) \/ RemoveAccount(a) \/ AddCodex(a)
  BY <1>5, PollLimitedKeeps, ChooseKeeps, RemoveAccountKeeps, AddCodexKeeps
<1>6. CASE \/ \E a \in Acct, how \in {"stale", "dead"} : Ends(a, how)
           \/ \E a \in Acct, until \in Later : Exhaust(a, until)
           \/ Tick
  BY <1>6, WorldKeeps
<1> QED
  BY <1>1, <1>2, <1>3, <1>4, <1>5, <1>6 DEF Next, Requesting

LEMMA Invariance == Spec => []IInv
BY InitHolds, StepKeeps, PTL DEF Spec

-----------------------------------------------------------------------------
(* What a step tells *)

\* What AnswersHonestly asks of thread t.
Honest(t) ==
    /\ rq[t].until > now => answer'[t].kind \notin {"failed", "relogin", "unavailable", "transient"}
    /\ Len(rq'[t].dead) > Len(rq[t].dead) => At(t) \notin rows \/ login[At(t)] = "dead"

\* A thread whose request is not touched is told nothing.
LEMMA SilenceIsHonest ==
    ASSUME IInv, NEW t \in Thread, rq'[t].dead = rq[t].dead \/ rq'[t] = Idle,
           answer'[t].kind \in {"none", answer[t].kind}
    PROVE  Honest(t)
<1>1. Quoted(t) /\ Requests /\ Tables /\ Rest
  BY Parts DEF IInv
<1>2. rq[t].until \in Nat /\ now \in Nat /\ Len(rq[t].dead) \in Nat
  BY <1>1, Numbers DEF Requests, Request
<1>3. Len(rq'[t].dead) <= Len(rq[t].dead)
  BY <1>2, IdleType
<1>4. rq[t].until > now => answer[t].kind = "none"
  BY <1>1, <1>2 DEF Quoted
<1> QED
  BY <1>2, <1>3, <1>4 DEF Honest

\* So is one that is told of the endpoint's answer, or to wait.
LEMMA TellingIsHonest ==
    ASSUME IInv, NEW t \in Thread, NEW k \in Kinds, NEW x \in OrNone(Acct \cup Nat), Answer(t, k, x),
           rq[t].until > now => k \notin {"failed", "relogin", "unavailable", "transient"}
    PROVE  Honest(t)
<1>1. Requests /\ Answers
  BY Parts
<1>2. rq'[t] = Idle /\ answer'[t].kind = k
  BY <1>1, AnswerEnds
<1>3. Len(rq[t].dead) \in Nat /\ Len(rq'[t].dead) = 0
  BY <1>1, <1>2, IdleType DEF Requests, Request
<1> QED
  BY <1>2, <1>3 DEF Honest

\* A request that goes on to the next account counts this one as dead, or none.
LEMMA GoingOnIsHonest ==
    ASSUME IInv, NEW t \in Thread, rq[t].pc # "idle", NEW r \in Request, Continue(t, r),
           r.order = rq[t].order, r.i = rq[t].i,
           r.dead = rq[t].dead \/ At(t) \notin rows \/ login[At(t)] = "dead"
    PROVE  Honest(t)
<1>1. Requests /\ Answers /\ Quoted(t)
  BY Parts DEF IInv
<1>2. IsInjective(r.order) /\ r.i \in 1..Len(r.order)
  BY <1>1 DEF Requests
<1>3. /\ UNCHANGED answer
      /\ \/ rq'[t] = [r EXCEPT !.i = r.i + 1, !.pc = "send"]
         \/ rq'[t] = [r EXCEPT !.pc = "exhausted"]
  BY <1>1, <1>2, ContinueGoesOn
<1>4. rq'[t].dead = r.dead
  BY <1>3 DEF Request
<1>5. answer'[t].kind = "none"
  BY <1>1, <1>3 DEF Quoted
<1>6. Len(rq[t].dead) \in Nat
  BY <1>1 DEF Requests, Request
<1> QED
  BY <1>4, <1>5, <1>6 DEF Honest

LEMMA RequestingIsHonest == ASSUME IInv, NEW t \in Thread, Requesting(t) PROVE Honest(t)
<1>1. Requests /\ Answers /\ Tables /\ Rest /\ Quoted(t) /\ None \in OrNone(Acct \cup Nat)
  BY Parts, KindsNamed DEF IInv
<1>2. CASE Ask(t)
  <2>1. rq[t].until = 0 /\ now \in Nat /\ Len(rq[t].dead) \in Nat
    BY <1>1, <1>2, Numbers DEF Ask, Quoted, Requests, Request
  <2>2. PICK order \in Order(t), carried \in {None, sticky[t]} :
          \/ rq' = [rq EXCEPT ![t] = Idle]
          \/ rq' = [rq EXCEPT ![t] = [Idle EXCEPT !.pc = "send", !.order = order,
                                      !.previous = threads[t], !.carried = carried]]
    BY <1>2 DEF Ask, Answer
  <2>3. rq'[t].dead = <<>>
    BY <1>1, <2>2, IdleType DEF Requests, Idle
  <2> QED
    BY <2>1, <2>3 DEF Honest
<1>3. CASE NoCredential(t)
  BY <1>1, <1>3, DeadCounts, GoingOnIsHonest DEF NoCredential, HasCredential
<1>4. CASE Unreachable(t)
  <2> DEFINE r == [rq[t] EXCEPT !.unreachable = TRUE]
  <2>1. r \in Request /\ r.order = rq[t].order /\ r.i = rq[t].i /\ r.dead = rq[t].dead
    BY <1>1 DEF Requests, Request
  <2>2. rq[t].pc # "idle" /\ Continue(t, r)
    BY <1>4 DEF Unreachable, Transmit
  <2> HIDE DEF r
  <2> QED
    BY <2>1, <2>2, GoingOnIsHonest
<1>5. CASE Streams(t)
  BY <1>1, <1>5, KindsNamed, TellingIsHonest DEF Streams
<1>6. CASE OutOfQuota(t)
  <2>1. PICK r : /\ r \in Request /\ r.order = rq[t].order /\ r.i = rq[t].i /\ r.dead = rq[t].dead
                 /\ Answer(t, "429", None) \/ Continue(t, r)
    <3>1. PICK stated \in BOOLEAN :
            LET until == IF stated THEN quota[At(t)] ELSE now + 1
                r == [rq[t] EXCEPT !.first = IF @ = None THEN At(t) ELSE @,
                                   !.until = IF @ < until THEN until ELSE @]
            IN  Answer(t, "429", None) \/ Continue(t, r)
      BY <1>6 DEF OutOfQuota
    <3> DEFINE until == IF stated THEN quota[At(t)] ELSE now + 1
               r1 == [rq[t] EXCEPT !.first = IF @ = None THEN At(t) ELSE @]
               r2 == [r1 EXCEPT !.until = IF @ < until THEN until ELSE @]
    <3>2. rq[t].pc # "idle"
      BY <1>6 DEF OutOfQuota, Transmit
    <3>3. At(t) \in Acct /\ until \in Nat
      BY <1>1, <3>2, AtType, Numbers
    <3> HIDE DEF until
    <3>4. r1 \in Request /\ r1.order = rq[t].order /\ r1.i = rq[t].i /\ r1.dead = rq[t].dead
      BY <1>1, <3>3 DEF Requests, Request, OrNone
    <3> HIDE DEF r1
    <3>5. r2 \in Request /\ r2.order = rq[t].order /\ r2.i = rq[t].i /\ r2.dead = rq[t].dead
      BY <3>3, <3>4 DEF Request
    <3>6. Answer(t, "429", None) \/ Continue(t, r2)
      BY <3>1 DEF r1, until
    <3> QED
      BY <3>5, <3>6
  <2>2. rq[t].pc # "idle"
    BY <1>6 DEF OutOfQuota, Transmit
  <2>3. CASE Answer(t, "429", None)
    BY <1>1, <2>3, KindsNamed, TellingIsHonest
  <2>4. CASE Continue(t, r)
    BY <2>1, <2>2, <2>4, GoingOnIsHonest
  <2> QED
    BY <2>1, <2>3, <2>4
<1>7. CASE Fails(t)
  <2>1. rq[t].until > now => rq[t].first # None
    BY <1>1 DEF Quoted
  <2>2. CASE Answer(t, "429", None)
    BY <1>1, <2>2, KindsNamed, TellingIsHonest
  <2>3. CASE rq[t].first = None /\ Answer(t, "failed", None)
    BY <1>1, <2>1, <2>3, KindsNamed, TellingIsHonest
  <2> QED
    BY <1>7, <2>2, <2>3 DEF Fails
<1>8. CASE Unauthorized(t)
  <2>1. CASE Answer(t, "401", None)
    BY <1>1, <2>1, KindsNamed, TellingIsHonest
  <2>2. CASE rq' = [rq EXCEPT ![t].pc = "refresh", ![t].refreshed = TRUE] /\ UNCHANGED answer
    <3>1. rq'[t].dead = rq[t].dead
      BY <1>1, <2>2 DEF Requests, Request
    <3> QED
      BY <2>2, <3>1, SilenceIsHonest
  <2> QED
    BY <1>8, <2>1, <2>2 DEF Unauthorized
<1>9. CASE Refresh(t)
  <2>1. rq[t].pc # "idle"
    BY <1>9 DEF Refresh
  <2>2. CASE rq' = [rq EXCEPT ![t].pc = "send"] /\ UNCHANGED answer
    <3>1. rq'[t].dead = rq[t].dead
      BY <1>1, <2>2 DEF Requests, Request
    <3> QED
      BY <2>2, <3>1, SilenceIsHonest
  <2>3. CASE login[At(t)] = "dead" /\ Continue(t, CountedAsDead(t))
    BY <1>1, <2>1, <2>3, DeadCounts, GoingOnIsHonest
  <2>4. CASE Continue(t, [rq[t] EXCEPT !.transient = TRUE])
    <3> DEFINE r == [rq[t] EXCEPT !.transient = TRUE]
    <3>1. r \in Request /\ r.order = rq[t].order /\ r.i = rq[t].i /\ r.dead = rq[t].dead
      BY <1>1 DEF Requests, Request
    <3>2. Continue(t, r)
      BY <2>4
    <3> HIDE DEF r
    <3> QED
      BY <2>1, <3>1, <3>2, GoingOnIsHonest
  <2> QED
    BY <1>9, <2>2, <2>3, <2>4 DEF Refresh
<1>10. CASE Exhausted(t)
  <2>1. PICK k \in Kinds, x \in OrNone(Acct \cup Nat) :
          Answer(t, k, x) /\ (rq[t].until > now => k = "wait")
    BY <1>10, ExhaustedTells
  <2> QED
    BY <2>1, TellingIsHonest
<1> QED
  BY <1>2, <1>3, <1>4, <1>5, <1>6, <1>7, <1>8, <1>9, <1>10 DEF Requesting

LEMMA StepIsHonest == ASSUME IInv, [Next]_vars PROVE [AnswersHonestly]_vars
<1>1. ASSUME NEW t \in Thread, NEW u \in Thread, Requesting(u)
      PROVE  Honest(t)
  <2>1. CASE t = u
    BY <1>1, <2>1, RequestingIsHonest
  <2>2. CASE t # u
    <3>1. Ours(u)
      BY <1>1, AskKeeps, NoCredentialKeeps, UnreachableKeeps, StreamsKeeps, OutOfQuotaKeeps, FailsKeeps,
         UnauthorizedKeeps, RefreshKeeps, ExhaustedKeeps DEF Requesting
    <3> QED
      BY <2>2, <3>1, SilenceIsHonest DEF Ours
  <2> QED
    BY <2>1, <2>2
<1>2. ASSUME NEW t \in Thread, UNCHANGED <<rq, answer>>
      PROVE  Honest(t)
  BY <1>2, SilenceIsHonest
<1>3. ASSUME NEW t \in Thread, Restart
      PROVE  Honest(t)
  <2>1. rq'[t] = Idle /\ answer'[t].kind = "none"
    BY <1>3 DEF Restart, Told
  <2> QED
    BY <2>1, SilenceIsHonest
<1>4. \/ \E u \in Thread : Requesting(u)
      \/ UNCHANGED <<rq, answer>>
      \/ Restart
  BY DEF Next, Requesting, vars, Evaluate, Repoint, Execute, ClearIfServing, Tick, PollLimited, Choose,
         RemoveAccount, AddCodex, Ends, Exhaust
<1>5. \A t \in Thread : Honest(t)
  BY <1>1, <1>2, <1>3, <1>4
<1> QED
  BY <1>5 DEF AnswersHonestly, Honest

-----------------------------------------------------------------------------
(* The theorems *)

\* The proxy's variables have their types: a request under way is at a place of
\* its order, which names no account twice (forward.go 93, Order).
THEOREM ProxyTypes == Spec => []TypeOK
<1>1. IInv => TypeOK
  BY DEF IInv
<1> QED
  BY <1>1, Invariance, PTL

\* No account is sent a turn state that another account issued (forward.go 154).
THEOREM StateStaysHome == Spec => []TurnStateStaysHome
<1>1. ASSUME IInv PROVE TurnStateStaysHome
  <2>1. ASSUME NEW t \in Thread, Transmit(t), ~StripTurnState(t)
        PROVE  rq[t].carried \in {None, At(t)}
    <3>1. Requests /\ Homebound(t)
      BY <1>1, Parts DEF IInv
    <3>2. At(t) \in Acct /\ rq[t].previous = At(t) /\ rq[t].pc # "idle"
      BY <2>1, <3>1, AtType DEF Transmit, StripTurnState
    <3> QED
      BY <3>1, <3>2, CodexProxyAssumption DEF Homebound
  <2> QED
    BY <2>1 DEF TurnStateStaysHome
<1> QED
  BY <1>1, Invariance, PTL

\* What a request is told is the case, for any number of accounts and threads and
\* however the book, the store and the lane move in between (outofaccounts.go).
THEOREM Honesty == Spec => AnswersAreHonest
<1>1. IInv /\ [Next]_vars => [AnswersHonestly]_vars
  BY StepIsHonest
<1> QED
  BY <1>1, Invariance, PTL DEF Spec, AnswersAreHonest

\* The pointer names a stored account, whatever the order of the three writers
\* (remove.go 131).
THEOREM PointerIsNamed == Spec => []PointerNamesAnAccount
<1>1. IInv => PointerNamesAnAccount
  BY DEF IInv, Pointing
<1> QED
  BY <1>1, Invariance, PTL

=============================================================================
