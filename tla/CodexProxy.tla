----------------------------- MODULE CodexProxy -----------------------------
(***************************************************************************)
(* The Codex proxy (codexproxy) between codex and the endpoint: which stored *)
(* account a request is tried on, what it is told when none can serve it,   *)
(* and the file naming the account tried first (codexswitch), which the     *)
(* daemon's lane, `ccdad switch` and `ccdad remove` write behind its back.  *)
(* A unit of time is unknownLimitFor.                                       *)
(***************************************************************************)
EXTENDS Naturals, Sequences, SequencesExt, FiniteSets

CONSTANTS
    Acct, None,
    Thread, Pins,   \* codex's conversations; what they may be launched for: an account, or None
    Replay,         \* codex.cross_account_replay
    MaxNow,         \* the clock
    MaxEvents       \* how often a login or a quota ends, and a call fails

ASSUME CodexProxyAssumption ==
    /\ IsFiniteSet(Acct) /\ None \notin Acct /\ Pins \subseteq Acct \cup {None}
    /\ Replay \in BOOLEAN /\ MaxNow \in Nat /\ MaxEvents \in Nat

VARIABLES
    now,
    rows,           \* the accounts of the store
    login,          \* what the endpoint makes of an account's tokens
    marked,         \* the accounts whose stored login is recorded as refused
    quota,          \* the endpoint: until when an account has used it up
    book,           \* LimitBook: until when ccdad takes it to have, and is that known
    serving,        \* the serving pointer
    ranked,         \* codexRankedUUIDs, of the lane's last tick
    pin,            \* the account each thread was launched for, or None
    threads,        \* the account that last answered a thread
    sticky,         \* codex: the account that issued the thread's turn state
    rq, answer,     \* the request of each thread; what its last one was told
    lane, user, remover,    \* a lane's tick, a `ccdad switch` and a `ccdad remove` in flight
    doomed,         \* history: the accounts removed after someone chose them
    events

store == <<rows, login, marked>>
client == <<pin, threads, sticky>>
pointing == <<serving, lane, user, remover, doomed>>
vars == <<now, store, quota, book, ranked, client, rq, answer, pointing, events>>

Idle == [pc |-> "idle", order |-> <<>>, i |-> 1, previous |-> None, carried |-> None,
         first |-> None, dead |-> <<>>, unreachable |-> FALSE, transient |-> FALSE,
         refreshed |-> FALSE, until |-> 0]
Told(k, x) == [kind |-> k, about |-> x]
Orders == {o \in SeqOf(Acct, Cardinality(Acct)) : IsInjective(o)}
Kinds == {"none", "ok", "429", "401", "failed", "wait", "relogin", "transient", "unavailable"}
Later == 0..(MaxNow + 1)
OrNone(S) == S \cup {None}

Request ==
    [pc : {"idle", "send", "refresh", "exhausted"}, order : Seq(Acct), i : Nat,
     previous : OrNone(Acct), carried : OrNone(Acct), first : OrNone(Acct), dead : Seq(Acct),
     unreachable : BOOLEAN, transient : BOOLEAN, refreshed : BOOLEAN, until : Nat]

TypeOK ==
    /\ now \in 0..MaxNow /\ events \in 0..MaxEvents
    /\ rows \subseteq Acct /\ marked \subseteq Acct /\ doomed \subseteq Acct
    /\ login \in [Acct -> {"good", "stale", "dead"}]
    /\ quota \in [Acct -> Later] /\ book \in [Acct -> [until : Nat, known : BOOLEAN]]
    /\ serving \in OrNone(Acct) /\ user \in OrNone(Acct) /\ remover \in OrNone(Acct)
    /\ ranked \in Seq(Acct) /\ IsInjective(ranked)
    /\ lane \in OrNone([target : OrNone(Acct), order : Seq(Acct)])
    /\ lane # None => IsInjective(lane.order)
    /\ pin \in [Thread -> Pins]
    /\ threads \in [Thread -> OrNone(Acct)] /\ sticky \in [Thread -> OrNone(Acct)]
    /\ rq \in [Thread -> Request]
    /\ \A t \in Thread : /\ IsInjective(rq[t].order)
                         /\ rq[t].pc # "idle" => rq[t].i \in 1..Len(rq[t].order)
    /\ answer \in [Thread -> [kind : Kinds, about : OrNone(Acct \cup Nat)]]

Init ==
    /\ now = 0 /\ events = 0
    /\ rows = Acct /\ login = [a \in Acct |-> "good"] /\ marked = {}
    /\ quota = [a \in Acct |-> 0] /\ book = [a \in Acct |-> [until |-> 0, known |-> FALSE]]
    /\ serving \in Acct \cup {None} /\ ranked = <<>>
    /\ pin \in [Thread -> Pins]
    /\ threads = [t \in Thread |-> None] /\ sticky = threads
    /\ rq = [t \in Thread |-> Idle] /\ answer = [t \in Thread |-> Told("none", None)]
    /\ lane = None /\ user = None /\ remover = None
    /\ doomed = {}

Happens == events < MaxEvents /\ events' = events + 1

-----------------------------------------------------------------------------
(* The limit book. *)

Limited(a) == now < book[a].until
Known(a) == Limited(a) /\ book[a].known

\* The later instant wins.
MarkLimitedFor(b, a, until, known) ==
    IF now < b[a].until /\ until < b[a].until THEN b
    ELSE [b EXCEPT ![a] = [until |-> until, known |-> known]]

-----------------------------------------------------------------------------
(* Choosing. *)

\* rankedEligible: the lane's order, or what the store can serve from.
RankedEligible ==
    IF ranked # <<>> THEN {ranked}
    ELSE {o \in Orders : ToSet(o) = rows \ marked}

LeadTwice(a, order) == <<a>> \o order

\* a first, the others in their order.
Lead(a, order) ==
    LET n == Len(order)
        p == IF a \in ToSet(order) THEN CHOOSE k \in 1..n : order[k] = a ELSE n + 1
    IN [k \in 1..(IF p > n THEN p ELSE n) |->
           IF k = 1 THEN a ELSE IF k <= p THEN order[k - 1] ELSE order[k]]

Order(t) ==
    IF pin[t] # None THEN {<<pin[t]>>}
    ELSE IF serving \in rows THEN {Lead(serving, o) : o \in RankedEligible}
    ELSE IF threads[t] \in rows THEN {Lead(threads[t], o) : o \in RankedEligible}
    ELSE RankedEligible

Answer(t, k, x) ==
    /\ answer' = [answer EXCEPT ![t] = Told(k, x)]
    /\ rq' = [rq EXCEPT ![t] = Idle]

\* codex asks, in a new turn or with the turn state it holds.
Ask(t) ==
    /\ rq[t].pc = "idle"
    /\ \E order \in Order(t), carried \in {None, sticky[t]} :
        IF order = <<>> THEN Answer(t, "unavailable", None)
        ELSE /\ rq' = [rq EXCEPT ![t] = [Idle EXCEPT !.pc = "send", !.order = order,
                                         !.previous = threads[t], !.carried = carried]]
             /\ answer' = [answer EXCEPT ![t] = Told("none", None)]
    /\ UNCHANGED <<now, store, quota, book, ranked, client, pointing, events>>

-----------------------------------------------------------------------------
(* One attempt. *)

At(t) == rq[t].order[rq[t].i]
Midway(t) == rq[t].previous # None
HasCredential(a) == a \in rows

\* The next account of the order, the request's record being r.
Continue(t, r) ==
    /\ rq' = [rq EXCEPT ![t] = IF r.i < Len(r.order) THEN [r EXCEPT !.i = @ + 1, !.pc = "send"]
                               ELSE [r EXCEPT !.pc = "exhausted"]]
    /\ UNCHANGED answer

StripTurnStateOnReplay(t) == rq[t].i > 1
StripTurnState(t) == rq[t].i > 1 \/ rq[t].previous # At(t)

Transmit(t) == rq[t].pc = "send" /\ HasCredential(At(t))

CountedAsDead(t) == [rq[t] EXCEPT !.dead = Append(@, At(t))]

\* errNoCredential.
NoCredential(t) ==
    /\ rq[t].pc = "send" /\ ~HasCredential(At(t))
    /\ Continue(t, CountedAsDead(t))
    /\ UNCHANGED <<now, store, quota, book, ranked, client, pointing, events>>

\* The call fails on the way.
Unreachable(t) ==
    /\ Transmit(t) /\ Happens
    /\ Continue(t, [rq[t] EXCEPT !.unreachable = TRUE])
    /\ UNCHANGED <<now, store, quota, book, ranked, client, pointing>>

\* A response: the thread is remembered before a byte of it is passed on.
Streams(t) ==
    /\ Transmit(t) /\ login[At(t)] = "good" /\ quota[At(t)] <= now
    /\ threads' = [threads EXCEPT ![t] = At(t)]
    /\ UNCHANGED pin
    /\ sticky' = [sticky EXCEPT ![t] = At(t)]
    /\ Answer(t, "ok", None)
    /\ UNCHANGED <<now, store, quota, book, ranked, pointing, events>>

\* 429, which states its instant or not (recordLimit).
OutOfQuota(t) ==
    /\ Transmit(t) /\ login[At(t)] = "good" /\ now < quota[At(t)]
    /\ \E stated \in BOOLEAN :
        LET until == IF stated THEN quota[At(t)] ELSE now + 1
            r == [rq[t] EXCEPT !.first = IF @ = None THEN At(t) ELSE @,
                               !.until = IF @ < until THEN until ELSE @]
        IN  /\ book' = MarkLimitedFor(book, At(t), until, stated)
            /\ IF pin[t] # None \/ (Midway(t) /\ ~Replay) THEN Answer(t, "429", None)
               ELSE Continue(t, r)
    /\ UNCHANGED <<now, store, quota, ranked, client, pointing, events>>

\* Another status answers, or the first 429 does.
Fails(t) ==
    /\ Transmit(t) /\ Happens
    /\ IF rq[t].first # None THEN Answer(t, "429", None) ELSE Answer(t, "failed", None)
    /\ UNCHANGED <<now, store, quota, book, ranked, client, pointing>>

\* 401: one refresh for the whole request, after which a 401 is an answer.
Unauthorized(t) ==
    /\ Transmit(t) /\ login[At(t)] # "good"
    /\ IF rq[t].refreshed THEN Answer(t, "401", None)
       ELSE /\ rq' = [rq EXCEPT ![t].pc = "refresh", ![t].refreshed = TRUE]
            /\ UNCHANGED answer
    /\ UNCHANGED <<now, store, quota, book, ranked, client, pointing, events>>

\* The refresh (codexauth.Refresh) rotates, adopts what someone else has rotated,
\* is refused for good, or settles nothing.
Refresh(t) ==
    LET a == At(t)
        terminal == HasCredential(a) /\ login[a] = "dead"
        settles == HasCredential(a) /\ login[a] # "dead"
    IN  /\ rq[t].pc = "refresh"
        /\ \/ /\ settles
              /\ login' = [login EXCEPT ![a] = "good"]
              /\ rq' = [rq EXCEPT ![t].pc = "send"]
              /\ UNCHANGED <<answer, marked, events>>
           \/ /\ terminal
              /\ marked' = marked \cup {a}
              /\ Continue(t, CountedAsDead(t))
              /\ UNCHANGED <<login, events>>
           \/ /\ IF HasCredential(a) THEN Happens ELSE UNCHANGED events
              /\ Continue(t, [rq[t] EXCEPT !.transient = TRUE])
              /\ UNCHANGED <<login, marked>>
        /\ UNCHANGED <<now, rows, quota, book, ranked, client, pointing>>

-----------------------------------------------------------------------------
(* No account could serve the request. *)

Waiting(t) == {a \in ToSet(rq[t].order) : Limited(a) /\ a \notin ToSet(rq[t].dead)}
Resets(t) == {book[a].until : a \in {x \in Waiting(t) : Known(x)}}
\* The earliest of the instants that were stated, if any was.
Wait(t) ==
    IF Resets(t) = {} THEN Answer(t, "wait", None)
    ELSE \E x \in Resets(t) : (\A y \in Resets(t) : x <= y) /\ Answer(t, "wait", x)

\* The accounts that need a login and are still stored, by their place.
StoredDead(t) == {k \in DOMAIN rq[t].dead : rq[t].dead[k] \in rows}
Relogin(t) ==
    \E k \in StoredDead(t) : (\A j \in StoredDead(t) : k <= j) /\ Answer(t, "relogin", rq[t].dead[k])

OutOfAccountsDeadFirst(t) ==
    IF StoredDead(t) # {} THEN Relogin(t)
    ELSE IF Waiting(t) # {} THEN Wait(t)
    ELSE Answer(t, "unavailable", None)

\* outOfAccounts.
OutOfAccounts(t) ==
    IF Waiting(t) # {} THEN Wait(t)
    ELSE IF StoredDead(t) # {} THEN Relogin(t)
    ELSE Answer(t, "unavailable", None)

Exhausted(t) ==
    /\ rq[t].pc = "exhausted"
    /\ IF rq[t].first = None /\ rq[t].dead = <<>> /\ rq[t].transient THEN Answer(t, "transient", None)
       ELSE IF rq[t].first = None /\ rq[t].dead = <<>> /\ rq[t].unreachable
            THEN Answer(t, "unavailable", None)
       ELSE OutOfAccounts(t)
    /\ UNCHANGED <<now, store, quota, book, ranked, client, pointing, events>>

-----------------------------------------------------------------------------
(* The writers of the pointer.  Each chooses an account first. *)

\* EvaluateCodex over what codexCandidates leaves; strategy.Decide's choice is
\* any of them, or none.
Evaluate ==
    /\ lane = None
    /\ LET cands == {a \in rows \ marked : ~Limited(a) \/ a = serving}
       IN  \E order \in {o \in Orders : ToSet(o) = cands}, target \in (cands \ {serving}) \cup {None} :
            lane' = [target |-> target, order |-> order]
    /\ UNCHANGED <<now, store, quota, book, ranked, client, rq, answer, serving, user, remover, doomed, events>>

\* codexTick moves the pointer (Execute) and hands its order to the proxy.
Repoint ==
    /\ lane # None
    /\ serving' = IF lane.target = None THEN serving ELSE lane.target
    /\ ranked' = lane.order
    /\ lane' = None
    /\ UNCHANGED <<now, store, quota, book, client, rq, answer, user, remover, doomed, events>>

\* A poll's 429 that states no instant: codexFailure enters the wait the poll policy has chosen.
PollLimited(a) ==
    /\ HasCredential(a) /\ Happens
    /\ book' = MarkLimitedFor(book, a, now + 1, TRUE)
    /\ UNCHANGED <<now, store, quota, ranked, client, rq, answer, pointing>>

\* `ccdad switch`.
Choose(a) ==
    /\ user = None /\ a \in rows \ {serving} /\ Happens
    /\ user' = a
    /\ UNCHANGED <<now, store, quota, book, ranked, client, rq, answer, serving, lane, remover, doomed>>

Execute ==
    /\ user # None
    /\ serving' = user /\ user' = None
    /\ UNCHANGED <<now, store, quota, book, ranked, client, rq, answer, lane, remover, doomed, events>>

\* `ccdad remove` deletes the row, and then asks whether the pointer names it.
RemoveAccount(a) ==
    /\ remover = None /\ a \in rows /\ Happens
    /\ rows' = rows \ {a} /\ remover' = a
    /\ doomed' = IF a = user \/ (lane # None /\ a = lane.target) THEN doomed \cup {a} ELSE doomed
    /\ UNCHANGED <<now, login, marked, quota, book, ranked, client, rq, answer, serving, lane, user>>

ClearedIfStored == IF serving = remover /\ remover \in rows THEN None ELSE serving
Cleared == IF serving = remover THEN None ELSE serving

ClearIfServing ==
    /\ remover # None
    /\ serving' = Cleared /\ remover' = None
    /\ UNCHANGED <<now, store, quota, book, ranked, client, rq, answer, lane, user, doomed, events>>

-----------------------------------------------------------------------------
(* The world. *)

\* `ccdad add codex`, again or for the first time.
AddCodex(a) ==
    /\ a \notin rows \/ login[a] # "good"
    /\ rows' = rows \cup {a} /\ login' = [login EXCEPT ![a] = "good"] /\ marked' = marked \ {a}
    /\ doomed' = doomed \ {a}
    /\ UNCHANGED <<now, quota, book, ranked, client, rq, answer, serving, lane, user, remover, events>>

\* An access token expires, or a grant is revoked.
Ends(a, how) ==
    /\ login[a] = "good" /\ Happens
    /\ login' = [login EXCEPT ![a] = how]
    /\ UNCHANGED <<now, rows, marked, quota, book, ranked, client, rq, answer, pointing>>

Exhaust(a, until) ==
    /\ quota[a] <= now /\ now < until /\ Happens
    /\ quota' = [quota EXCEPT ![a] = until]
    /\ UNCHANGED <<now, store, book, ranked, client, rq, answer, pointing>>

Tick ==
    /\ now < MaxNow /\ now' = now + 1
    /\ UNCHANGED <<store, quota, book, ranked, client, rq, answer, pointing, events>>

\* The daemon is replaced: its memory and the requests under way are gone.
Restart ==
    /\ Happens
    /\ threads' = [t \in Thread |-> None] /\ ranked' = <<>>
    /\ book' = [a \in Acct |-> [until |-> 0, known |-> FALSE]]
    /\ rq' = [t \in Thread |-> Idle] /\ answer' = [t \in Thread |-> Told("none", None)]
    /\ lane' = None
    /\ UNCHANGED <<now, store, quota, pin, sticky, serving, user, remover, doomed>>

Next ==
    \/ \E t \in Thread :
        \/ Ask(t) \/ NoCredential(t) \/ Unreachable(t) \/ Streams(t) \/ OutOfQuota(t)
        \/ Fails(t) \/ Unauthorized(t) \/ Refresh(t) \/ Exhausted(t)
    \/ Evaluate \/ Repoint \/ Execute \/ ClearIfServing \/ Tick \/ Restart
    \/ \E a \in Acct :
        \/ PollLimited(a) \/ Choose(a) \/ RemoveAccount(a) \/ AddCodex(a)
        \/ \E how \in {"stale", "dead"} : Ends(a, how)
        \/ \E until \in Later : Exhaust(a, until)

Spec == Init /\ [][Next]_vars

-----------------------------------------------------------------------------

\* README 389: "On an account change, ccdad drops the prior account's turn-state
\* header": no account is sent a state another one issued, whoever moved the
\* pointer since, and after a restart of the daemon (forward.go 154).
TurnStateStaysHome ==
    \A t \in Thread : Transmit(t) /\ ~StripTurnState(t) => rq[t].carried \in {None, At(t)}

\* What an exhausted request is told is the case (outofaccounts.go).  While an
\* account that answered it 429 is out of quota, as far as that answer told, the
\* client is not sent to log in, told that nothing is there, or shown another
\* account's failure; and only an account whose login is refused or gone is said to need one.
AnswersHonestly ==
    \A t \in Thread :
        /\ rq[t].until > now => answer'[t].kind \notin {"failed", "relogin", "unavailable", "transient"}
        /\ Len(rq'[t].dead) > Len(rq[t].dead) => At(t) \notin rows \/ login[At(t)] = "dead"
AnswersAreHonest == [][AnswersHonestly]_vars

\* The pointer names a stored account, if any, once the command that removed the
\* account is through (remove.go 131 on "a document that lies"), unless somebody
\* had chosen the account before it was removed.
PointerNamesAnAccount == serving \in rows \cup doomed \cup {None, remover}
=============================================================================
