---------------------------- MODULE CodexRefresh ----------------------------
(***************************************************************************)
(* One Codex account's login in the daemon.  Its refresh token is single    *)
(* use and the endpoint detects a second use; only the daemon's Refresher   *)
(* spends it, on behalf of the poll and of the proxy's requests; the user   *)
(* replaces the login at any time, in another process.                      *)
(*                                                                         *)
(* internal/codexauth/refresh.go and relogin.go, the callers in             *)
(* daemon/codex_lane.go and codexproxy/refresh.go, and the store's          *)
(* SetCredentials and SetCodexReloginFor.  A store transaction is one step; *)
(* accounts share nothing here (each has its mutex, its slot and its row).  *)
(***************************************************************************)
EXTENDS Naturals

CONSTANTS
    Poller,     \* the lane's poll goroutine: claim admits one per account
    Request,    \* the proxy's handlers
    NoProc, NoToken, NoPair, NoMark,
    MaxLogins,  \* bound: logins after the first
    MaxIssued,  \* bound: exchanges answered per login
    MaxFaults   \* bound: lost answers, failed writes, daemon restarts

Proc   == Poller \cup Request
Login  == 0..MaxLogins
\* A pair: the access token's number in its login, and that of the exchange
\* the refresh token came with.
Pair   == [login: Login, acc: 0..MaxIssued, ref: 0..MaxIssued]
Token  == [login: Login, acc: 0..MaxIssued]
Grant  == [login: Login, ref: 0..MaxIssued]

ASSUME CodexRefreshAssumption ==
    /\ Poller \cap Request = {} /\ NoProc \notin Proc
    /\ NoToken \notin Token /\ NoPair \notin Pair /\ NoMark \notin Grant
    /\ MaxLogins \in Nat /\ MaxIssued \in Nat /\ MaxFaults \in Nat

VARIABLES
    issued,     \* exchanges each login has been answered
    spent,      \* refresh tokens the endpoint has seen
    revoked,    \* logins the issuer has withdrawn
    aged,       \* logins whose last access token is within an hour of its expiry, or past it
    store,      \* the stored credential, NoPair when the account is removed
    mark,       \* CodexReloginFor: the refresh token that was refused
    pending,    \* Refresher: the pair the busy store could not take
    cooling,    \* Refresher: cooldownUntil has not passed
    holder,     \* Refresher: whose the account's mutex is
    w,          \* each caller's job
    logins, faults,
    \* history, read by the properties only
    lost        \* spent grants whose successor was lost: on the way, in a failed write, at a restart

issuer  == <<issued, spent, revoked, aged>>
rows    == <<store, mark>>
memory  == <<pending, cooling, holder>>
bounds  == <<logins, faults>>
vars    == <<issuer, rows, memory, w, bounds, lost>>

Job == [pc: {"idle", "token", "sent", "wait", "flush", "read", "post", "answer",
             "denied", "save", "mark", "replay"},
        saw: Token \cup {NoToken},      \* the access token the caller used
        cred: Pair \cup {NoPair}, next: Pair \cup {NoPair},
        then: {"fetch", "end", "replay"}]  \* what the caller does with the outcome
Idle == [pc |-> "idle", saw |-> NoToken, cred |-> NoPair, next |-> NoPair,
         then |-> "end"]

TokenOf(c) == [login |-> c.login, acc |-> c.acc]
GrantOf(c) == [login |-> c.login, ref |-> c.ref]
First(l)   == [login |-> l, acc |-> 0, ref |-> 0]

Init ==
    /\ issued = [l \in Login |-> 0] /\ spent = {} /\ revoked = {} /\ aged = {}
    /\ store = First(0) /\ mark = NoMark
    /\ pending = NoPair /\ cooling = FALSE /\ holder = NoProc
    /\ w = [p \in Proc |-> Idle]
    /\ logins = 0 /\ faults = 0 /\ lost = {}

At(p, s)    == w[p].pc = s
Goto(p, s)  == w' = [w EXCEPT ![p].pc = s]
Done(p)     == w' = [w EXCEPT ![p] = Idle]
Usable(g)   == g \notin spent /\ g.login \notin revoked
Refuses(t)  == t.acc < issued[t.login] \/ t.login \in aged \cup revoked
Fault       == faults < MaxFaults /\ faults' = faults + 1
Lost(c)     == lost' = IF c # NoPair /\ GrantOf(c) \in spent THEN lost \cup {GrantOf(c)} ELSE lost
NeedsRelogin == store # NoPair /\ mark = GrantOf(store)

\* Refresh returns an outcome and the mutex; the caller goes on with it.
After(p, good, c) ==
    CASE w[p].then = "fetch" ->
           [Idle EXCEPT !.pc = "sent", !.saw = IF good THEN TokenOf(c) ELSE w[p].saw]
      [] w[p].then = "replay" /\ good -> [Idle EXCEPT !.pc = "replay", !.saw = w[p].saw]
      [] OTHER -> Idle

Settled(p, good, c) == holder' = NoProc /\ w' = [w EXCEPT ![p] = After(p, good, c)]
Returned(p)         == Settled(p, FALSE, NoPair)

-----------------------------------------------------------------------------
(* The callers *)

\* codexDispatch skips an account that needs a login.
Dispatch(p) ==
    /\ p \in Poller /\ At(p, "idle") /\ store # NoPair /\ ~NeedsRelogin
    /\ Goto(p, "token")
    /\ UNCHANGED <<issuer, rows, memory, bounds, lost>>

\* codexPoll: a token inside an hour of its expiry is refreshed ahead.
ReadToken(p) ==
    /\ At(p, "token")
    /\ \/ /\ store # NoPair
          /\ w' = [w EXCEPT ![p] = [Idle EXCEPT
                     !.pc = IF store.acc < issued[store.login] \/ store.login \in aged
                            THEN "wait" ELSE "sent",
                     !.saw = TokenOf(store), !.then = "fetch"]]
       \/ Done(p)
    /\ UNCHANGED <<issuer, rows, memory, bounds, lost>>

\* The proxy's send builds its headers from the store.
Send(p) ==
    /\ p \in Request /\ At(p, "idle") /\ store # NoPair
    /\ w' = [w EXCEPT ![p] = [Idle EXCEPT !.pc = "sent", !.saw = TokenOf(store)]]
    /\ UNCHANGED <<issuer, rows, memory, bounds, lost>>

\* Answered, or refused with a 401 that asks for a refresh.
Reply(p) ==
    /\ At(p, "sent")
    /\ \/ Done(p)
       \/ /\ Refuses(w[p].saw)
          /\ w' = [w EXCEPT ![p].pc = "wait",
                            ![p].then = IF p \in Poller THEN "end" ELSE "replay"]
    /\ UNCHANGED <<issuer, rows, memory, bounds, lost>>

\* Once per request: whatever the replay is told is passed back.
Replay(p) ==
    /\ At(p, "replay")
    /\ Done(p)
    /\ UNCHANGED <<issuer, rows, memory, bounds, lost>>

-----------------------------------------------------------------------------
(* Refresh *)

Lock(p) ==
    /\ At(p, "wait") /\ holder = NoProc
    /\ holder' = p /\ Goto(p, "flush")
    /\ UNCHANGED <<issuer, rows, pending, cooling, bounds, lost>>

\* Mutant: the pending pair is left for a call that has a grant to spend.
FlushLater(p) ==
    /\ At(p, "flush") /\ Goto(p, "read")
    /\ UNCHANGED <<issuer, rows, memory, bounds, lost>>

\* A pair the store could not take goes in before anything is read.
Flush(p) ==
    /\ At(p, "flush")
    /\ \/ pending = NoPair /\ Goto(p, "read") /\ UNCHANGED <<store, pending, holder>>
       \/ /\ pending # NoPair /\ store # NoPair
          /\ store' = pending /\ pending' = NoPair
          /\ Goto(p, "read") /\ UNCHANGED holder
       \/ pending # NoPair /\ Returned(p) /\ UNCHANGED <<store, pending>>
    /\ UNCHANGED <<issuer, mark, cooling, bounds, lost>>

\* Mutant: the token the caller saw is not compared.
ReadAnyway(p) ==
    /\ At(p, "read")
    /\ \/ /\ store # NoPair /\ ~cooling
          /\ w' = [w EXCEPT ![p].pc = "post", ![p].cred = store] /\ UNCHANGED holder
       \/ Returned(p)
    /\ UNCHANGED <<issuer, rows, pending, cooling, bounds, lost>>

\* What is exchanged is what is on disk now, unless somebody has replaced the
\* token the caller saw, or a failure's cooldown runs.  The store may be busy,
\* and the account may be another machine's.
Read(p) ==
    /\ At(p, "read")
    /\ \/ /\ store # NoPair /\ TokenOf(store) # w[p].saw
          /\ Settled(p, TRUE, store)
       \/ /\ store # NoPair /\ TokenOf(store) = w[p].saw /\ ~cooling
          /\ w' = [w EXCEPT ![p].pc = "post", ![p].cred = store] /\ UNCHANGED holder
       \/ Returned(p)
    /\ UNCHANGED <<issuer, rows, pending, cooling, bounds, lost>>

\* The answer may leave the refresh token out; what is absent is kept.
Exchanged(c) ==
    {[c EXCEPT !.acc = issued[c.login] + 1, !.ref = r] : r \in {c.ref, issued[c.login] + 1}}

\* The endpoint has the grant: exchanged, refused, or nothing learned.
Post(p) ==
    /\ At(p, "post")
    /\ LET c == w[p].cred IN
       \/ /\ Usable(GrantOf(c)) /\ issued[c.login] < MaxIssued
          /\ \E n \in Exchanged(c) :
               /\ w' = [w EXCEPT ![p].pc = "answer", ![p].next = n]
               /\ issued' = [issued EXCEPT ![c.login] = n.acc]
               /\ aged' = aged \ {c.login}
               /\ spent' = IF n.ref = c.ref THEN spent ELSE spent \cup {GrantOf(c)}
          /\ UNCHANGED <<cooling, holder>>
       \/ /\ ~Usable(GrantOf(c))
          /\ Goto(p, "denied")
          /\ UNCHANGED <<issued, spent, aged, cooling, holder>>
       \/ /\ cooling' = TRUE /\ Returned(p)
          /\ UNCHANGED <<issued, spent, aged>>
    /\ UNCHANGED <<revoked, rows, pending, bounds, lost>>

\* The answer of an exchange: read, lost on the way or unreadable, or given up
\* because the poll's 45 s have passed, of which its reading used up a part (a
\* request's exchange has a context of its own).
Answer(p) ==
    /\ At(p, "answer")
    /\ \/ Goto(p, "save") /\ UNCHANGED <<cooling, holder, faults, lost>>
       \/ Fault /\ Lost(w[p].cred) /\ cooling' = TRUE /\ Returned(p)
       \/ p \in Poller /\ w[p].then = "end" /\ Lost(w[p].cred) /\ cooling' = TRUE /\ Returned(p) /\ UNCHANGED faults
    /\ UNCHANGED <<issuer, rows, pending, logins>>

Denied(p) ==
    /\ At(p, "denied")
    /\ cooling' = TRUE
    /\ \/ Goto(p, "mark") /\ UNCHANGED holder
       \/ Returned(p)
    /\ UNCHANGED <<issuer, rows, pending, bounds, lost>>

\* Mutant: a busy store is reported, and the pair dropped.
SaveOrDrop(p) ==
    /\ At(p, "save")
    /\ \/ store # NoPair /\ store' = w[p].next /\ Settled(p, TRUE, w[p].next)
       \/ Returned(p) /\ UNCHANGED store
    /\ UNCHANGED <<issuer, mark, pending, cooling, bounds, lost>>

\* SetCredentials replaces whatever the row's file holds by now.  A busy store
\* leaves the pair in memory; an account that was removed, or a write that
\* fails, ends the call.
Save(p) ==
    /\ At(p, "save")
    /\ \/ /\ store # NoPair /\ store' = w[p].next
          /\ Settled(p, TRUE, w[p].next) /\ UNCHANGED <<pending, faults, lost>>
       \/ /\ pending' = w[p].next
          /\ Settled(p, TRUE, w[p].next) /\ UNCHANGED <<store, faults, lost>>
       \/ /\ store = NoPair /\ Returned(p)
          /\ UNCHANGED <<store, pending, faults, lost>>
       \/ /\ store # NoPair /\ Fault /\ Lost(w[p].cred) /\ Returned(p)
          /\ UNCHANGED <<store, pending>>
    /\ UNCHANGED <<issuer, mark, cooling, logins>>

\* Mutant: the whole credential is what is hashed.
MarkWhole(p) ==
    /\ At(p, "mark")
    /\ Returned(p)
    /\ mark' = IF store = w[p].cred THEN store ELSE mark
    /\ UNCHANGED <<issuer, store, pending, cooling, bounds, lost>>

\* Mutant: whatever the account holds by now is marked.
MarkCurrent(p) ==
    /\ At(p, "mark")
    /\ Returned(p)
    /\ mark' = IF store # NoPair THEN GrantOf(store) ELSE mark
    /\ UNCHANGED <<issuer, store, pending, cooling, bounds, lost>>

\* SetCodexReloginFor marks the account only if it still holds what was refused.
Mark(p) ==
    /\ At(p, "mark")
    /\ Returned(p)
    /\ \/ /\ store # NoPair /\ GrantOf(store) = GrantOf(w[p].cred)
          /\ mark' = GrantOf(w[p].cred)
       \/ UNCHANGED mark
    /\ UNCHANGED <<issuer, store, pending, cooling, bounds, lost>>

-----------------------------------------------------------------------------
(* The user, time and faults *)

\* `ccdad add codex`: a new login, and a row that carries no mark.
AddCodex ==
    /\ logins < MaxLogins /\ logins' = logins + 1
    /\ store' = First(logins + 1) /\ mark' = NoMark
    /\ UNCHANGED <<issuer, memory, w, faults, lost>>

\* Removed, and added again if the bound on logins allows.
Remove ==
    /\ store # NoPair /\ logins < MaxLogins
    /\ store' = NoPair /\ mark' = NoMark
    /\ UNCHANGED <<issuer, memory, w, bounds, lost>>

Revoke(l) ==
    /\ l \notin revoked /\ l <= logins
    /\ revoked' = revoked \cup {l}
    /\ UNCHANGED <<issued, spent, aged, rows, memory, w, bounds, lost>>

Age(l) ==
    /\ l \notin aged /\ l <= logins
    /\ aged' = aged \cup {l}
    /\ UNCHANGED <<issued, spent, revoked, rows, memory, w, bounds, lost>>

CoolDown ==
    /\ cooling /\ cooling' = FALSE
    /\ UNCHANGED <<issuer, rows, pending, holder, w, bounds, lost>>

\* A daemon that stops takes its calls and its pending pair with it.
Restart ==
    /\ Fault
    /\ pending' = NoPair /\ cooling' = FALSE /\ holder' = NoProc
    /\ w' = [p \in Proc |-> Idle]
    /\ Lost(store)
    /\ UNCHANGED <<issuer, rows, logins>>

-----------------------------------------------------------------------------
Refresher(p) ==
    \/ Lock(p) \/ Flush(p) \/ Read(p) \/ Post(p) \/ Answer(p) \/ Denied(p) \/ Save(p) \/ Mark(p)

Step(p) == ReadToken(p) \/ Reply(p) \/ Replay(p) \/ Refresher(p)

Next ==
    \/ \E p \in Proc : Dispatch(p) \/ Send(p) \/ Step(p)
    \/ AddCodex \/ Remove \/ CoolDown \/ Restart
    \/ \E l \in Login : Revoke(l) \/ Age(l)

Spec == Init /\ [][Next]_vars

\* The runtime runs every goroutine and its mutex starves nobody; ticks keep
\* dispatching, and the store is not busy for ever.
FairSpec ==
    /\ Spec
    /\ \A p \in Proc : WF_vars(Step(p))
    /\ \A p \in Poller :
         /\ WF_vars(Dispatch(p)) /\ SF_vars(Lock(p))
         /\ SF_vars(ReadToken(p) /\ w'[p].pc # "idle") /\ SF_vars(Flush(p) /\ pending' = NoPair)

-----------------------------------------------------------------------------
(* Properties *)

TypeOK ==
    /\ issued \in [Login -> 0..MaxIssued] /\ spent \subseteq Grant
    /\ revoked \subseteq Login /\ aged \subseteq Login
    /\ store \in Pair \cup {NoPair} /\ mark \in Grant \cup {NoMark}
    /\ pending \in Pair \cup {NoPair} /\ cooling \in BOOLEAN /\ holder \in Proc \cup {NoProc}
    /\ w \in [Proc -> Job]
    /\ logins \in Login /\ faults \in 0..MaxFaults
    /\ lost \subseteq Grant

\* The endpoint never sees a refresh token twice, except one whose successor a
\* lost answer, a failed write or a restart took: not when the store is busy,
\* the user logs in again, or poll and requests all meet the same 401.
NeverReused == \A p \in Proc : At(p, "post") /\ GrantOf(w[p].cred) \in spent => GrantOf(w[p].cred) \in lost

\* One exchange per worn-out token: a pair that was rotated while a caller
\* waited is adopted, and not spent in turn.
NoNeedlessExchange == \A p \in Proc : At(p, "post") => Refuses(TokenOf(w[p].cred))

\* An account is shown as needing a login only if the grant it holds is dead,
\* however late the refusal arrives.
MarkIsDeserved == NeedsRelogin => ~Usable(GrantOf(store))

Worn == store # NoPair /\ GrantOf(store) \in spent /\ GrantOf(store) \notin lost

\* A spent refresh token does not stay in the store: the pair that could not be
\* written lands.
WornIsReplaced == Worn ~> ~Worn

-----------------------------------------------------------------------------
(* What a comment says and the code does not do *)

\* relogin.go: "That is what makes a re-login self-clearing: `ccdad add codex`
\* stores a new token, the hash stops matching".
ReloginClears == NeedsRelogin => store.login = logins
=============================================================================
