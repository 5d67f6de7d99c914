------------------------------- MODULE Grants -------------------------------
(***************************************************************************)
(* Custody of Claude refresh grants.  A grant is single-use: minting a new  *)
(* pair revokes the one it was minted from.  Each managed account's grant   *)
(* has up to two copies, ccdad's stored snapshot and Claude Code's live     *)
(* credentials file, and several hands that spend or move it: the daemon's  *)
(* pollers, its engine, CLI commands, Claude Code itself and the user.      *)
(*                                                                         *)
(* internal/tokens (AccessToken, liveToken, refreshLive, refresh, save,     *)
(* adopt, Freshen), internal/switcher (Execute, LiveStateOf),               *)
(* internal/daemon (act, resolveLive, poll, handleFailure).  A region under *)
(* Claude Code's locks or the store lock is one step; a network call and    *)
(* the time around it is not.                                              *)
(***************************************************************************)
EXTENDS Naturals, FiniteSets

CONSTANTS
    Acct,       \* accounts the store manages
    Foreign,    \* accounts it does not
    Poller,     \* the daemon's poll goroutines
    Ticker,     \* the daemon's tick goroutine
    Cli,        \* commands nobody need be watching: status --refresh, auto
    Human,      \* `ccdad switch`
    NoAcct, NoGrant,
    NoLogin,    \* the credentials file holds no login
    Blank,      \* Claude Code's dead-token clear: a record with both tokens emptied
    Prompt,     \* TRUE: no token crosses into another zone while a job is in flight
    MaxGen,     \* bound: pairs issued to an account after its first
    MaxLogins,  \* bound: logins made by hand
    MaxFaults,  \* bound: crashes, lost answers, refused writes
    MaxMishaps  \* bound: logins by hand and faults together

Owner  == Acct \cup Foreign
Proc   == Poller \cup Ticker \cup Cli \cup Human
Daemon == Poller \cup Ticker
Grant  == [acct: Owner, gen: 0..MaxGen]

ASSUME GrantsAssumption ==
    /\ Acct \cap Foreign = {} /\ NoAcct \notin Owner
    /\ NoGrant \notin Grant /\ NoLogin \notin Grant /\ Blank \notin Grant
    /\ Blank # NoLogin /\ Blank # NoGrant /\ NoLogin # NoGrant
    /\ Poller \cap Ticker = {} /\ Daemon \cap (Cli \cup Human) = {} /\ Cli \cap Human = {}
    /\ Prompt \in BOOLEAN
    /\ MaxGen \in Nat /\ MaxLogins \in Nat /\ MaxFaults \in Nat /\ MaxMishaps \in Nat

VARIABLES
    valid,      \* grants the token endpoint honours
    minted,     \* generation of the last pair issued to each account
    zone,       \* time left on each pair's access token: above LiveRefreshLead,
                \* in the band, or inside Claude Code's own refresh window
    store,      \* the stored snapshots
    live,       \* Claude Code's credentials file
    cfg,        \* the account ~/.claude.json's oauthAccount names
    quarantined,\* strategy state: accounts held out of the rotation
    cooling,    \* strategy state: the cooldown after a switch still runs
    w,          \* each process's job
    logins, faults,
    \* history, read by the properties only
    forfeit,    \* accounts a fault, the user's own overwrite or a decision about a login
                \* that has moved on since may have cost a pair
    raced       \* accounts whose live read another login or rotation overtook

engine == <<quarantined, cooling>>
server == <<valid, minted, zone>>
files  == <<store, live, cfg>>
bounds == <<logins, faults>>
history == <<forfeit, raced>>
vars   == <<server, files, engine, w, bounds, history>>

Pair  == Grant \cup {NoGrant}
Zone  == {"fresh", "band", "stale"}
Steps == {"idle", "read", "check", "post", "save", "lock", "adopt",
          "livepost", "livewrite", "livesave", "resolve", "oracle", "oracleadopt",
          "creds", "reread", "install", "sync"}
Job   == [pc: Steps, kind: {"none", "poll", "auto", "switch"},
          acct: Acct \cup {NoAcct},      \* the account polled, or the switch's target
          rec: Pair, cur: Pair, new: Pair, seen: Pair, creds: Pair,
          believed: Acct \cup {NoAcct},  \* Request.LiveUUID
          foreign: BOOLEAN, force: BOOLEAN] \* Request.LiveForeign, Request.Force
Idle  == [pc |-> "idle", kind |-> "none", acct |-> NoAcct,
          rec |-> NoGrant, cur |-> NoGrant, new |-> NoGrant, seen |-> NoGrant, creds |-> NoGrant,
          believed |-> NoAcct, foreign |-> FALSE, force |-> FALSE]

At(p, s)  == w[p].pc = s
Done(p)   == w' = [w EXCEPT ![p] = Idle]
Goto(p, s) == w' = [w EXCEPT ![p].pc = s]
First(a)  == [acct |-> a, gen |-> 0]
Fresh(a)  == [acct |-> a, gen |-> minted[a] + 1]

Init ==
    /\ valid  = {First(a) : a \in Owner}
    /\ minted = [a \in Owner |-> 0]
    /\ zone   = [g \in Grant |-> "fresh"]
    /\ store  = [a \in Acct |-> First(a)]
    /\ live  \in {First(a) : a \in Acct} \cup {NoLogin}
    /\ cfg    = IF live = NoLogin THEN NoAcct ELSE live.acct
    /\ quarantined = {} /\ cooling = FALSE
    /\ w = [p \in Proc |-> Idle]
    /\ logins = 0 /\ faults = 0
    /\ forfeit = {} /\ raced = {}

-----------------------------------------------------------------------------
(* The token endpoint *)

\* A single-use grant: the new pair is issued and the one spent is revoked.
Mint(g) ==
    /\ g \in valid
    /\ minted[g.acct] < MaxGen
    /\ valid' = (valid \ {g}) \cup {Fresh(g.acct)}
    /\ minted' = [minted EXCEPT ![g.acct] = @ + 1]

\* A pair issued to a login made by hand: a lineage of its own.
Issue(a) ==
    /\ minted[a] < MaxGen
    /\ valid' = valid \cup {Fresh(a)}
    /\ minted' = [minted EXCEPT ![a] = @ + 1]

\* Accounts between the identity check and the adoption of a live read, and the
\* others of them when a login of x lands in the file or x's snapshot moves on.
Reading == {w[q].acct : q \in {q \in Proc : w[q].pc \in {"lock", "adopt"}}}
Overtaken(x) == Reading \ {x}

Fault == faults < MaxFaults /\ logins + faults < MaxMishaps /\ faults' = faults + 1

-----------------------------------------------------------------------------
(* Attribution *)

\* The managed accounts whose stored record is this login.
StoredBy(l) == {a \in Acct : store[a] = l}

\* LiveStateOf: the state of the file, and the account it is attributed to
\* (two snapshots hold one login only when one of them is cross-filed).
LiveState(l) ==
    IF l \notin Grant THEN "none" ELSE IF StoredBy(l) # {} THEN "managed" ELSE "unattributed"
LiveOwner(l) == IF StoredBy(l) # {} THEN StoredBy(l) ELSE {NoAcct}

\* The account whose only copy is the file, when no snapshot matches it.
Unstored == IF LiveState(live) = "unattributed" THEN {live.acct} \cap Acct ELSE {}

-----------------------------------------------------------------------------
(* AccessToken *)

\* The daemon dispatches one poll per account (claim); a command's is its own.
StartPoll(p, a) ==
    /\ p \in Poller \cup Cli
    /\ At(p, "idle")
    /\ p \in Poller => \A q \in Poller : w[q].acct # a
    /\ w' = [w EXCEPT ![p] = [Idle EXCEPT !.pc = "read", !.kind = "poll", !.acct = a]]
    /\ UNCHANGED <<server, files, engine, bounds, history>>

ReadStored(p) ==
    /\ At(p, "read")
    /\ w' = [w EXCEPT ![p].pc = "check", ![p].rec = store[w[p].acct]]
    /\ UNCHANGED <<server, files, engine, bounds, history>>

\* A token was served: a poll is over, a switch reads the record back.
Served(p) ==
    IF w[p].kind = "poll" THEN Idle
    ELSE [w[p] EXCEPT !.pc = "reread", !.rec = NoGrant, !.cur = NoGrant, !.new = NoGrant]

\* Mutant: a live store that cannot be read means nobody is live.
UnreadableIsInactive(p) ==
    /\ At(p, "check")
    /\ LET rec == w[p].rec IN
       \/ rec = live /\ Goto(p, "lock")
       \/ zone[rec] # "stale" /\ w' = [w EXCEPT ![p] = Served(p)]
       \/ zone[rec] = "stale" /\ Goto(p, "post")
    /\ UNCHANGED <<server, files, engine, bounds, history>>

\* The identity check, with no lock held.  The live branch needs a readable
\* file; without one a good token is still served and a stale one is refused
\* (ErrLivenessUnknown).
CheckLive(p) ==
    /\ At(p, "check")
    /\ LET rec == w[p].rec IN
       \/ rec = live /\ Goto(p, "lock")
       \/ rec # live /\ zone[rec] # "stale" /\ w' = [w EXCEPT ![p] = Served(p)]
       \/ rec # live /\ zone[rec] = "stale" /\ Goto(p, "post")
       \/ w' = [w EXCEPT ![p] = IF zone[rec] # "stale" THEN Served(p) ELSE Idle]  \* unreadable
    /\ UNCHANGED <<server, files, engine, bounds, history>>

\* refresh: the inactive account's stored grant is spent.
Post(p) ==
    /\ At(p, "post")
    /\ LET rec == w[p].rec IN
       \/ /\ Mint(rec)
          /\ w' = [w EXCEPT ![p].pc = "save", ![p].new = Fresh(rec.acct)]
          /\ UNCHANGED <<quarantined, faults, forfeit>>
       \/ /\ Mint(rec) /\ Fault         \* minted, and the answer was lost
          /\ Done(p)
          /\ forfeit' = forfeit \cup {rec.acct}
          /\ UNCHANGED quarantined
       \/ /\ rec \notin valid           \* invalid_grant: ErrRejected
          /\ Done(p)
          /\ quarantined' = IF w[p].kind = "poll" THEN quarantined \cup {w[p].acct} ELSE quarantined
          /\ UNCHANGED <<valid, minted, faults, forfeit>>
       \/ /\ Done(p)                    \* the endpoint was not reached: ErrUnavailable
          /\ UNCHANGED <<valid, minted, quarantined, faults, forfeit>>
    /\ UNCHANGED <<zone, files, cooling, logins, raced>>

\* Mutant: the record is written back without the compare.
WriteAlways(a, expect, g) == [store EXCEPT ![a] = g]

\* writeRecord, under the store lock: only over the grant that was spent.
WriteRecord(a, expect, g) == IF store[a] = expect THEN [store EXCEPT ![a] = g] ELSE store

Save(p) ==
    /\ At(p, "save")
    /\ \/ /\ store' = WriteRecord(w[p].acct, w[p].rec, w[p].new)
          /\ w' = [w EXCEPT ![p] = Served(p)]
          /\ raced' = raced \cup Overtaken(w[p].acct)
          /\ UNCHANGED <<faults, forfeit>>
       \/ /\ Fault                      \* the store refused: the pair is held nowhere
          /\ Done(p)
          /\ forfeit' = forfeit \cup {w[p].new.acct}
          /\ UNCHANGED <<store, raced>>
    /\ UNCHANGED <<server, live, cfg, engine, logins>>

\* Below the floor the login is Claude Code's (ErrLiveTokenStale); in the band
\* it is rotated here; above it there is nothing to do.
Beyond(p, cur) ==
    CASE zone[cur] = "stale" -> Idle
      [] zone[cur] = "band"  -> [w[p] EXCEPT !.pc = "livepost", !.cur = cur]
      [] OTHER               -> Served(p)

\* Mutant: a file with no tokens in it is taken for a rotated login.
LockReadAnything(p) ==
    /\ At(p, "lock")
    /\ \/ live = w[p].rec /\ w' = [w EXCEPT ![p] = Beyond(p, live)]
       \/ live # w[p].rec /\ w' = [w EXCEPT ![p].pc = "adopt", ![p].cur = live]
    /\ UNCHANGED <<server, files, engine, bounds, history>>

\* liveToken reads the file again under Claude Code's refresh lock.
LockRead(p) ==
    /\ At(p, "lock")
    /\ \/ live = w[p].rec /\ w' = [w EXCEPT ![p] = Beyond(p, live)]
       \/ live \in Grant \ {w[p].rec} /\ w' = [w EXCEPT ![p].pc = "adopt", ![p].cur = live]
       \/ Done(p)                       \* not a login any more, or the lock timed out
    /\ UNCHANGED <<server, files, engine, bounds, history>>

\* Mutant: what the file holds is filed under the account that was live.
AdoptAnything(p) ==
    /\ At(p, "adopt")
    /\ store' = WriteRecord(w[p].acct, w[p].rec, w[p].cur)
    /\ w' = [w EXCEPT ![p] = Beyond(p, w[p].cur)]
    /\ raced' = raced \cup Overtaken(w[p].acct)
    /\ forfeit' = forfeit \cup ({w[p].cur.acct} \ {w[p].acct})
    /\ UNCHANGED <<server, live, cfg, engine, bounds>>

\* adopt: unless another account stores it (ErrLiveMoved).  A login of an account
\* that stores another by now is filed here, where its own next login buries it.
Adopt(p) ==
    /\ At(p, "adopt")
    /\ \/ /\ StoredBy(w[p].cur) \ {w[p].acct} = {}
          /\ store' = WriteRecord(w[p].acct, w[p].rec, w[p].cur)
          /\ w' = [w EXCEPT ![p] = Beyond(p, w[p].cur)]
          /\ raced' = raced \cup Overtaken(w[p].acct)
          /\ forfeit' = forfeit \cup ({w[p].cur.acct} \ {w[p].acct})
       \/ Done(p) /\ UNCHANGED <<store, history>>  \* another account's, or the store refused
    /\ UNCHANGED <<server, live, cfg, engine, bounds>>

\* refreshLive: the POST, with no lock held.  A failure serves the token in hand.
LivePost(p) ==
    /\ At(p, "livepost")
    /\ LET cur == w[p].cur IN
       \/ /\ Mint(cur)
          /\ w' = [w EXCEPT ![p].pc = "livewrite", ![p].new = Fresh(cur.acct)]
          /\ UNCHANGED <<faults, forfeit>>
       \/ /\ Mint(cur) /\ Fault
          /\ w' = [w EXCEPT ![p] = Served(p)]
          /\ forfeit' = forfeit \cup {cur.acct}
       \/ /\ w' = [w EXCEPT ![p] = Served(p)]
          /\ UNCHANGED <<valid, minted, faults, forfeit>>
    /\ UNCHANGED <<zone, files, engine, logins, raced>>

\* The one file refreshLive may write: still the grant it spent, or a blanked
\* login that ~/.claude.json says was this account's.
StillOurs(p) == live = w[p].cur \/ (live = Blank /\ cfg = w[p].acct)

\* Mutant: the file is somebody else's by now, so there is nothing left to do.
AbandonWhenMoved(p) ==
    /\ At(p, "livewrite")
    /\ \/ StillOurs(p) /\ live' = w[p].new /\ Goto(p, "livesave")
       \/ ~StillOurs(p) /\ Done(p) /\ UNCHANGED live
    /\ raced' = raced \cup Overtaken(w[p].acct)
    /\ UNCHANGED <<server, store, cfg, engine, bounds, forfeit>>

LiveWrite(p) ==
    /\ At(p, "livewrite")
    /\ Goto(p, "livesave")
    /\ \/ /\ live' = IF StillOurs(p) THEN w[p].new ELSE live
          /\ UNCHANGED <<faults, forfeit>>
       \/ /\ Fault                      \* Claude Code is left with the spent grant
          /\ forfeit' = forfeit \cup {w[p].new.acct}
          /\ UNCHANGED live
    /\ raced' = raced \cup Overtaken(w[p].acct)
    /\ UNCHANGED <<server, store, cfg, engine, logins>>

LiveSave(p) ==
    /\ At(p, "livesave")
    /\ w' = [w EXCEPT ![p] = Served(p)]
    /\ \/ /\ store' = WriteRecord(w[p].acct, w[p].cur, w[p].new)
          /\ UNCHANGED <<faults, forfeit>>
       \/ /\ Fault
          /\ forfeit' = forfeit \cup {w[p].new.acct}
          /\ UNCHANGED store
    /\ raced' = raced \cup Overtaken(w[p].acct)
    /\ UNCHANGED <<server, live, cfg, engine, logins>>

-----------------------------------------------------------------------------
(* Execute: a switch, by the engine, `ccdad auto` or a human *)

Unattended(p) == w[p].kind = "auto"

\* Evaluate and Decide: the engine's choice among accounts not quarantined, held
\* by the cooldown while there is a baseline to leave.  A live store that cannot
\* be read stops the daemon here; a login nobody can name sends it to the
\* oracle, and `ccdad auto` on to Execute.
StartAuto(p, t) ==
    /\ p \in Ticker \cup Cli
    /\ At(p, "idle")
    /\ t \notin quarantined
    /\ \E o \in LiveOwner(live) \ {t} :
         /\ cooling => o \in quarantined \cup {NoAcct}
         /\ w' = [w EXCEPT ![p] = [Idle EXCEPT
                !.pc = IF p \in Ticker /\ LiveState(live) = "unattributed" THEN "resolve" ELSE "creds",
                !.kind = "auto", !.acct = t, !.believed = o]]
    /\ UNCHANGED <<server, files, engine, bounds, history>>

\* `ccdad switch`: the account is named, and may be the live one.
StartSwitch(p, t) ==
    /\ p \in Human
    /\ At(p, "idle")
    /\ \E force \in BOOLEAN, o \in LiveOwner(live) :
         w' = [w EXCEPT ![p] = [Idle EXCEPT !.pc = "creds", !.kind = "switch", !.acct = t,
                                !.believed = o, !.force = force]]
    /\ UNCHANGED <<server, files, engine, bounds, history>>

\* resolveLive reads the file, with no lock; a file with no token, or an
\* interval not yet over, is unresolved and stands the switch down.
ResolveLoad(p) ==
    /\ At(p, "resolve")
    /\ \/ live \in Grant /\ w' = [w EXCEPT ![p].pc = "oracle", ![p].seen = live]
       \/ Done(p)
    /\ UNCHANGED <<server, files, engine, bounds, history>>

\* The profile endpoint names the token's owner, or cannot be reached.
ResolveOwner(p) ==
    /\ At(p, "oracle")
    /\ \/ w[p].seen.acct \in Acct /\ Goto(p, "oracleadopt")
       \/ /\ w[p].seen.acct \in Foreign
          /\ w' = [w EXCEPT ![p].pc = "creds", ![p].seen = NoGrant, ![p].foreign = TRUE]
       \/ Done(p)
    /\ UNCHANGED <<server, files, engine, bounds, history>>

\* A managed owner: what was read is laid over its stored snapshot, whatever that
\* and the file hold by now.
Resolved(p) == w[p].seen.acct

ResolveAdopt(p) ==
    /\ At(p, "oracleadopt")
    /\ \/ /\ store' = [store EXCEPT ![Resolved(p)] = w[p].seen]
          /\ w' = [w EXCEPT ![p].pc = "creds", ![p].seen = NoGrant, ![p].believed = Resolved(p)]
          /\ forfeit' = IF w[p].seen \in valid \cap {live} THEN forfeit ELSE forfeit \cup {Resolved(p)}
          /\ raced' = raced \cup Overtaken(Resolved(p))
       \/ Done(p) /\ UNCHANGED <<store, history>>
    /\ UNCHANGED <<server, live, cfg, engine, bounds>>

\* Mutant: a snapshot is installed as it is.
InstallAsStored(p) ==
    /\ At(p, "creds")
    /\ w' = [w EXCEPT ![p].pc = "install", ![p].creds = store[w[p].acct]]
    /\ UNCHANGED <<server, files, engine, bounds, history>>

\* The target's stored login; one Claude Code would refresh on sight is
\* refreshed first, unless the target is believed live.
ReadCreds(p) ==
    /\ At(p, "creds")
    /\ LET t == w[p].acct IN
       w' = [w EXCEPT ![p] = IF w[p].believed # t /\ zone[store[t]] = "stale"
                             THEN [@ EXCEPT !.pc = "read"]
                             ELSE [@ EXCEPT !.pc = "install", !.creds = store[t]]]
    /\ UNCHANGED <<server, files, engine, bounds, history>>

\* Freshen reads the record back; still stale is a refusal.
ReRead(p) ==
    /\ At(p, "reread")
    /\ LET g == store[w[p].acct] IN
       w' = [w EXCEPT ![p] = IF zone[g] = "stale" THEN Idle
                             ELSE [@ EXCEPT !.pc = "install", !.creds = g]]
    /\ UNCHANGED <<server, files, engine, bounds, history>>

\* Mutant: a file nobody can name is nobody's.
OverwriteUnattributed(p, observed) == Unattended(p) => observed = w[p].believed

\* What an unattended switch refuses: Raced, Unattributed.
MayInstall(p, observed) ==
    Unattended(p) =>
        /\ observed = w[p].believed
        /\ LiveState(live) = "unattributed" => w[p].foreign

\* The account a live read of which takes an older login than the stored one for
\* news, when a switch installs what it read of the snapshot before that moved.
Outdated(p) == IF w[p].creds = store[w[p].acct] THEN {} ELSE Reading \cap {w[p].acct}

\* The decision and the write, under Claude Code's three credential locks.
Install(p) ==
    /\ At(p, "install")
    /\ \/ /\ w[p].acct \in LiveOwner(live) /\ ~w[p].force     \* AlreadyOn
          /\ w' = [w EXCEPT ![p].pc = "sync", ![p].creds = NoGrant]
          /\ UNCHANGED <<live, history>>
       \/ /\ \E o \in LiveOwner(live) : (o # w[p].acct \/ w[p].force) /\ MayInstall(p, o)
          /\ live' = w[p].creds
          /\ Goto(p, "sync")
          /\ forfeit' = forfeit \cup Outdated(p)
                        \cup (IF Unattended(p) /\ ~w[p].foreign THEN {} ELSE Unstored)
          /\ raced' = IF StoredBy(w[p].creds) = {} THEN raced \cup Overtaken(w[p].acct) ELSE raced
       \/ Done(p) /\ UNCHANGED <<live, history>>  \* refused, Contended, or a lock timed out
    /\ UNCHANGED <<server, store, cfg, engine, bounds>>

\* RecordSwitch, after a switch (an AlreadyOn has nothing to record), and last
\* the name in ~/.claude.json; SetActive before them is a display hint.
Sync(p) ==
    /\ At(p, "sync")
    /\ cfg' \in {cfg, w[p].acct}          \* the update may fail
    /\ \/ cooling' = (cooling \/ w[p].creds # NoGrant) /\ UNCHANGED faults
       \/ Fault /\ UNCHANGED cooling     \* CooldownErr
    /\ Done(p)
    /\ UNCHANGED <<server, store, live, quarantined, logins, history>>

-----------------------------------------------------------------------------
(* Claude Code, the user and the clock *)

\* Claude Code refreshes its login inside its own window, under its own locks;
\* a grant the endpoint refuses is blanked in place.
ClaudeRefresh ==
    /\ live \in Grant /\ zone[live] = "stale"
    /\ \/ Mint(live) /\ live' = Fresh(live.acct)
       \/ live \notin valid /\ live' = Blank /\ UNCHANGED <<valid, minted>>
    /\ raced' = raced \cup Overtaken(live.acct)
    /\ UNCHANGED <<zone, store, cfg, engine, w, bounds, forfeit>>

ByHand == logins < MaxLogins /\ logins + faults < MaxMishaps /\ logins' = logins + 1

\* /login inside Claude Code.
Login(x) ==
    /\ ByHand /\ Issue(x)
    /\ live' = Fresh(x) /\ cfg' = x
    /\ forfeit' = forfeit \cup Unstored
    /\ raced' = raced \cup Overtaken(x)
    /\ UNCHANGED <<zone, store, engine, w, faults>>

\* `ccdad add claude`, for an account already managed: a new login, stored.
AddAgain(a) ==
    /\ ByHand /\ Issue(a)
    /\ store' = [store EXCEPT ![a] = Fresh(a)]
    /\ quarantined' = quarantined \ {a}
    /\ raced' = raced \cup Overtaken(a)
    /\ UNCHANGED <<zone, live, cfg, cooling, w, faults, forfeit>>

\* Time passes for one pair.
Age(g) ==
    /\ Prompt => \A p \in Proc : At(p, "idle")
    /\ zone[g] # "stale"
    /\ g = live \/ \E a \in Acct : g = store[a]
    /\ zone' = [zone EXCEPT ![g] = IF @ = "fresh" THEN "band" ELSE "stale"]
    /\ UNCHANGED <<valid, minted, files, engine, w, bounds, history>>

\* The cooldown ends.  It is longer than a poll may take.
CoolDown ==
    /\ Prompt => \A p \in Proc : At(p, "idle")
    /\ cooling /\ cooling' = FALSE
    /\ UNCHANGED <<server, files, quarantined, w, bounds, history>>

\* The daemon, or one command, dies; a pair on its way to disk goes with it.
Crash(P) ==
    /\ Fault
    /\ \E p \in P : ~At(p, "idle")
    /\ w' = [p \in Proc |-> IF p \in P THEN Idle ELSE w[p]]
    /\ forfeit' = forfeit \cup {w[p].new.acct : p \in {p \in P : w[p].new # NoGrant}}
    /\ UNCHANGED <<server, files, engine, logins, raced>>

-----------------------------------------------------------------------------
AccessToken(p) ==
    ReadStored(p) \/ CheckLive(p) \/ Post(p) \/ Save(p) \/ LockRead(p) \/ Adopt(p)
    \/ LivePost(p) \/ LiveWrite(p) \/ LiveSave(p)

Switch(p) ==
    ResolveLoad(p) \/ ResolveOwner(p) \/ ResolveAdopt(p) \/ ReadCreds(p) \/ ReRead(p)
    \/ Install(p) \/ Sync(p)

Next ==
    \/ \E p \in Proc : AccessToken(p) \/ Switch(p)
    \/ \E p \in Proc, a \in Acct : StartPoll(p, a) \/ StartAuto(p, a) \/ StartSwitch(p, a)
    \/ ClaudeRefresh
    \/ \E x \in Owner : Login(x)
    \/ \E a \in Acct : AddAgain(a)
    \/ \E g \in Grant : Age(g)
    \/ CoolDown
    \/ Crash(Daemon) \/ \E p \in Cli \cup Human : Crash({p})

Spec == Init /\ [][Next]_vars

-----------------------------------------------------------------------------
(* Properties *)

TypeOK ==
    /\ valid \subseteq Grant
    /\ minted \in [Owner -> 0..MaxGen]
    /\ zone \in [Grant -> Zone]
    /\ store \in [Acct -> Grant]
    /\ live \in Grant \cup {NoLogin, Blank}
    /\ cfg \in Owner \cup {NoAcct}
    /\ quarantined \subseteq Acct /\ cooling \in BOOLEAN
    /\ w \in [Proc -> Job]
    /\ logins \in 0..MaxLogins /\ faults \in 0..MaxFaults
    /\ forfeit \subseteq Owner /\ raced \subseteq Acct

\* Accounts a fault or a human's overwrite cost a pair, those resolveLive rolled
\* back (AdoptsForward), and those whose login was replaced in the file, or in the
\* snapshot, between the moment a job read it and the moment the job acted on it.
Exempt == forfeit \cup raced

\* No cross-filing: a snapshot holds its own account's login, whatever switch
\* lands between a live read's identity check and its adoption (adopt).  What
\* liveOwner cannot tell is exempt: a login no snapshot holds, from a /login, a
\* rotation or a re-add in that window.
NeverCrossFiled == \A a \in Acct \ raced : store[a].acct = a

Held(a) == {g \in valid : g.acct = a /\
              (g = live \/ g \in {store[x] : x \in Acct} \/ \E p \in Proc : g = w[p].new)}

\* Custody: a grant the endpoint honours is always held for each account, in a
\* snapshot, in the live file or on its way to them, however polls, freshens,
\* switches, Claude Code's rotations and re-logins interleave.
GrantNeverLost == \A a \in Acct \ Exempt : Held(a) # {}

\* An unattended switch never erases the only copy of a managed account's
\* grant: "cannot attribute the live file" is not "nobody is live".  A login
\* the oracle found foreign is exempt.
NoUnattendedLoss ==
    [][\A p \in Proc :
         (Install(p) /\ Unattended(p) /\ ~w[p].foreign /\ live \in valid /\ live' # live)
            => StoredBy(live) # {} \/ live.acct \notin Acct]_vars

\* Snapshots move forward: the pair minted from an older grant never replaces
\* a newer login, whichever of the refresh, the live adoption and the user's
\* re-login is written last (writeRecord).  resolveLive's overlay is exempt:
\* AdoptsForward is about it.
MovesForward ==
    (~\E p \in Proc : ResolveAdopt(p)) =>
        \A a \in Acct \ Exempt' : store'[a] # store[a] => store'[a].gen > store[a].gen

SnapshotsMoveForward == [][MovesForward]_vars

\* Rotation stomp: the inactive branch never spends the very grant Claude Code
\* is logged in with, although it looks at the file with no lock held.
NoStomp == [][\A p \in Proc : (Post(p) /\ valid' # valid) => w[p].rec # live]_vars

\* An unattended switch never hands Claude Code a login it would rotate on
\* sight, moving the grant from under the snapshot just installed.
NoRotationHandedOver ==
    [][\A p \in Proc :
         (Install(p) /\ Unattended(p) /\ live' # live) => zone[live'] # "stale"]_vars

-----------------------------------------------------------------------------
(* What comments say and the code does not do *)

\* resolveLive's adoption moves the stored snapshot forward: "they are a
\* generation ahead of what the store holds".
AdoptsForward ==
    [][\A p \in Proc : (ResolveAdopt(p) /\ store' # store) =>
          w[p].seen \in valid \/ store[Resolved(p)] \notin valid]_vars
=============================================================================
