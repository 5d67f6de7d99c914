------------------------------ MODULE Sessions ------------------------------
(***************************************************************************)
(* The copies `ccdad run` and `ccdad probe` make of one account's login     *)
(* (cli/run.go, cli/probe.go): each session gets a credential home of its   *)
(* own, or the account's one profile, Claude Code refreshes in there, and   *)
(* what it left is carried back when it ends.  Meanwhile the daemon rotates *)
(* the stored copy, and the user may log in again.  A refresh token is a    *)
(* number, later ones expiring later; the issuer honours it once.           *)
(***************************************************************************)
EXTENDS Naturals, FiniteSets

CONSTANTS
    Sess,           \* sessions
    Profile,        \* the home of --full-profile
    Modes,          \* "own" (newSession, newProbeSession), "profile" (newProfile)
    NoFile, Zeroed, \* no file; the record Claude Code leaves when it is refused
    MaxGrant,       \* how often a token is minted
    MaxMishaps      \* how often a call fails, ccdad dies, or the user logs in again

ASSUME SessionsAssumption ==
    /\ MaxGrant \in Nat /\ MaxMishaps \in Nat
    /\ Modes \subseteq {"own", "profile"} /\ Profile \notin Sess
    /\ {NoFile, Zeroed} \cap (0..MaxGrant) = {}

VARIABLES
    honoured,       \* the issuer: the grants it will honour
    minted,
    stored,         \* the account's grant in the store
    quarantined,    \* the daemon does not try it
    home,           \* the grant in each home
    left,           \* the working grants in homes no session will come back to
    s,              \* the sessions
    forgone,        \* history: the grants overwritten with one that works, or on a
                    \* profile's account
    mishaps

sessionVars == <<honoured, minted, stored, quarantined, home, left, s, forgone, mishaps>>

Grant == 0..MaxGrant
Record == Grant \cup {NoFile, Zeroed}
NoRun == [pc |-> "idle", mode |-> "own", held |-> NoFile]

SessionsTypeOK ==
    /\ minted \in Grant /\ stored \in Grant /\ quarantined \in BOOLEAN /\ mishaps \in 0..MaxMishaps
    /\ {honoured, left, forgone} \subseteq SUBSET Grant
    /\ home \in [Sess \cup {Profile} -> Record]
    /\ s \in [Sess -> [pc : {"idle", "read", "running", "ended", "back", "adopted"},
                       mode : Modes \cup {"own"}, held : Record]]

SessionsInit ==
    /\ honoured = {0} /\ minted = 0 /\ stored = 0 /\ quarantined = FALSE /\ left = {} /\ forgone = {}
    /\ home = [h \in Sess \cup {Profile} |-> NoFile] /\ s = [i \in Sess |-> NoRun] /\ mishaps = 0

Mishap == mishaps < MaxMishaps /\ mishaps' = mishaps + 1
Home(i) == IF s[i].mode = "profile" THEN Profile ELSE i
Mint == minted' = minted + 1 /\ minted < MaxGrant

\* A home nobody returns to: what it holds, if it is there.
Leave(i) ==
    IF s[i].mode = "own" /\ home[i] # NoFile
    THEN /\ left' = left \cup ({home[i]} \cap honoured)
         /\ home' = [home EXCEPT ![i] = NoFile]
    ELSE UNCHANGED <<left, home>>

\* run reads the account's blob, and makes the home.
Begin(i, mode) ==
    /\ s[i].pc = "idle"
    /\ s' = [s EXCEPT ![i] = [pc |-> "read", mode |-> mode, held |-> stored]]
    /\ UNCHANGED <<honoured, minted, stored, quarantined, home, left, forgone, mishaps>>

\* seedSession writes it there, over what a profile held.
Seed(i) ==
    /\ s[i].pc = "read"
    /\ home' = [home EXCEPT ![Home(i)] = s[i].held]
    /\ forgone' = forgone \cup (({home[Home(i)]} \ {stored}) \cap honoured)
    /\ s' = [s EXCEPT ![i].pc = "running"]
    /\ UNCHANGED <<honoured, minted, stored, quarantined, left, mishaps>>

\* It cannot: the command goes straight to its end.
SeedFails(i) ==
    /\ s[i].pc = "read" /\ Mishap
    /\ s' = [s EXCEPT ![i].pc = "ended"]
    /\ UNCHANGED <<honoured, minted, stored, quarantined, home, left, forgone>>

\* Claude Code refreshes, under its home's lock; a refusal zeroes the record.
Rotate(h) ==
    /\ \E i \in Sess : s[i].pc = "running" /\ Home(i) = h
    /\ home[h] \in Grant
    /\ \/ /\ home[h] \in honoured /\ Mint
          /\ honoured' = (honoured \ {home[h]}) \cup {minted'}
          /\ home' = [home EXCEPT ![h] = minted']
       \/ /\ home[h] \notin honoured
          /\ home' = [home EXCEPT ![h] = Zeroed]
          /\ UNCHANGED <<honoured, minted>>
    /\ UNCHANGED <<stored, quarantined, left, s, forgone, mishaps>>

End(i) ==
    /\ s[i].pc = "running"
    /\ s' = [s EXCEPT ![i].pc = "ended"]
    /\ UNCHANGED <<honoured, minted, stored, quarantined, home, left, forgone, mishaps>>

-----------------------------------------------------------------------------
(* adoptBack *)

Finish(i) == s' = [s EXCEPT ![i] = [@ EXCEPT !.pc = "adopted", !.held = NoFile]]

CarriesAnything(record) == record # NoFile
CarriesGrant(record) == record \in Grant

\* The stored grant is the later one, where both state an expiry: an error.
OutdatedNever(fresh) == FALSE
Outdated(fresh) == fresh \in Grant /\ stored > fresh

\* sessionLogin; without a grant there is nothing to carry back.
ReadBack(i) ==
    /\ s[i].pc = "ended"
    /\ IF CarriesGrant(home[Home(i)])
       THEN s' = [s EXCEPT ![i].pc = "back", ![i].held = home[Home(i)]]
       ELSE Finish(i)
    /\ UNCHANGED <<honoured, minted, stored, quarantined, home, left, forgone, mishaps>>

RemoveAnyway(i) ==
    /\ Finish(i)
    /\ UNCHANGED <<stored, home, left>>

\* An error keeps the home, and ccdad is through with it.
Keep(i) ==
    /\ Leave(i)
    /\ s' = [s EXCEPT ![i] = NoRun]
    /\ UNCHANGED stored

\* Under the store's lock.
AdoptBack(i) ==
    /\ s[i].pc = "back"
    /\ \/ /\ Outdated(s[i].held) /\ Keep(i)
          /\ UNCHANGED <<mishaps, forgone>>
       \/ /\ ~Outdated(s[i].held) /\ stored' = s[i].held
          /\ forgone' = IF s[i].mode = "profile" \/ s[i].held \in honoured THEN forgone \cup ({stored} \cap honoured) ELSE forgone
          /\ Finish(i)
          /\ UNCHANGED <<home, left, mishaps>>
       \/ /\ Mishap /\ Keep(i)       \* busy
          /\ UNCHANGED forgone
    /\ UNCHANGED <<honoured, minted, quarantined>>

\* removeSession, of a home that is the session's own.
RemoveSession(i) ==
    /\ s[i].pc = "adopted"
    /\ IF s[i].mode = "own" THEN home' = [home EXCEPT ![i] = NoFile] ELSE UNCHANGED home
    /\ s' = [s EXCEPT ![i] = NoRun]
    /\ UNCHANGED <<honoured, minted, stored, quarantined, left, forgone, mishaps>>

-----------------------------------------------------------------------------
(* The rest of the machine. *)

\* SIGKILL.
Die(i) ==
    /\ s[i].pc # "idle" /\ Mishap
    /\ Leave(i)
    /\ s' = [s EXCEPT ![i] = NoRun]
    /\ UNCHANGED <<honoured, minted, stored, quarantined, forgone>>

\* The daemon rotates the stored grant, or has it refused.
DaemonPolls ==
    /\ ~quarantined
    /\ \/ /\ stored \in honoured /\ Mint
          /\ honoured' = (honoured \ {stored}) \cup {minted'}
          /\ stored' = minted'
          /\ UNCHANGED quarantined
       \/ /\ stored \notin honoured
          /\ quarantined' = TRUE
          /\ UNCHANGED <<honoured, minted, stored>>
    /\ UNCHANGED <<home, left, s, forgone, mishaps>>

\* `ccdad add`, a login of its own.
Login ==
    /\ Mishap /\ Mint
    /\ honoured' = honoured \cup {minted'} /\ forgone' = forgone \cup ({stored} \cap honoured)
    /\ stored' = minted' /\ quarantined' = FALSE
    /\ UNCHANGED <<home, left, s>>

SessionsNext ==
    \/ \E i \in Sess :
        \/ \E mode \in Modes : Begin(i, mode)
        \/ Seed(i) \/ SeedFails(i) \/ End(i) \/ ReadBack(i) \/ AdoptBack(i) \/ RemoveSession(i) \/ Die(i)
    \/ \E h \in Sess \cup {Profile} : Rotate(h)
    \/ DaemonPolls \/ Login

SessionsSpec == SessionsInit /\ [][SessionsNext]_sessionVars

-----------------------------------------------------------------------------

Held == {stored} \cup {home[h] : h \in DOMAIN home} \cup left

\* However sessions, the daemon's rotations, a busy store and a killed ccdad fall
\* together, every grant the issuer honours is on this machine, unless it was
\* forgone: a home is not deleted before what it holds is in the store (run.go
\* 1483-1500).
SessionGrantKept == honoured \subseteq forgone \cup Held

\* Carrying the grant of a session's own home back never replaces one that works
\* by one that does not (run.go 894, the generation check).
AdoptsAlive ==
    \A i \in Sess : s[i].pc = "back" /\ s[i].mode = "own" /\ s'[i].pc # "back" /\ stored \in honoured
        => stored' \in honoured
AdoptedIsAlive == [][AdoptsAlive]_sessionVars

\* "--full-profile gives an account ONE home, so its sessions share the locks"
\* (run.go 597), and a home kept because its grant could not be carried back "may
\* be the only copy" (run.go 1484): starting a session loses no grant.
StartingLosesNothing ==
    [][\A i \in Sess : s[i].pc = "read" /\ s'[i].pc = "running" /\ honoured \cap Held # {}
        => honoured \cap Held' # {}]_sessionVars
=============================================================================
