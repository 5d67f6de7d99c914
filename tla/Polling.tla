------------------------------ MODULE Polling ------------------------------
(***************************************************************************)
(* When an account is read and when its clock is started: the daemon's      *)
(* dispatch (tick.go), the schedules (pollpolicy.go) and the warm-ups of    *)
(* idle accounts (probe.go), over one row of the usage cache.  The account  *)
(* has one quota window and shares an allowance with the other accounts of  *)
(* its organization, whose live one may stand it down.  A unit of time is   *)
(* no shorter than a poll's or a child's deadline, so neither spans more    *)
(* than one end of a unit.  A warm-up is a child that spends one turn.      *)
(***************************************************************************)
EXTENDS Integers

CONSTANTS
    Absent,         \* no reading, no instant, nothing in flight
    Pcts,           \* what the window may be used
    Sharing,        \* how many accounts the organization may have
    Wakes,          \* may turns start the clock?
    Billed,         \* may turns be billed once the window is full?
    Phase,          \* the wait after a rollover (warmPhase)
    Length, Soon,   \* of the window; what may be left of it at first
    Lag,            \* how long the endpoint is unaware of a turn
    Threshold,
    T,              \* pollpolicy's Table
    Ladder,         \* probeBackoff: the gap after each number of strikes
    PollDelay, ConfirmAfter, WakeMargin, ProfileRetry,
    MaxTime, MaxUpsets

Instant == Nat \cup {Absent}
Reading == [pct: Pcts, reset: Instant]
Job == [kind: {"poll", "profile"}, since: Nat]

\* d with the tenth that jitter may add.
Stretch(d) == d + d \div 10

ASSUME PollingAssumption ==
    /\ Absent \notin Int /\ Absent \notin Reading /\ Absent \notin Job
    /\ Pcts \subseteq Nat /\ 0 \in Pcts /\ Sharing \subseteq Nat \ {0} /\ Wakes \subseteq BOOLEAN
    /\ Billed \in BOOLEAN /\ Threshold \in Int
    /\ {Phase, Lag, PollDelay, ConfirmAfter, WakeMargin, ProfileRetry, MaxTime, MaxUpsets} \subseteq Nat
    /\ {Length, Soon} \subseteq Nat \ {0}

\* The floors are below the ceilings, and an idle account's is the longest wait
\* but a 429's (pollpolicy's table).
ASSUME TableAssumption ==
    /\ {T.danger, T.urgent} \subseteq BOOLEAN /\ {T.dangerBand, T.urgentBand} \subseteq Int
    /\ {T.min, T.urgentInterval, T.activeMax, T.exhausted, T.serveTTL} \subseteq 0..T.candidateMax
    /\ T.candidateMax \in 0..T.post429Max /\ T.post429Min \in 0..T.post429Max
    /\ {T.post429Max, T.recent429} \subseteq Nat

\* A warm-up's delay is short of the waits it stands beside (ProbePollDelay,
\* probeBackoff, ProfileRetryInterval).
ASSUME GapsAssumption ==
    /\ PollDelay < T.candidateMax
    /\ Ladder \in [1..5 -> Nat] /\ \A k \in 1..5 : Ladder[1] <= Ladder[k]
    /\ Ladder[1] >= 2 * PollDelay + 4
    /\ ProfileRetry >= PollDelay + 5

VARIABLES
    time,
    mates, wakes,   \* which of Sharing and Wakes this account is
    live,
    meter,          \* the endpoint: how much is used, when the clock runs down
    entry,          \* the account's row of usage.json
    view,           \* the row a tick has loaded
    job, child,     \* a poll in flight; a warm-up in flight
    barred,         \* quarantined
    profile,        \* not before when the profile is fetched again; Absent: it is fresh
    ticked,
    upsets,         \* switches, stand-downs and faults so far
    stopped, turned \* history: when the clock last ran down, a turn was last spent

pollVars == <<time, mates, wakes, live, meter, entry, view, job, child, barred, profile, ticked, upsets, stopped, turned>>

Entry == [snap: Reading \cup {Absent}, at: Instant, next: Nat, hold: Nat, interval: 0..T.post429Max,
          limited: Instant, last: Pcts \cup {Absent}, tried: Instant, strikes: Nat]
NoEntry == [snap |-> Absent, at |-> Absent, next |-> 0, hold |-> 0, interval |-> 0,
            limited |-> Absent, last |-> Absent, tried |-> Absent, strikes |-> 0]

PollingTypeOK ==
    /\ time \in 0..MaxTime /\ mates \in Sharing /\ wakes \in Wakes /\ upsets \in 0..MaxUpsets
    /\ live \in BOOLEAN /\ barred \in BOOLEAN /\ ticked \in BOOLEAN
    /\ meter \in [pct: Pcts, stop: Instant]
    /\ entry \in Entry /\ view \in Entry \cup {Absent}
    /\ {entry.at, entry.limited, entry.tried, child, stopped, turned} \subseteq 0..time \cup {Absent}
    /\ profile \in Instant
    /\ job \in Job \cup {Absent}

PollingInit ==
    /\ time = 0 /\ mates \in Sharing /\ wakes \in Wakes /\ live \in BOOLEAN
    /\ meter \in [pct: {0}, stop: {Absent, Soon}]
    /\ entry = NoEntry /\ view = Absent /\ job = Absent /\ child = Absent
    /\ barred = FALSE /\ profile = 0 /\ ticked = FALSE /\ upsets = 0
    /\ stopped = IF meter.stop = Absent THEN 0 ELSE Absent
    /\ turned = Absent

Least(S)    == CHOOSE n \in S : \A m \in S : n <= m
Greatest(S) == CHOOSE n \in S : \A m \in S : n >= m
Running     == meter.stop # Absent /\ meter.stop > time
Upset       == upsets < MaxUpsets /\ upsets' = upsets + 1

-----------------------------------------------------------------------------
(* pollpolicy *)

\* Whole instants within a tenth of d.
Jittered(d) == d - d \div 10 .. Stretch(d)

UsedUp(s)    == s # Absent /\ (s.pct > Threshold \/ s.pct >= 100)
Near(s)      == s # Absent /\ s.pct >= Threshold - T.urgentBand
InDanger(s)  == T.danger /\ live /\ s # Absent /\ s.pct >= T.dangerBand
Moving(e, s) == s # Absent /\ e.last # Absent /\ s.pct # e.last
Recent429(e) == e.limited # Absent /\ time - e.limited < T.recent429

\* snap is the reading the row will hold, s what this poll read of it.
Urgent(e, snap, s) ==
    T.urgent /\ live /\ ~UsedUp(snap) /\ ~InDanger(s) /\ Moving(e, s) /\ Near(s)

Base(e, snap, s) ==
    IF InDanger(s) THEN T.min
    ELSE IF UsedUp(snap) THEN T.exhausted
    ELSE IF Urgent(e, snap, s) THEN T.urgentInterval
    ELSE IF Moving(e, s) THEN T.min
    ELSE IF live THEN T.activeMax ELSE T.candidateMax

\* PerIdentity, Share: the allowance is the organization's; a live account in
\* the band is exempt.
Shared(n, s) == IF InDanger(s) THEN n ELSE n * mates

\* Next: the wait until the account's next poll.
Cadence(e, snap, s) ==
    LET base == Base(e, snap, s)
        held == IF Recent429(e) THEN Greatest({base, T.post429Min, e.interval}) ELSE base
        d    == IF held < T.min /\ ~Urgent(e, snap, s) THEN T.min ELSE held
    IN {Shared(n, s) : n \in Jittered(d)}

\* Mutant: the endpoint's own request is not held to the ceiling.
BackoffAtWill(e, retry) ==
    LET grown == (3 * (IF e.interval <= 0 THEN T.post429Min ELSE e.interval)) \div 2
    IN Greatest({Least({grown, T.post429Max}), retry})

\* RateLimited: the interval grows by a half, to what the endpoint asked for at
\* least and the ceiling at most.
Backoff(e, retry) ==
    LET grown == (3 * (IF e.interval <= 0 THEN T.post429Min ELSE e.interval)) \div 2
    IN Least({Greatest({grown, retry}), T.post429Max})

-----------------------------------------------------------------------------
(* Warm-ups *)

\* Mutant: a window never spent against has no clock to start.
RolledOver(s) == s # Absent /\ s.reset # Absent /\ s.reset <= time

\* ColdWindow: never spent against, or rolled over.
Cold(s) == s # Absent /\ ((s.pct = 0 /\ s.reset = Absent) \/ (s.reset # Absent /\ s.reset <= time))

MayProbe(e) ==
    \/ e.tried = Absent
    \/ /\ e.tried <= time
       /\ \/ e.snap.reset # Absent /\ e.strikes = 0 /\ e.tried < e.snap.reset
          \/ /\ e.snap.reset = Absent \/ e.strikes > 0
             /\ time >= e.tried + Ladder[Least({e.strikes, 4}) + 1]

ProbeDue(e) ==
    /\ ~live /\ ~barred
    /\ Cold(e.snap) /\ ~(e.snap.pct >= 100 /\ Billed)
    /\ MayProbe(e)
    /\ e.snap.reset # Absent => time >= e.snap.reset + Phase

\* Mutant: an attempt is stamped with the poll it schedules only.
RecordSchedule(e) == [e EXCEPT !.next = time + PollDelay]

\* RecordProbe, before the child and when it ends.
RecordProbe(e) ==
    [e EXCEPT !.tried = time, !.next = time + PollDelay, !.at = IF @ = Absent THEN time ELSE @]

\* The verdict on the last attempt: the window wakes, or the reading being
\* replaced is newer than the attempt, or it is too soon to say, or it is a strike.
Judged(e, s) ==
    IF s = Absent \/ e.tried = Absent THEN e.strikes
    ELSE IF s.reset # Absent /\ s.reset > time THEN 0
    ELSE IF e.at > e.tried THEN e.strikes
    ELSE IF time < e.tried + ConfirmAfter THEN e.strikes
    ELSE e.strikes + 1

\* Aim at the moment the clock runs down: warmTarget, warmClamp.
WarmClamp(natural, snap) ==
    IF snap = Absent \/ snap.reset = Absent \/ snap.reset <= time THEN natural
    ELSE LET target == snap.reset + WakeMargin
             pull   == target - T.serveTTL
         IN IF natural >= target THEN target
            ELSE IF natural > pull /\ pull > time THEN pull ELSE natural

-----------------------------------------------------------------------------
(* A tick: the row is loaded, the login may be moved, polls are dispatched *)

\* PollAt is the later of the two for an account that is not live.
PollAt(e) == IF ~live /\ e.hold > e.next THEN e.hold ELSE e.next

\* Mutant: an account that is due for a warm-up only is not due for a poll.
DueUnlessCold(e) == e.at = Absent \/ (~Cold(e.snap) /\ time - e.at >= T.serveTTL /\ time >= PollAt(e))

Due(e) == e.at = Absent \/ (time - e.at >= T.serveTTL /\ time >= PollAt(e))

LoadCache ==
    /\ view = Absent /\ ~ticked
    /\ view' = entry
    /\ UNCHANGED <<time, mates, wakes, live, meter, entry, job, child, barred, profile, ticked, upsets, stopped, turned>>

Switch ==
    /\ view # Absent /\ Upset
    /\ live' = ~live
    /\ UNCHANGED <<time, mates, wakes, meter, entry, view, job, child, barred, profile, ticked, stopped, turned>>

Poll == /\ job' = [kind |-> "poll", since |-> time]
        /\ UNCHANGED <<entry, child, turned>>

\* The attempt is stamped before the child runs.
Probe == /\ entry' = RecordProbe(entry) /\ child' = time /\ turned' = time
         /\ UNCHANGED <<job, upsets>>

\* A poll in flight is not doubled; a stale profile comes first; a warm-up that
\* was recorded replaces the poll.  Without Claude Code, or with the cache
\* busy, nothing is recorded.
Dispatch ==
    /\ view # Absent
    /\ IF job # Absent THEN UNCHANGED <<entry, job, child, upsets, turned>>
       ELSE IF profile # Absent /\ profile <= time
       THEN job' = [kind |-> "profile", since |-> time] /\ UNCHANGED <<entry, child, upsets, turned>>
       ELSE IF ~Due(view) THEN UNCHANGED <<entry, job, child, upsets, turned>>
       ELSE IF ProbeDue(view) THEN Probe \/ (Upset /\ Poll)
       ELSE Poll /\ UNCHANGED upsets
    /\ view' = Absent /\ ticked' = TRUE
    /\ UNCHANGED <<time, mates, wakes, live, meter, barred, profile, stopped>>

\* checkProfile: the attempt is recorded in the store before the request, unless
\* the store is busy.
ProfileEnds ==
    /\ job # Absent /\ job.kind = "profile" /\ job' = Absent
    /\ \/ \E fresh \in BOOLEAN :
            /\ profile' = IF fresh THEN Absent ELSE time + ProfileRetry
            /\ UNCHANGED upsets
       \/ Upset /\ UNCHANGED profile
    /\ UNCHANGED <<time, mates, wakes, live, meter, entry, view, child, barred, ticked, stopped, turned>>

\* What the endpoint says: nothing of a clock that has stopped, nor for a while
\* of one that has just been started.
Reads ==
    LET runs == IF Running THEN {meter.stop} ELSE {}
    IN {[pct |-> meter.pct, reset |-> r] :
           r \in IF Running /\ meter.stop - Length + Lag < time THEN runs ELSE runs \cup {Absent}}

Commit(e, s) ==
    LET snap == IF s = Absent THEN e.snap ELSE s
    IN \E wait \in Cadence(e, snap, s) :
         entry' = [e EXCEPT
            !.snap = snap, !.strikes = Judged(e, s),
            !.at = IF s # Absent \/ @ = Absent THEN time ELSE @,
            !.next = WarmClamp(time + wait, snap),
            !.interval = IF Recent429(e) THEN @ ELSE 0,
            !.last = IF s = Absent THEN @ ELSE s.pct]

\* poll: a reading, a 429, or a failure that may condemn the grant.
PollEnds ==
    /\ job # Absent /\ job.kind = "poll" /\ job' = Absent
    /\ \/ \E s \in Reads : Commit(entry, s) /\ UNCHANGED <<barred, upsets>>
       \/ \E retry \in {0, T.post429Max + 1} :
            /\ Commit([entry EXCEPT !.limited = time, !.interval = Backoff(entry, retry)], Absent)
            /\ Upset /\ UNCHANGED barred
       \/ \E dead \in BOOLEAN :
            Commit(entry, Absent) /\ barred' = (barred \/ dead) /\ Upset
    /\ UNCHANGED <<time, mates, wakes, live, meter, view, child, profile, ticked, stopped, turned>>

\* standDown: the live account of the organization is in the danger band and has
\* just been read.  A stand-down that has not run out is not renewed, and an
\* account never read is left alone.
StandDown ==
    /\ ticked /\ T.danger /\ ~live /\ mates > 1 /\ entry.at # Absent /\ time >= entry.hold /\ Upset
    /\ \E wait \in Jittered(T.post429Max) : entry' = [entry EXCEPT !.hold = time + wait]
    /\ UNCHANGED <<time, mates, wakes, live, meter, view, job, child, barred, profile, ticked, stopped, turned>>

\* The child's turn starts the clock; it stamps the attempt again when it ends,
\* unless the cache is busy.
ChildEnds ==
    /\ child # Absent /\ child' = Absent
    /\ \/ /\ meter' = [meter EXCEPT !.stop = IF Running \/ ~wakes THEN @ ELSE time + Length]
          /\ entry' = RecordProbe(entry) /\ UNCHANGED upsets
       \/ Upset /\ UNCHANGED meter /\ entry' \in {RecordProbe(entry), entry}
    /\ UNCHANGED <<time, mates, wakes, live, view, job, barred, profile, ticked, stopped, turned>>

\* The user spends on the live account.
Spend ==
    /\ live /\ ~ticked /\ view = Absent
    /\ \E pct \in {p \in Pcts : p > meter.pct} :
         meter' = [pct |-> pct, stop |-> IF Running THEN meter.stop ELSE time + Length]
    /\ UNCHANGED <<time, mates, wakes, live, entry, view, job, child, barred, profile, ticked, upsets, stopped, turned>>

\* At least one tick in every unit; a poll and a warm-up end in the unit after
\* the one they began in, at the latest.
Clock ==
    /\ time < MaxTime /\ ticked
    /\ job # Absent => job.since = time
    /\ child # Absent => child = time
    /\ time' = time + 1 /\ ticked' = FALSE
    /\ IF meter.stop = time + 1
       THEN meter' = [meter EXCEPT !.pct = 0] /\ stopped' = time + 1
       ELSE UNCHANGED <<meter, stopped>>
    /\ UNCHANGED <<mates, wakes, live, entry, view, job, child, barred, profile, upsets, turned>>

\* The end of the bounded time.
Over == time = MaxTime /\ UNCHANGED pollVars

PollingNext ==
    \/ LoadCache \/ Switch \/ Dispatch \/ ProfileEnds \/ PollEnds \/ StandDown \/ ChildEnds
    \/ Spend \/ Clock \/ Over

PollingSpec == PollingInit /\ [][PollingNext]_pollVars

-----------------------------------------------------------------------------
(* Properties *)

\* The longest wait between two readings when nothing is out of the ordinary: a
\* share of the allowance, two units for a stale profile and one for a poll in
\* flight, and a warm-up in the place of a poll.
Longest == mates * Stretch(T.candidateMax) + PollDelay + 4

\* And what one event may add.
Overhead == mates * Stretch(T.post429Max) + PollDelay + 4

\* No account goes unread: profiles that come first, warm-ups that take the
\* place of a poll, polls in flight and looks aimed at a rollover may each delay
\* the next reading, and a 429, a failure or a stand-down adds its wait, but the
\* delays do not feed on each other (dispatch, commit, standDown).
NeverForgotten ==
    entry.at # Absent => time - entry.at <= Longest + upsets * Overhead

\* The errand of the warm-ups: with nothing out of the ordinary, an idle
\* account's stopped clock is running again one look and the phase later.  Seven
\* units are for what may come first: three for the first profile and poll of an
\* account never read, one for a poll by a row written since, two for a profile
\* gone stale, one for the child (dispatch, ProbeDue, Judged).
StartsAgain ==
    upsets = 0 /\ wakes /\ ~live /\ ~Running /\ stopped # Absent =>
        time - stopped <= mates * Stretch(T.candidateMax) + Phase + 7

\* Turns cost quota: unless the clock has run down since the last attempt, the
\* next is at least a settle gap later, also when the tick judges a stale row
\* or the child's own stamp is lost (RecordProbe, MayProbe).
SpacesTurns ==
    child = Absent /\ child' # Absent =>
       \/ turned = Absent
       \/ time - turned >= Ladder[1]
       \/ stopped # Absent /\ turned <= stopped
TurnsAreSpaced == [][SpacesTurns]_pollVars
=============================================================================
