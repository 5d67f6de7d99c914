------------------------------- MODULE Ranking -------------------------------
(***************************************************************************)
(* How the engine compares accounts: what a usage reading says an account   *)
(* has left (headroom.go), the thresholds hover derives from a pool         *)
(* (hover.go), the orders (rank.go), what is about to run out (preempt.go,  *)
(* sessionburn.go) and the money a last-resort account may spend            *)
(* (credit.go).  A reading is what the usage endpoint last said, its resets *)
(* in minutes from now.  Percentages are whole; the one division that is    *)
(* not exact, a hundred by the number of accounts, is rounded down, which   *)
(* moves no comparison with a whole number.                                 *)
(***************************************************************************)
EXTENDS Integers, FiniteSets

CONSTANTS
    Acct,           \* accounts, numbered in the order of their uuids
    Kind,           \* each one's kind
    Binding,        \* windows that bind: the pass may be narrowed to a model
    None,           \* a figure the endpoint did not send
    Threshold,      \* the configured threshold of each window
    CreditThreshold, Lead, Hysteresis, Ratio, RecoveryHysteresis, Horizon,
    Ceiling         \* max_auto_spend

Window    == {"session", "weekly", "model"}
Weekly    == {"weekly", "model"}
CapsModel == {"model"}              \* caps one model family, not the session
Length(w) == IF w = "session" THEN 300 ELSE 10080
Place     == [session |-> 1, weekly |-> 2, model |-> 3]
Strategy  == {"headroom", "consume-first", "hover", "manual"}

Extra == [state: {"enabled", "disabled", "blocked", "unknown"},
          pct: Nat \cup {None}, used: Nat \cup {None}, limit: Nat \cup {None}]
Burn  == [rate: Nat, window: Window]
Reading ==
    [util:    [Window -> 0..100 \cup {None}],
     reset:   [Window -> Int \cup {None}],
     extra:   Extra,
     blind:   Nat,                  \* from the reading to the next poll
     burn:    Burn \cup {None},     \* measured between the last two readings
     limited: BOOLEAN]              \* a 429 within the hour

ASSUME RankingAssumption ==
    /\ Acct \subseteq Nat /\ IsFiniteSet(Acct)
    /\ Kind \in [Acct -> {"subscription", "primary", "credit"}]
    /\ Binding \subseteq Window
    /\ None \notin Int /\ None \notin Acct /\ None \notin Burn /\ None \notin Reading
    /\ Threshold \in [Window -> 1..100] /\ CreditThreshold \in 1..100
    /\ Lead \in Nat /\ Hysteresis \in Nat \ {0} /\ Ratio \in Nat \ {0}
    /\ RecoveryHysteresis \in Nat \ {0} /\ Horizon \in Nat \ {0} /\ Ceiling \in Nat

Least(S)    == CHOOSE n \in S : \A m \in S : n <= m
Greatest(S) == CHOOSE n \in S : \A m \in S : n >= m

-----------------------------------------------------------------------------
(* What a reading says is left *)

Readable(r) == {w \in Binding : r # None /\ r.util[w] # None}
Room(r, w)  == 100 - r.util[w]

\* Distance from the window's threshold; a full window counts as full whatever
\* its threshold.
Slack(r, w, thr) ==
    IF r.util[w] >= 100 /\ thr[w] > r.util[w] THEN Room(r, w) ELSE thr[w] - r.util[w]

\* A model's blown cap does not decide while a window for every model is readable.
Ordering(r) ==
    {w \in Readable(r) : (w \in CapsModel /\ Room(r, w) <= 0) => Readable(r) \subseteq CapsModel}

Floors(r, thr) ==
    {w \in Readable(r) \cap Weekly : Slack(r, w, thr) < 0 \/ Room(r, w) <= 0}

Tightest(S, r, thr) ==
    CHOOSE w \in S : \A v \in S :
        \/ Slack(r, w, thr) < Slack(r, v, thr)
        \/ Slack(r, w, thr) = Slack(r, v, thr) /\ Place[w] <= Place[v]

FullOf(S, r) == {w \in S : Room(r, w) <= 0}

\* The window whose reset frees the account again.
Clears(r, thr) ==
    LET f == Floors(r, thr)
    IN IF f = {} THEN Tightest(Ordering(r), r, thr)
       ELSE Tightest(IF FullOf(f, r) = {} THEN f ELSE FullOf(f, r), r, thr)

Unread == [known |-> FALSE, slack |-> 0, pct |-> 0, min |-> 0, room |-> 0,
           tight |-> None, clears |-> None]

HeadroomFor(r, thr) ==
    LET all  == Readable(r)
        any  == all \ CapsModel
        left(S) == Least({Room(r, w) : w \in S})
        bind == Tightest(Ordering(r), r, thr)
    IN IF all = {} THEN Unread
       ELSE [known |-> TRUE, slack |-> Slack(r, bind, thr), pct |-> Room(r, bind),
             min   |-> left(all), room |-> left(IF any = {} THEN all ELSE any),
             tight |-> IF any = {} THEN None
                       ELSE CHOOSE w \in any : \A v \in any :
                              \/ Room(r, w) < Room(r, v)
                              \/ Room(r, w) = Room(r, v) /\ Place[w] <= Place[v],
             clears |-> Clears(r, thr)]

\* A primary credit seat is ranked by its allowance.
CreditHeadroom(r, thr) ==
    IF r = None \/ r.extra.pct = None THEN Unread
    ELSE [known |-> TRUE, slack |-> thr - r.extra.pct, pct |-> 100 - r.extra.pct,
          min |-> 100 - r.extra.pct, room |-> 100 - r.extra.pct,
          tight |-> None, clears |-> None]

Spent(h)      == h.known /\ (h.slack < 0 \/ h.min <= 0)
OutOfQuota(h) == h.known /\ h.room <= 0

\* Money a last-resort account may still spend, times ten: nine tenths of the
\* smaller of its limit and the ceiling, less what is spent.
CreditRoom(r) ==
    LET capacity == IF r.extra.limit = None THEN Ceiling ELSE Least({r.extra.limit, Ceiling})
    IN 9 * capacity - 10 * r.extra.used

CreditGate(r) ==
    /\ r # None /\ r.extra.state = "enabled"
    /\ Ceiling > 0 /\ r.extra.used # None /\ CreditRoom(r) > 0

-----------------------------------------------------------------------------
(* Hover: a threshold per window, from how far through it the account is *)

\* A pass "o" of the engine: its strategy, the readings "rd", the accounts that
\* are eligible, "all", and the "pool" of those that are not quarantined.
Elapsed(r, w) == IF Length(w) - r.reset[w] > Length(w) THEN Length(w) ELSE Length(w) - r.reset[w]
Expected(r, w) == (100 * Elapsed(r, w)) \div Length(w)
Started(r, w)  == r.reset[w] # None /\ Elapsed(r, w) >= 0

HoverElapsed(r, w) ==
    IF Started(r, w) THEN Expected(r, w) ELSE IF r.reset[w] # None THEN 0 ELSE 50

Read(o, S) == {a \in S : o.rd[a] # None}

\* The fastest measured rate: whoever is live burns at it.
SessionBurn(o, S) ==
    LET B == {o.rd[a].burn : a \in Read(o, S)} \ {None}
    IN IF B = {} THEN None ELSE CHOOSE b \in B : \A c \in B : b.rate >= c.rate
Burning(b, w) == b # None /\ w # None /\ Length(b.window) = Length(w)

Usable(o)    == Cardinality(Read(o, o.pool))
PoolShare(o) == 100 \div (IF Usable(o) < 1 THEN 1 ELSE Usable(o))

\* Room enough to outlast the two minutes between two switches.
Absorbs(o, r) ==
    LET any == Readable(r) \ CapsModel
        b == SessionBurn(o, o.pool)
        short(w) == IF Burning(b, w) /\ b.rate > 0
                    THEN Room(r, w) < 2 * b.rate
                    ELSE Room(r, w) * Length(w) < 200
    IN \A w \in (IF any = {} THEN Readable(r) ELSE any) : ~short(w)

\* Quota the account will lose at its weekly reset unless it gets more than its
\* share of the pool.
Stranded(o, r) ==
    LET dated == {w \in Readable(r) \cap Weekly : r.reset[w] # None}
        S == IF dated \ CapsModel = {} THEN dated ELSE dated \ CapsModel
        w == CHOOSE v \in S : \A u \in S : r.reset[v] <= r.reset[u]
        left == Room(r, w) - Usable(o) * (100 - Expected(r, w))
    IN IF \/ S = {} \/ ~Started(r, w) \/ r.reset[w] <= 0
          \/ Expected(r, w) >= 100 \/ left < 0 \/ ~Absorbs(o, r)
       THEN 0 ELSE left

HoverShare(o, r) == Greatest({PoolShare(o), Stranded(o, r)})

HoverThresholds(o, a) ==
    LET r     == o.rd[a]
        share == HoverShare(o, r)
    IN [w \in Window |-> share + (IF r = None THEN 50 ELSE HoverElapsed(r, w))]

Hovers(o)          == o.strategy = "hover"
ThresholdsFor(o, a) == IF Hovers(o) THEN HoverThresholds(o, a) ELSE Threshold

\* The widest gap between two polls of the pool, from one minute to ten.
PreemptLead(o) ==
    LET gaps == {o.rd[a].blind : a \in Read(o, o.pool)} \cup {1}
    IN IF ~Hovers(o) THEN Lead ELSE Least({10, Greatest(gaps)})

-----------------------------------------------------------------------------
(* The orders *)

WeeklyReset(r) ==
    LET at == {r.reset[w] : w \in Binding \cap Weekly} \ {None}
    IN IF r = None \/ at = {} THEN None ELSE Least(at)

Headroom(o, a) ==
    IF Kind[a] = "primary"
    THEN CreditHeadroom(o.rd[a], IF Hovers(o) THEN 95 ELSE CreditThreshold)
    ELSE HeadroomFor(o.rd[a], ThresholdsFor(o, a))

\* An account as the pass ranks it, h being its headroom.
Row(o, a, h) ==
    LET r    == o.rd[a]
        back == IF h.clears = None THEN None ELSE r.reset[h.clears]
    IN [uuid |-> a, reading |-> r, h |-> h,
        recovers |-> back, inside |-> back # None /\ back <= Horizon,
        lastPoint |-> Hovers(o) /\ h.known /\ h.tight \in Weekly /\ h.room <= 1,
        weekly |-> WeeklyReset(r)]
Measure(o, a) == Row(o, a, Headroom(o, a))

\* The pool as the pass measures it.  A credit account that is not primary is
\* not in the order but a last resort.
Order(o)  == {Measure(o, a) : a \in {b \in o.pool : Kind[b] # "credit"}}
Credit(o) == {Measure(o, a) : a \in {b \in o.pool : Kind[b] = "credit"}}

Find(R, a) == CHOOSE r \in R : r.uuid = a
Mode(o, R) ==
    IF o.strategy = "consume-first" THEN "consume-first"
    ELSE IF R # {} /\ \A r \in R : Spent(r.h) THEN "recovery" ELSE "headroom"

HeadroomTier(r) ==
    IF OutOfQuota(r.h) THEN 4
    ELSE IF r.lastPoint THEN 3
    ELSE IF ~r.h.known THEN 1
    ELSE IF Spent(r.h) THEN 2 ELSE 0
EmptyTier(r)  == IF OutOfQuota(r.h) THEN 1 ELSE 0
BackTier(r)   == IF r.inside THEN 0 ELSE 1
Undated(at)   == IF at = None THEN 1 ELSE 0
Sooner(s, t)  == s # None /\ t # None /\ s < t

\* Each order is by keys: the first that differ decide, and then the uuid.
LessHeadroom(r, s) ==
    \/ HeadroomTier(r) < HeadroomTier(s)
    \/ /\ HeadroomTier(r) = HeadroomTier(s)
       /\ \/ r.h.slack > s.h.slack
          \/ r.h.slack = s.h.slack /\ r.uuid < s.uuid

\* Inside the horizon the soonest back, outside it the roomiest.
LessRecovery(r, s) ==
    \/ EmptyTier(r) < EmptyTier(s)
    \/ /\ EmptyTier(r) = EmptyTier(s)
       /\ \/ BackTier(r) < BackTier(s)
          \/ /\ r.inside /\ s.inside
             /\ \/ r.recovers < s.recovers
                \/ r.recovers = s.recovers /\ r.h.slack > s.h.slack
                \/ r.recovers = s.recovers /\ r.h.slack = s.h.slack /\ r.uuid < s.uuid
          \/ /\ ~r.inside /\ ~s.inside
             /\ \/ r.h.slack > s.h.slack
                \/ /\ r.h.slack = s.h.slack
                   /\ \/ Undated(r.recovers) < Undated(s.recovers)
                      \/ Sooner(r.recovers, s.recovers)
                      \/ r.recovers = s.recovers /\ r.uuid < s.uuid

LessConsumeFirst(r, s) ==
    \/ Undated(r.weekly) < Undated(s.weekly)
    \/ Sooner(r.weekly, s.weekly)
    \/ r.weekly = s.weekly /\ r.uuid < s.uuid

\* Of last-resort accounts, those that may be spent on first, the roomiest first.
Armed(r) == CreditGate(r.reading)
LessCredit(r, s) ==
    \/ Armed(r) /\ ~Armed(s)
    \/ Armed(r) /\ Armed(s) /\ CreditRoom(r.reading) > CreditRoom(s.reading)
    \/ /\ Armed(r) <=> Armed(s)
       /\ Armed(r) => CreditRoom(r.reading) = CreditRoom(s.reading)
       /\ r.uuid < s.uuid

Less(mode, r, s) ==
    CASE mode = "headroom"      -> LessHeadroom(r, s)
      [] mode = "recovery"      -> LessRecovery(r, s)
      [] mode = "consume-first" -> LessConsumeFirst(r, s)

Best(mode, R)  == CHOOSE r \in R : \A s \in R \ {r} : Less(mode, r, s)
BestCredit(R)  == CHOOSE r \in R : \A s \in R \ {r} : LessCredit(r, s)

\* Mutant: asked with the thresholds of the pass.
PoolPastHover(o) == \A r \in Order(o) : Spent(r.h)

\* May the last resort be considered?  Asked with the configured thresholds,
\* before hover's.
MainPoolExhausted(o) ==
    \A r \in Order([o EXCEPT !.strategy = "headroom"]) : Spent(r.h)

-----------------------------------------------------------------------------
(* What is about to run out *)

\* At the rate of the window so far, once a seventh of it has run.
Projected(r, w, horizon) ==
    /\ w \in Readable(r) /\ Started(r, w) /\ 7 * Elapsed(r, w) >= Length(w)
    /\ r.util[w] > 0
    /\ (100 - r.util[w]) * Elapsed(r, w) <= horizon * r.util[w]

\* At the rate between the last two readings.
Measured(r, horizon) ==
    /\ r.burn # None /\ r.burn.rate > 0 /\ r.burn.window \in Readable(r)
    /\ Room(r, r.burn.window) <= r.burn.rate * horizon

Ahead(o, r) == r.reading.blind + PreemptLead(o)
RunsOut(o, r) ==
    /\ r.reading # None
    /\ \/ \E w \in Binding : Projected(r.reading, w, Ahead(o, r))
       \/ Measured(r.reading, Ahead(o, r))

\* It could take over what the session burns until its next reading and beyond.
Carries(o, r) ==
    LET b == SessionBurn(o, o.all)
    IN Burning(b, r.h.tight) /\ b.rate > 0 => r.h.room >= b.rate * Ahead(o, r)

CanTakeOver(o, r) == r.h.known /\ ~OutOfQuota(r.h) /\ ~RunsOut(o, r) /\ Carries(o, r)

\* Mutant: the walk does not stop at the live account.
PreemptablePast(o, R, live) == {r \in R : r # live /\ CanTakeOver(o, r)}

\* Only what is ranked ahead of the live account is a target.
Preemptable(o, R, live) ==
    {r \in R : (live \in R => Less(Mode(o, R), r, live)) /\ CanTakeOver(o, r)}

\* One whose reading was refused within the hour only when there is no other.
PreemptTarget(o, R, live) ==
    LET S    == Preemptable(o, R, live)
        calm == {r \in S : ~r.reading.limited}
    IN Best(Mode(o, R), IF calm = {} THEN S ELSE calm)

Preempts(o, R, live) ==
    /\ PreemptLead(o) > 0 /\ live.h.known /\ RunsOut(o, live)
    /\ Preemptable(o, R, live) # {}
=============================================================================
