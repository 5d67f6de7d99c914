------------------------------- MODULE Engine -------------------------------
(***************************************************************************)
(* The auto-switch engine over time: what a pass decides (antiflap.go's     *)
(* Decide over evaluate.go's candidates), and what becomes of the decision  *)
(* while polls bring readings, the user switches, grants are quarantined    *)
(* and a second evaluator runs: the daemon's tick and `ccdad auto --once`   *)
(* share the readings and the state file, and nothing else.                 *)
(***************************************************************************)
EXTENDS Ranking

CONSTANTS
    Daemon, Command,    \* evaluators
    Readings,           \* the readings a poll of each account may bring
    MaxNews,            \* bound: readings, quarantines and things the user does
    MaxFaults           \* bound: state files not read or not written, crashes

Lane == Daemon \cup Command

ASSUME EngineAssumption ==
    /\ Daemon \cap Command = {} /\ Readings \in [Acct -> SUBSET Reading]
    /\ MaxNews \in Nat /\ MaxFaults \in Nat

VARIABLES
    reading,    \* the usage cache
    out,        \* accounts disabled, elsewhere, without a subscription or a login
    held,       \* quarantined accounts
    live, seen, \* whose login Claude Code holds, and whether the store can name it
    cooling,    \* the last recorded switch is within the cooldown
    strategy,
    job,        \* each evaluator's plan
    news, faults,
    \* history, read by the properties only
    left        \* accounts an evaluator left since the last news

learned == <<reading, out, held, strategy>>
vars    == <<learned, live, seen, cooling, job, news, faults, left>>

Plan == [pc: {"idle", "resolve", "install", "record"}, target: Acct \cup {None},
         from: Acct \cup {None}, foreign: BOOLEAN,
         fresh: BOOLEAN]    \* history: nothing was learned since it was made
Idle == [pc |-> "idle", target |-> None, from |-> None, foreign |-> FALSE, fresh |-> FALSE]

Init ==
    /\ reading \in [Acct -> UNION {Readings[a] : a \in Acct} \cup {None}]
    /\ \A a \in Acct : reading[a] \in Readings[a] \cup {None}
    /\ strategy \in Strategy
    /\ out = {} /\ held = {}
    /\ live \in Acct \cup {None} /\ seen = TRUE
    /\ cooling = FALSE
    /\ job = [p \in Lane |-> Idle]
    /\ news = 0 /\ faults = 0 /\ left = {}

At(p, s)   == job[p].pc = s
Return(p)  == job' = [job EXCEPT ![p] = Idle]
Fault      == faults < MaxFaults /\ faults' = faults + 1
Observed   == IF seen THEN live ELSE None

\* Anything that may change a decision: earlier decisions are stale.
Learn ==
    /\ news < MaxNews /\ news' = news + 1
    /\ left' = {}

Stale(J) == [p \in Lane |-> [J[p] EXCEPT !.fresh = FALSE]]

-----------------------------------------------------------------------------
(* Decide *)

\* blind: the state file could not be read, so nothing is quarantined or cooling.
Pass(blind) ==
    [strategy |-> strategy, rd |-> reading, all |-> Acct \ out,
     pool |-> (Acct \ out) \ (IF blind THEN {} ELSE held)]

Margin(o) == IF Hovers(o) THEN 3 ELSE Hysteresis
Factor(o) == IF Hovers(o) THEN 1 ELSE Ratio
Delay(o)  == IF Hovers(o) THEN 5 ELSE RecoveryHysteresis

HeadroomGate(o, r, s) ==
    \/ ~r.h.known \/ ~s.h.known
    \/ /\ s.h.slack >= r.h.slack + Margin(o)
       /\ Factor(o) > 1 => s.h.pct >= Factor(o) * r.h.pct

RecoveryGate(o, r, s) ==
    IF s.inside THEN r.recovers = None \/ s.recovers <= r.recovers - Delay(o)
    ELSE HeadroomGate(o, r, s)

ConsumeGate(o, r, s) ==
    r.weekly # None /\ s.weekly # None => s.weekly <= r.weekly - Delay(o)

ModeGate(o, mode, r, s) ==
    CASE mode = "headroom"      -> HeadroomGate(o, r, s)
      [] mode = "recovery"      -> RecoveryGate(o, r, s)
      [] mode = "consume-first" -> ConsumeGate(o, r, s)

\* Mutant: an emptied account is left whatever the target holds.
GateWaived(o, mode, r, s) == OutOfQuota(r.h) \/ ModeGate(o, mode, r, s)

\* Mutant: an emptied account is compared by margins like any other.
GateMeasured(o, mode, r, s) == (r.lastPoint /\ ~s.lastPoint) \/ ModeGate(o, mode, r, s)

\* Is the target s better enough than the live account r?  An empty account is
\* left for any that is not, and hover hands over the last point of a week.
Gate(o, mode, r, s) ==
    IF OutOfQuota(r.h) THEN ~OutOfQuota(s.h)
    ELSE (r.lastPoint /\ ~s.lastPoint) \/ ModeGate(o, mode, r, s)

\* What a pass would move to: what is about to run out is left for an account
\* ahead of it, then the best account is taken if the gate lets it, then, when
\* the main pool is exhausted, a last resort that may be spent on.
Moves(o, at, R, C, gone) ==
    LET mode == Mode(o, R)
        here == Find(R \cup C, at)
        best == Best(mode, R)
        paid == {r \in C : Armed(r)}
        paying == at \in o.pool /\ here \in C
    IN IF at \in o.pool /\ Preempts(o, R, here) THEN {PreemptTarget(o, R, here).uuid}
       ELSE IF R # {} /\ ~(paying /\ gone) /\ best.uuid # at
            THEN IF at \notin o.pool \/ Gate(o, mode, here, best) THEN {best.uuid} ELSE {}
       ELSE IF paid # {} /\ (R = {} \/ (gone /\ ~paying)) THEN {BestCredit(paid).uuid}
       ELSE {}

\* The accounts a pass would move to, none or one.
Wanted(o, at) == Moves(o, at, Order(o), Credit(o), MainPoolExhausted(o))

OneOf(S) == IF S = {} THEN None ELSE CHOOSE t \in S : TRUE

\* The account to move to, None to stay: a login that is ranked waits for the
\* cooldown, one that is not has nothing to compare with.
Decide(o, at, cool) ==
    IF o.strategy = "manual" \/ (at \in o.pool /\ cool) THEN None ELSE OneOf(Wanted(o, at))

-----------------------------------------------------------------------------
(* An evaluation and its execution *)

\* Evaluate.  A login the store cannot name is no baseline.
Evaluate(p) ==
    /\ At(p, "idle")
    /\ \E blind \in BOOLEAN :
       \E t \in {IF \E a \in Acct : reading[a] # None
                 THEN Decide(Pass(blind), Observed, cooling /\ ~blind) ELSE None} :
            /\ job' = IF t = None THEN job ELSE [job EXCEPT ![p] =
                 [pc |-> IF ~seen /\ p \in Daemon THEN "resolve" ELSE "install",
                  target |-> t, from |-> Observed, foreign |-> FALSE, fresh |-> ~blind]]
            /\ IF blind THEN Fault ELSE UNCHANGED faults
    /\ UNCHANGED <<learned, live, seen, cooling, news, left>>

\* Mutant: a login that was named after all is still taken for a stranger's.
ResolveForeign(p) ==
    /\ At(p, "resolve")
    /\ \/ seen' = TRUE
          /\ job' = [job EXCEPT ![p].pc = "install", ![p].from = live, ![p].foreign = TRUE]
       \/ Return(p) /\ UNCHANGED seen
    /\ UNCHANGED <<learned, live, cooling, news, faults, left>>

\* act: the profile endpoint is asked whose the login is, and may not know.
Resolve(p) ==
    /\ At(p, "resolve")
    /\ \/ /\ live # None
          /\ seen' = TRUE
          /\ job' = [job EXCEPT ![p].pc = "install", ![p].from = live, ![p].fresh = FALSE]
       \/ /\ live = None /\ ~seen
          /\ job' = [job EXCEPT ![p].pc = "install", ![p].foreign = TRUE]
          /\ UNCHANGED seen
       \/ Return(p) /\ UNCHANGED seen
    /\ UNCHANGED <<learned, live, cooling, news, faults, left>>

Installed(p) ==
    /\ live' = job[p].target /\ seen' = TRUE
    /\ job' = [job EXCEPT ![p].pc = "record"]
    /\ left' = IF job[p].fresh THEN left \cup ({live} \ {None}) ELSE {}

\* Execute: stands down when the live login is not the planned one any more, or
\* cannot be named, or another store, the environment or a grant that cannot be
\* freshened is in the way.
Install(p) ==
    /\ At(p, "install")
    /\ \/ /\ Observed = job[p].from /\ job[p].target # Observed
          /\ seen \/ job[p].foreign
          /\ Installed(p)
       \/ Return(p) /\ UNCHANGED <<live, seen, left>>
    /\ UNCHANGED <<learned, cooling, news, faults>>

\* The cooldown is recorded once the login is in place; a state file that
\* cannot be written is only reported.
Record(p) ==
    /\ At(p, "record")
    /\ \/ cooling' = TRUE /\ UNCHANGED faults
       \/ Fault /\ UNCHANGED cooling
    /\ Return(p)
    /\ UNCHANGED <<learned, live, seen, news, left>>

CooldownEnds ==
    /\ cooling /\ cooling' = FALSE
    /\ UNCHANGED <<learned, live, seen, job, news, faults, left>>

Crash(p) ==
    /\ ~At(p, "idle") /\ Fault
    /\ Return(p)
    /\ UNCHANGED <<learned, live, seen, cooling, news, left>>

-----------------------------------------------------------------------------
(* News *)

\* A poll commits a reading; with it time has passed for every account.
Poll(a) ==
    /\ Learn /\ job' = Stale(job)
    /\ \E r \in Readings[a] : reading' = [reading EXCEPT ![a] = r]
    /\ UNCHANGED <<out, held, strategy, live, seen, cooling, faults>>

\* A refused grant quarantines the account, for an hour or until it is added again.
Quarantine(a) ==
    /\ Learn /\ job' = Stale(job)
    /\ held' = IF a \in held THEN held \ {a} ELSE held \cup {a}
    /\ UNCHANGED <<reading, out, strategy, live, seen, cooling, faults>>

\* `ccdad disable`, a subscription that lapses, and back.
Toggle(a) ==
    /\ Learn /\ job' = Stale(job)
    /\ out' = IF a \in out THEN out \ {a} ELSE out \cup {a}
    /\ UNCHANGED <<reading, held, strategy, live, seen, cooling, faults>>

\* `ccdad switch`: the cooldown starts whoever switched.
UserSwitch(a) ==
    /\ Learn /\ job' = Stale(job)
    /\ live' = a /\ seen' = TRUE /\ cooling' = TRUE
    /\ UNCHANGED <<learned, faults>>

\* A login by hand that is no account of the store's, or a logout.
UserLogin ==
    /\ Learn /\ job' = Stale(job)
    /\ live' = None /\ seen' \in BOOLEAN
    /\ UNCHANGED <<learned, cooling, faults>>

\* Claude Code refreshes its login: the store does not recognise it any more.
Rotate ==
    /\ live # None /\ seen
    /\ Learn /\ job' = Stale(job)
    /\ seen' = FALSE
    /\ UNCHANGED <<learned, live, cooling, faults>>

-----------------------------------------------------------------------------
Execute(p) == Resolve(p) \/ Install(p) \/ Record(p)

Next ==
    \/ \E p \in Lane : Evaluate(p) \/ Execute(p) \/ Crash(p)
    \/ CooldownEnds
    \/ \E a \in Acct : Poll(a) \/ Quarantine(a) \/ Toggle(a) \/ UserSwitch(a)
    \/ UserLogin \/ Rotate

Spec == Init /\ [][Next]_vars

-----------------------------------------------------------------------------
(* Properties *)

TypeOK ==
    /\ DOMAIN reading = Acct /\ \A a \in Acct : reading[a] \in Readings[a] \cup {None}
    /\ strategy \in Strategy
    /\ out \subseteq Acct /\ held \subseteq Acct
    /\ live \in Acct \cup {None} /\ seen \in BOOLEAN /\ cooling \in BOOLEAN
    /\ job \in [Lane -> Plan]
    /\ \A p \in Lane : /\ At(p, "idle") <=> job[p].target = None
                       /\ job[p].foreign => job[p].from = None
    /\ news \in 0..MaxNews /\ faults \in 0..MaxFaults
    /\ left \subseteq Acct

H == INSTANCE Hops WITH at <- live, been <- left

\* Without news the engine, in whatever mode, with a second evaluator at its
\* side, after lost plans and unrecorded cooldowns, never comes back to an
\* account it has left: the margins do not have to stop a ping-pong.
NoPingPong == H!Spec

Now     == Pass(FALSE)
Choice  == Decide(Now, Observed, FALSE)
Rested  == \A p \in Lane : At(p, "idle")    \* what is decided is asked between passes
Ranked(a) == Find(Order(Now) \cup Credit(Now), a)
Serves(r) == r.h.known /\ ~OutOfQuota(r.h)

\* What NoPingPong leaves open: a pass preempts a last resort that Claude Code
\* is on, whose own weekly window runs out, while the main pool is exhausted, and
\* the next pass buys its way back.
SeatStays ==
    live \in Now.pool /\ Kind[live] = "credit" /\ MainPoolExhausted(Now) =>
        ~Preempts(Now, Order(Now), Ranked(live))

\* antiflap.go rules it out, of the move to a last resort: such "a credit account
\* carries no plan windows at all"; rank.go says that is false.
LastResortIsUnmeasured ==
    \A a \in Acct : Kind[a] = "credit" => \A r \in Readings[a] : Readable(r) = {}

\* The live account has nothing left and another one is known to have something.
Emptied ==
    /\ strategy \in {"headroom", "hover"}
    /\ Observed \in Now.pool /\ Kind[Observed] # "credit" /\ OutOfQuota(Ranked(Observed).h)
    /\ \E r \in Order(Now) : Serves(r)

\* An account with nothing left is left for one that is known to have something,
\* or, when all of those are past a threshold, for one that could not be read.
EmptiedIsLeft ==
    Rested /\ Emptied =>
        /\ Choice # None
        /\ \/ Serves(Ranked(Choice))
           \/ /\ ~Ranked(Choice).h.known
              /\ \A r \in Order(Now) : Serves(r) => Spent(r.h) \/ r.lastPoint

\* Nobody is moved onto an account of the main pool that has nothing left.
NoMoveOntoEmpty ==
    /\ Rested /\ strategy # "consume-first" /\ Observed \in Now.pool
    /\ Choice # None /\ Kind[Choice] # "credit"
    => ~OutOfQuota(Ranked(Choice).h)

\* Money: a last resort is entered only when each account of the main pool has
\* been read and is past a threshold its user typed, under hover too.
PaidLast ==
    Rested /\ Choice # None /\ Kind[Choice] = "credit" =>
        \A r \in Order(Now) :
            /\ r.reading # None
            /\ Kind[r.uuid] = "subscription" =>
                 \E w \in Readable(r.reading) :
                     r.reading.util[w] > Threshold[w] \/ r.reading.util[w] >= 100
=============================================================================
