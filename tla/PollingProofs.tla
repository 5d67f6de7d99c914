--------------------------- MODULE PollingProofs ---------------------------
(***************************************************************************)
(* What is proved of Polling for any tables, ladder, window, organization  *)
(* and number of events that keep to its assumptions.                      *)
(***************************************************************************)
EXTENDS Polling, TLAPS

-----------------------------------------------------------------------------
(* Choices, waits and the schedule *)

LEMMA LeastOfTwo ==
    ASSUME NEW a \in Nat, NEW b \in Nat
    PROVE  Least({a, b}) \in Nat /\ Least({a, b}) <= a /\ Least({a, b}) <= b /\ Least({a, b}) \in {a, b}
<1>1. \E n \in {a, b} : \A m \in {a, b} : n <= m
  <2>1. CASE a <= b
    BY <2>1
  <2>2. CASE b <= a
    BY <2>2
  <2> QED
    BY <2>1, <2>2
<1> QED
  BY <1>1 DEF Least

LEMMA GreatestOfTwo ==
    ASSUME NEW a \in Nat, NEW b \in Nat
    PROVE  Greatest({a, b}) \in Nat /\ Greatest({a, b}) \in {a, b}
<1>1. \E n \in {a, b} : \A m \in {a, b} : n >= m
  <2>1. CASE a >= b
    BY <2>1
  <2>2. CASE b >= a
    BY <2>2
  <2> QED
    BY <2>1, <2>2
<1> QED
  BY <1>1 DEF Greatest

LEMMA GreatestOfThree ==
    ASSUME NEW a \in Nat, NEW b \in Nat, NEW c \in Nat
    PROVE  Greatest({a, b, c}) \in Nat /\ Greatest({a, b, c}) \in {a, b, c}
<1>1. \E n \in {a, b, c} : \A m \in {a, b, c} : n >= m
  <2>1. CASE a >= b /\ a >= c
    BY <2>1
  <2>2. CASE b >= a /\ b >= c
    BY <2>2
  <2>3. CASE c >= a /\ c >= b
    BY <2>3
  <2> QED
    BY <2>1, <2>2, <2>3
<1> QED
  BY <1>1 DEF Greatest

LEMMA StretchGrows ==
    ASSUME NEW a \in Nat, NEW b \in Nat, a <= b
    PROVE  Stretch(a) \in Nat /\ a <= Stretch(a) /\ Stretch(a) <= Stretch(b)
BY DEF Stretch

LEMMA SharesGrow ==
    ASSUME NEW n \in Nat, NEW a \in Nat, NEW b \in Nat, a <= b
    PROVE  n * a \in Nat /\ n * b \in Nat /\ n * a <= n * b
OBVIOUS

LEMMA JitterStays ==
    ASSUME NEW d \in Nat, NEW n \in Jittered(d)
    PROVE  n \in Nat /\ n <= Stretch(d)
BY DEF Jittered, Stretch

LEMMA TableHolds ==
    /\ {T.min, T.urgentInterval, T.activeMax, T.exhausted, T.serveTTL, T.candidateMax} \subseteq Nat
    /\ {T.post429Min, T.post429Max, T.recent429} \subseteq Nat
    /\ T.min <= T.candidateMax /\ T.urgentInterval <= T.candidateMax /\ T.activeMax <= T.candidateMax
    /\ T.exhausted <= T.candidateMax /\ T.serveTTL <= T.candidateMax
    /\ T.candidateMax <= T.post429Max /\ T.post429Min <= T.post429Max
BY TableAssumption

\* The wait until the next poll is at most a share of the idle interval, or of
\* the backoff's ceiling after a recent 429 (Next).
LEMMA CadenceIsBounded ==
    ASSUME mates \in Nat \ {0}, NEW e \in Entry, NEW snap, NEW s, NEW wait \in Cadence(e, snap, s)
    PROVE  /\ wait \in Nat
           /\ wait <= mates * Stretch(T.post429Max)
           /\ ~Recent429(e) => wait <= mates * Stretch(T.candidateMax)
<1> DEFINE base == Base(e, snap, s)
           held == IF Recent429(e) THEN Greatest({base, T.post429Min, e.interval}) ELSE base
           d    == IF held < T.min /\ ~Urgent(e, snap, s) THEN T.min ELSE held
           top  == IF Recent429(e) THEN T.post429Max ELSE T.candidateMax
<1>1. base \in Nat /\ base <= T.candidateMax
  BY TableHolds DEF Base
<1>2. e.interval \in Nat /\ e.interval <= T.post429Max
  BY TableHolds DEF Entry
<1>3. top \in Nat /\ T.candidateMax <= top /\ top <= T.post429Max
  BY TableHolds
<1>4. held \in Nat /\ held <= top
  <2>1. CASE Recent429(e)
    <3> HIDE DEF base
    <3>1. Greatest({base, T.post429Min, e.interval}) \in {base, T.post429Min, e.interval}
      BY <1>1, <1>2, GreatestOfThree, TableHolds
    <3> QED
      BY <1>1, <1>2, <2>1, <3>1, TableHolds
  <2>2. CASE ~Recent429(e)
    BY <1>1, <2>2
  <2> QED
    BY <2>1, <2>2
<1>5. d \in Nat /\ d <= top
  <2> HIDE DEF held, top
  <2> QED
    BY <1>3, <1>4, TableHolds
<1>6. \E n \in Jittered(d) : wait = Shared(n, s)
  BY DEF Cadence
<1> HIDE DEF d, top
<1>7. PICK n \in Jittered(d) : wait = Shared(n, s)
  BY <1>6
<1>8. n \in Nat /\ n <= Stretch(top) /\ Stretch(top) \in Nat
  BY <1>3, <1>5, JitterStays, StretchGrows
<1>9. wait \in Nat /\ wait <= mates * Stretch(top)
  <2>1. mates * n \in Nat /\ mates * n <= mates * Stretch(top)
    BY <1>8, SharesGrow
  <2>2. n <= mates * n /\ n * mates = mates * n
    BY <1>8
  <2> QED
    BY <1>7, <1>8, <2>1, <2>2 DEF Shared
<1>10. Stretch(top) \in Nat /\ Stretch(T.post429Max) \in Nat /\ Stretch(top) <= Stretch(T.post429Max)
  BY <1>3, StretchGrows, TableHolds
<1>11. /\ mates * Stretch(top) <= mates * Stretch(T.post429Max)
       /\ mates * Stretch(top) \in Nat /\ mates * Stretch(T.post429Max) \in Nat
  BY <1>10, SharesGrow
<1> QED
  BY <1>9, <1>11 DEF top

LEMMA BackoffIsBounded ==
    ASSUME NEW e \in Entry, NEW retry \in Nat
    PROVE  Backoff(e, retry) \in 0..T.post429Max
<1> DEFINE grown == (3 * (IF e.interval <= 0 THEN T.post429Min ELSE e.interval)) \div 2
<1>1. grown \in Nat
  BY TableHolds DEF Entry
<1> HIDE DEF grown
<1>2. Greatest({grown, retry}) \in Nat
  BY <1>1, GreatestOfTwo
<1>3. Least({Greatest({grown, retry}), T.post429Max}) \in 0..T.post429Max
  BY <1>2, LeastOfTwo, TableHolds
<1> QED
  BY <1>3 DEF Backoff, grown

\* An aimed look is never later than the one it replaces.
LEMMA ClampIsEarlier ==
    ASSUME time \in Nat, NEW natural \in Nat, NEW snap \in Reading \cup {Absent}
    PROVE  WarmClamp(natural, snap) \in Nat /\ WarmClamp(natural, snap) <= natural
<1>1. CASE snap = Absent \/ snap.reset = Absent \/ snap.reset <= time
  BY <1>1 DEF WarmClamp
<1>2. CASE ~(snap = Absent \/ snap.reset = Absent \/ snap.reset <= time)
  <2>1. snap.reset \in Nat /\ WakeMargin \in Nat /\ T.serveTTL \in Nat
    BY <1>2, TableHolds, PollingAssumption DEF Reading, Instant
  <2> QED
    BY <1>2, <2>1 DEF WarmClamp
<1> QED
  BY <1>1, <1>2

-----------------------------------------------------------------------------
(* The row, as an attempt and a poll leave it *)

LEMMA AttemptIsStamped ==
    ASSUME time \in Nat, NEW e \in Entry
    PROVE  /\ RecordProbe(e) \in Entry
           /\ RecordProbe(e).tried = time /\ RecordProbe(e).next = time + PollDelay
           /\ RecordProbe(e).at = IF e.at = Absent THEN time ELSE e.at
           /\ RecordProbe(e).snap = e.snap /\ RecordProbe(e).hold = e.hold
           /\ RecordProbe(e).limited = e.limited /\ RecordProbe(e).strikes = e.strikes
<1>1. time \in Instant /\ time + PollDelay \in Nat
  BY PollingAssumption DEF Instant
<1> QED
  BY <1>1 DEF RecordProbe, Entry

LEMMA JudgedIsCounted ==
    ASSUME NEW e \in Entry, NEW s
    PROVE  Judged(e, s) \in Nat
BY DEF Judged, Entry

LEMMA PollIsCommitted ==
    ASSUME time \in Nat, mates \in Nat \ {0}, NEW e \in Entry, NEW s \in Reading \cup {Absent}, Commit(e, s)
    PROVE  /\ entry' \in Entry
           /\ entry'.snap = IF s = Absent THEN e.snap ELSE s
           /\ entry'.at = IF s # Absent \/ e.at = Absent THEN time ELSE e.at
           /\ entry'.hold = e.hold /\ entry'.tried = e.tried /\ entry'.limited = e.limited
           /\ entry'.strikes = Judged(e, s)
           /\ entry'.next <= time + mates * Stretch(T.post429Max)
           /\ ~Recent429(e) => entry'.next <= time + mates * Stretch(T.candidateMax)
<1> DEFINE snap == IF s = Absent THEN e.snap ELSE s
<1>1. snap \in Reading \cup {Absent}
  BY DEF Entry
<1>2. PICK wait \in Cadence(e, snap, s) :
         entry' = [e EXCEPT
            !.snap = snap, !.strikes = Judged(e, s),
            !.at = IF s # Absent \/ @ = Absent THEN time ELSE @,
            !.next = WarmClamp(time + wait, snap),
            !.interval = IF Recent429(e) THEN @ ELSE 0,
            !.last = IF s = Absent THEN @ ELSE s.pct]
  BY DEF Commit
<1> HIDE DEF snap
<1>3. /\ wait \in Nat
      /\ wait <= mates * Stretch(T.post429Max)
      /\ ~Recent429(e) => wait <= mates * Stretch(T.candidateMax)
  BY CadenceIsBounded
<1>4. WarmClamp(time + wait, snap) \in Nat /\ WarmClamp(time + wait, snap) <= time + wait
  BY <1>1, <1>3, ClampIsEarlier
<1>5. Judged(e, s) \in Nat
  BY JudgedIsCounted
<1>6. /\ (IF s # Absent \/ e.at = Absent THEN time ELSE e.at) \in Instant
      /\ (IF Recent429(e) THEN e.interval ELSE 0) \in 0..T.post429Max
      /\ (IF s = Absent THEN e.last ELSE s.pct) \in Pcts \cup {Absent}
  BY TableHolds DEF Entry, Reading, Instant
<1>7. entry' \in Entry
  BY <1>1, <1>2, <1>4, <1>5, <1>6 DEF Entry
<1>8. /\ entry'.snap = snap /\ entry'.next = WarmClamp(time + wait, snap)
      /\ entry'.at = IF s # Absent \/ e.at = Absent THEN time ELSE e.at
      /\ entry'.hold = e.hold /\ entry'.tried = e.tried /\ entry'.limited = e.limited
      /\ entry'.strikes = Judged(e, s)
  BY <1>2 DEF Entry
<1>9. mates * Stretch(T.post429Max) \in Nat /\ mates * Stretch(T.candidateMax) \in Nat
  BY TableHolds, StretchGrows, SharesGrow
<1> QED
  BY <1>3, <1>4, <1>7, <1>8, <1>9 DEF snap

LEMMA BackedOff ==
    ASSUME time \in Nat, NEW e \in Entry, NEW retry \in Nat
    PROVE  LET f == [e EXCEPT !.limited = time, !.interval = Backoff(e, retry)]
           IN /\ f \in Entry /\ f.limited = time /\ f.snap = e.snap /\ f.at = e.at
              /\ f.hold = e.hold /\ f.tried = e.tried
<1>1. Backoff(e, retry) \in 0..T.post429Max /\ time \in Instant
  BY BackoffIsBounded DEF Instant
<1> QED
  BY <1>1 DEF Entry

-----------------------------------------------------------------------------
(* Types *)

\* The numbers the bounds on time are made of.
LEMMA NumbersHold ==
    /\ MaxTime \in Nat /\ MaxUpsets \in Nat /\ Length \in Nat \ {0} /\ Soon \in Nat \ {0} /\ ProfileRetry \in Nat
    /\ PollDelay \in Nat /\ Absent \notin Nat
BY PollingAssumption

LEMMA InitIsTyped == ASSUME PollingInit PROVE PollingTypeOK
<1>1. NoEntry \in Entry
  BY TableHolds, PollingAssumption DEF NoEntry, Entry, Instant, Reading
<1>2. {NoEntry.at, NoEntry.limited, NoEntry.tried} = {Absent}
  BY DEF NoEntry
<1>3. stopped \in {0, Absent} /\ meter \in [pct: Pcts, stop: Instant]
  BY PollingAssumption DEF PollingInit, Instant
<1>4. {entry.at, entry.limited, entry.tried, child, stopped, turned} \subseteq 0..time \cup {Absent}
  BY <1>2, <1>3 DEF PollingInit
<1>5. time \in 0..MaxTime /\ upsets \in 0..MaxUpsets /\ profile \in Instant
  BY NumbersHold DEF PollingInit, Instant
<1> QED
  BY <1>1, <1>3, <1>4, <1>5 DEF PollingInit, PollingTypeOK

LEMMA DispatchIsTyped == ASSUME PollingTypeOK, Dispatch PROVE PollingTypeOK'
<1>1. time \in Nat /\ time \in 0..time
  BY NumbersHold DEF PollingTypeOK
<1>2. /\ UNCHANGED <<time, mates, wakes, live, meter, barred, profile, stopped>>
      /\ view' = Absent /\ ticked' = TRUE
  BY DEF Dispatch
<1>3. \/ UNCHANGED <<entry, child, turned>>
      \/ entry' = RecordProbe(entry) /\ child' = time /\ turned' = time
  BY DEF Dispatch, Probe, Poll
<1>4. \/ job' = job
      \/ job' = [kind |-> "profile", since |-> time]
      \/ job' = [kind |-> "poll", since |-> time]
  BY DEF Dispatch, Probe, Poll
<1>5. upsets' \in 0..MaxUpsets
  BY NumbersHold DEF Dispatch, Probe, Poll, Upset, PollingTypeOK
<1>6. job' \in Job \cup {Absent}
  BY <1>1, <1>4 DEF PollingTypeOK, Job
<1>7. entry' \in Entry /\ {entry'.at, entry'.limited, entry'.tried, child', stopped', turned'} \subseteq 0..time \cup {Absent}
  <2>1. CASE UNCHANGED <<entry, child, turned>>
    BY <1>2, <2>1 DEF PollingTypeOK
  <2>2. CASE entry' = RecordProbe(entry) /\ child' = time /\ turned' = time
    BY <1>1, <1>2, <2>2, AttemptIsStamped DEF PollingTypeOK
  <2> QED
    BY <1>3, <2>1, <2>2
<1> QED
  BY <1>2, <1>5, <1>6, <1>7 DEF PollingTypeOK

LEMMA ReadsAreTyped ==
    ASSUME PollingTypeOK, NEW s \in Reads
    PROVE  s \in Reading /\ s # Absent /\ s.reset \in {meter.stop, Absent}
<1>1. PICK r \in {meter.stop, Absent} : s = [pct |-> meter.pct, reset |-> r]
  BY DEF Reads
<1> QED
  BY <1>1, PollingAssumption DEF Reading, Instant, PollingTypeOK

LEMMA PollEndsIsTyped == ASSUME PollingTypeOK, PollEnds PROVE PollingTypeOK'
<1>1. time \in Nat /\ time \in 0..time /\ mates \in Nat \ {0}
  BY NumbersHold, PollingAssumption DEF PollingTypeOK
<1>2. /\ UNCHANGED <<time, mates, wakes, live, meter, view, child, profile, ticked, stopped, turned>>
      /\ job' = Absent
  BY DEF PollEnds
<1>3. barred' \in BOOLEAN /\ upsets' \in 0..MaxUpsets
  BY NumbersHold DEF PollEnds, Upset, PollingTypeOK
<1>4. entry' \in Entry /\ {entry'.at, entry'.limited, entry'.tried} \subseteq 0..time \cup {Absent}
  <2>1. ASSUME NEW s \in Reading \cup {Absent}, Commit(entry, s)
        PROVE  entry' \in Entry /\ {entry'.at, entry'.limited, entry'.tried} \subseteq 0..time \cup {Absent}
    BY <1>1, <2>1, PollIsCommitted DEF PollingTypeOK
  <2>2. ASSUME NEW retry \in {0, T.post429Max + 1},
               Commit([entry EXCEPT !.limited = time, !.interval = Backoff(entry, retry)], Absent)
        PROVE  entry' \in Entry /\ {entry'.at, entry'.limited, entry'.tried} \subseteq 0..time \cup {Absent}
    <3> DEFINE f == [entry EXCEPT !.limited = time, !.interval = Backoff(entry, retry)]
    <3>1. retry \in Nat /\ entry \in Entry
      BY TableHolds DEF PollingTypeOK
    <3>2. f \in Entry /\ f.limited = time /\ f.at = entry.at /\ f.tried = entry.tried
      BY <1>1, <3>1, BackedOff
    <3> HIDE DEF f
    <3>3. /\ entry' \in Entry /\ entry'.at \in {time, f.at} /\ entry'.limited = f.limited /\ entry'.tried = f.tried
      BY <1>1, <2>2, <3>2, PollIsCommitted DEF f
    <3> QED
      BY <1>1, <3>2, <3>3 DEF PollingTypeOK
  <2>3. Reads \subseteq Reading
    BY ReadsAreTyped
  <2> QED
    BY <2>1, <2>2, <2>3 DEF PollEnds
<1> QED
  BY <1>2, <1>3, <1>4 DEF PollingTypeOK

LEMMA StandDownIsTyped == ASSUME PollingTypeOK, StandDown PROVE PollingTypeOK'
<1>1. PICK wait \in Jittered(T.post429Max) : entry' = [entry EXCEPT !.hold = time + wait]
  BY DEF StandDown
<1>2. time \in Nat /\ wait \in Nat
  BY NumbersHold, TableHolds, JitterStays DEF PollingTypeOK
<1>3. entry' \in Entry /\ entry'.at = entry.at /\ entry'.limited = entry.limited /\ entry'.tried = entry.tried
  BY <1>1, <1>2 DEF PollingTypeOK, Entry
<1>4. upsets' \in 0..MaxUpsets
  BY NumbersHold DEF StandDown, Upset, PollingTypeOK
<1> QED
  BY <1>3, <1>4 DEF StandDown, PollingTypeOK

LEMMA ChildEndsIsTyped == ASSUME PollingTypeOK, ChildEnds PROVE PollingTypeOK'
<1>1. time \in Nat /\ time \in 0..time
  BY NumbersHold DEF PollingTypeOK
<1>2. entry' \in {entry, RecordProbe(entry)} /\ upsets' \in 0..MaxUpsets
  BY NumbersHold DEF ChildEnds, Upset, PollingTypeOK
<1>3. entry' \in Entry /\ {entry'.at, entry'.limited, entry'.tried} \subseteq 0..time \cup {Absent}
  BY <1>1, <1>2, AttemptIsStamped DEF PollingTypeOK
<1>4. meter' \in [pct: Pcts, stop: Instant]
  <2>1. meter' = meter \/ meter' = [meter EXCEPT !.stop = IF Running \/ ~wakes THEN @ ELSE time + Length]
    BY DEF ChildEnds
  <2>2. time + Length \in Instant
    BY <1>1, NumbersHold DEF Instant
  <2> QED
    BY <2>1, <2>2 DEF PollingTypeOK
<1> QED
  BY <1>3, <1>4, <1>2 DEF ChildEnds, PollingTypeOK

LEMMA SpendIsTyped == ASSUME PollingTypeOK, Spend PROVE PollingTypeOK'
<1>1. time + Length \in Instant
  BY NumbersHold DEF PollingTypeOK, Instant
<1>2. meter' \in [pct: Pcts, stop: Instant]
  BY <1>1 DEF Spend, PollingTypeOK
<1> QED
  BY <1>2 DEF Spend, PollingTypeOK

LEMMA ClockIsTyped == ASSUME PollingTypeOK, Clock PROVE PollingTypeOK'
<1>1. time \in Nat /\ time' = time + 1 /\ time' \in 0..MaxTime
  BY NumbersHold DEF Clock, PollingTypeOK
<1>2. 0..time \subseteq 0..time'
  BY <1>1
<1>3. meter' \in [pct: Pcts, stop: Instant] /\ stopped' \in {stopped, time'}
  BY PollingAssumption DEF Clock, PollingTypeOK
<1>4. time' \in 0..time'
  BY <1>1
<1> QED
  BY <1>1, <1>2, <1>3, <1>4 DEF Clock, PollingTypeOK

LEMMA TypesStep == ASSUME PollingTypeOK, [PollingNext]_pollVars PROVE PollingTypeOK'
<1>1. CASE LoadCache
  BY <1>1 DEF LoadCache, PollingTypeOK
<1>2. CASE Switch
  BY <1>2, NumbersHold DEF Switch, Upset, PollingTypeOK
<1>3. CASE Dispatch
  BY <1>3, DispatchIsTyped
<1>4. CASE ProfileEnds
  <2>1. profile' \in Instant /\ upsets' \in 0..MaxUpsets
    BY <1>4, NumbersHold DEF ProfileEnds, Upset, PollingTypeOK, Instant
  <2> QED
    BY <1>4, <2>1 DEF ProfileEnds, PollingTypeOK
<1>5. CASE PollEnds
  BY <1>5, PollEndsIsTyped
<1>6. CASE StandDown
  BY <1>6, StandDownIsTyped
<1>7. CASE ChildEnds
  BY <1>7, ChildEndsIsTyped
<1>8. CASE Spend
  BY <1>8, SpendIsTyped
<1>9. CASE Clock
  BY <1>9, ClockIsTyped
<1>10. CASE UNCHANGED pollVars
  BY <1>10 DEF pollVars, PollingTypeOK
<1> QED
  BY <1>1, <1>2, <1>3, <1>4, <1>5, <1>6, <1>7, <1>8, <1>9, <1>10 DEF PollingNext, Over

\* Every variable keeps its type: readings and instants lie in the past, waits
\* and backoffs within the table.
THEOREM PollingTypesHold == PollingSpec => []PollingTypeOK
<1> QED
  BY InitIsTyped, TypesStep, PTL DEF PollingSpec

-----------------------------------------------------------------------------
(* Turns are spaced *)

\* A clock a row tells of is the one that runs, or it has run down since.
Dated(snap) ==
    snap # Absent /\ snap.reset # Absent =>
       snap.reset = meter.stop \/ (stopped # Absent /\ stopped >= snap.reset)

\* The end of a clock is on record, and so is the last turn in whatever row a
\* tick goes by.
Clocked ==
    /\ meter.stop # Absent /\ meter.stop <= time => stopped # Absent /\ stopped >= meter.stop
    /\ Dated(entry.snap)
    /\ view # Absent => Dated(view.snap)
    /\ turned # Absent => entry.tried # Absent /\ entry.tried >= turned
    /\ turned # Absent /\ view # Absent => view.tried # Absent /\ view.tried >= turned

LEMMA InitIsClocked == ASSUME PollingInit PROVE Clocked
BY PollingAssumption DEF PollingInit, NoEntry, Clocked, Dated

\* A clock is only replaced once it has run down.
LEMMA RestartIsDated ==
    ASSUME PollingTypeOK, Clocked, NEW snap \in Reading \cup {Absent}, Dated(snap), UNCHANGED stopped,
           meter'.stop # meter.stop => ~Running
    PROVE  Dated(snap)'
<1>1. CASE meter'.stop = meter.stop
  BY <1>1 DEF Dated
<1>2. CASE ~Running
  <2>1. meter.stop = Absent \/ (stopped # Absent /\ stopped >= meter.stop)
    BY <1>2, NumbersHold DEF Running, Clocked, PollingTypeOK, Instant
  <2> QED
    BY <2>1, PollingAssumption DEF Dated, Reading, Instant
<1> QED
  BY <1>1, <1>2

LEMMA PollEndsIsClocked == ASSUME PollingTypeOK, Clocked, PollEnds PROVE Clocked'
<1>1. time \in Nat /\ mates \in Nat \ {0} /\ entry \in Entry
  BY NumbersHold, PollingAssumption DEF PollingTypeOK
<1>2. UNCHANGED <<time, meter, view, stopped, turned>>
  BY DEF PollEnds
<1>3. entry'.tried = entry.tried /\ (entry'.snap = entry.snap \/ entry'.snap \in Reads)
  <2>1. ASSUME NEW s \in Reads, Commit(entry, s) PROVE entry'.tried = entry.tried /\ entry'.snap \in Reads
    BY <1>1, <2>1, PollIsCommitted, ReadsAreTyped
  <2>2. ASSUME Commit(entry, Absent) PROVE entry'.tried = entry.tried /\ entry'.snap = entry.snap
    BY <1>1, <2>2, PollIsCommitted
  <2>3. ASSUME NEW retry \in {0, T.post429Max + 1},
               Commit([entry EXCEPT !.limited = time, !.interval = Backoff(entry, retry)], Absent)
        PROVE  entry'.tried = entry.tried /\ entry'.snap = entry.snap
    <3> DEFINE f == [entry EXCEPT !.limited = time, !.interval = Backoff(entry, retry)]
    <3>1. retry \in Nat
      BY TableHolds
    <3>2. f \in Entry /\ f.snap = entry.snap /\ f.tried = entry.tried
      BY <1>1, <3>1, BackedOff
    <3> HIDE DEF f
    <3>3. entry'.snap = f.snap /\ entry'.tried = f.tried
      BY <1>1, <2>3, <3>2, PollIsCommitted DEF f
    <3> QED
      BY <3>2, <3>3
  <2> QED
    BY <2>1, <2>2, <2>3 DEF PollEnds
<1>4. Dated(entry.snap)'
  BY <1>2, <1>3, ReadsAreTyped DEF Clocked, Dated
<1> QED
  BY <1>2, <1>3, <1>4 DEF Clocked, Dated

LEMMA ClockedStep == ASSUME PollingTypeOK, Clocked, [PollingNext]_pollVars PROVE Clocked'
<1>0. time \in Nat /\ entry \in Entry /\ entry.snap \in Reading \cup {Absent}
  BY NumbersHold DEF PollingTypeOK, Entry
<1>1. view # Absent => view \in Entry /\ view.snap \in Reading \cup {Absent}
  BY DEF PollingTypeOK, Entry
<1>2. CASE LoadCache
  BY <1>2 DEF LoadCache, Clocked, Dated
<1>3. CASE Switch
  BY <1>3 DEF Switch, Clocked, Dated
<1>4. CASE Dispatch
  <2>1. view' = Absent /\ UNCHANGED <<time, meter, stopped>>
    BY <1>4 DEF Dispatch
  <2>2. \/ UNCHANGED <<entry, turned>>
        \/ entry' = RecordProbe(entry) /\ turned' = time
    BY <1>4 DEF Dispatch, Probe, Poll
  <2>3. CASE UNCHANGED <<entry, turned>>
    BY <2>1, <2>3 DEF Clocked, Dated
  <2>4. CASE entry' = RecordProbe(entry) /\ turned' = time
    <3>1. entry'.snap = entry.snap /\ entry'.tried = time
      BY <1>0, <2>4, AttemptIsStamped
    <3> QED
      BY <1>0, <2>1, <2>4, <3>1, NumbersHold DEF Clocked, Dated
  <2> QED
    BY <2>2, <2>3, <2>4
<1>5. CASE ProfileEnds
  BY <1>5 DEF ProfileEnds, Clocked, Dated
<1>6. CASE PollEnds
  BY <1>6, PollEndsIsClocked
<1>7. CASE StandDown
  <2>1. entry'.snap = entry.snap /\ entry'.tried = entry.tried
    BY <1>0, <1>7 DEF StandDown, Entry
  <2> QED
    BY <1>7, <2>1 DEF StandDown, Clocked, Dated
<1>8. CASE ChildEnds
  <2>1. UNCHANGED <<time, view, stopped, turned>>
    BY <1>8 DEF ChildEnds
  <2>2. entry'.snap = entry.snap /\ entry'.tried \in {entry.tried, time}
    BY <1>0, <1>8, AttemptIsStamped DEF ChildEnds
  <2>3. meter'.stop = meter.stop \/ (~Running /\ meter'.stop = time + Length)
    BY <1>8 DEF ChildEnds, PollingTypeOK
  <2>4. turned # Absent => turned <= time
    BY <1>0 DEF PollingTypeOK
  <2>5. Dated(entry.snap)' /\ (view # Absent => Dated(view.snap)')
    BY <1>0, <1>1, <2>1, <2>2, <2>3, RestartIsDated DEF Clocked, Dated
  <2>6. time + Length > time
    BY <1>0, NumbersHold
  <2> QED
    BY <1>0, <2>1, <2>2, <2>3, <2>4, <2>5, <2>6, NumbersHold DEF Clocked, Dated
<1>9. CASE Spend
  <2>1. UNCHANGED <<time, entry, view, stopped, turned>>
    BY <1>9 DEF Spend
  <2>2. meter'.stop = meter.stop \/ (~Running /\ meter'.stop = time + Length)
    BY <1>9 DEF Spend, PollingTypeOK
  <2>3. Dated(entry.snap)' /\ (view # Absent => Dated(view.snap)')
    BY <1>0, <1>1, <2>1, <2>2, RestartIsDated DEF Clocked, Dated
  <2>4. time + Length > time
    BY <1>0, NumbersHold
  <2> QED
    BY <1>0, <2>1, <2>2, <2>3, <2>4, NumbersHold DEF Clocked
<1>10. CASE Clock
  <2>1. UNCHANGED <<entry, view, turned>> /\ time' = time + 1
    BY <1>10 DEF Clock
  <2>2. /\ meter'.stop = meter.stop
        /\ IF meter.stop = time + 1 THEN stopped' = time + 1 ELSE stopped' = stopped
    BY <1>10 DEF Clock, PollingTypeOK
  <2>3. stopped # Absent => stopped \in Nat /\ stopped <= time
    BY <1>0 DEF PollingTypeOK
  <2>4. meter.stop # Absent => meter.stop \in Nat
    BY DEF PollingTypeOK, Instant
  <2>5. ASSUME NEW snap \in Reading \cup {Absent}, Dated(snap) PROVE Dated(snap)'
    <3>1. snap # Absent /\ snap.reset # Absent => snap.reset \in Nat
      BY DEF Reading, Instant
    <3> QED
      BY <1>0, <2>2, <2>3, <2>5, <3>1, NumbersHold DEF Dated
  <2>6. meter'.stop # Absent /\ meter'.stop <= time' => stopped' # Absent /\ stopped' >= meter'.stop
    BY <1>0, <2>1, <2>2, <2>3, <2>4, NumbersHold DEF Clocked
  <2>7. Dated(entry.snap)' /\ (view # Absent => Dated(view.snap)')
    BY <1>0, <1>1, <2>1, <2>5 DEF Clocked, Dated
  <2> QED
    BY <2>1, <2>6, <2>7 DEF Clocked, Dated
<1>11. CASE UNCHANGED pollVars
  BY <1>11 DEF pollVars, Clocked, Dated
<1> QED
  BY <1>2, <1>3, <1>4, <1>5, <1>6, <1>7, <1>8, <1>9, <1>10, <1>11 DEF PollingNext, Over

LEMMA WarmUpsAreSpaced == ASSUME PollingTypeOK, Clocked, [PollingNext]_pollVars PROVE SpacesTurns
<1>1. SUFFICES ASSUME child = Absent, child' # Absent, turned # Absent, ~(time - turned >= Ladder[1])
               PROVE  stopped # Absent /\ turned <= stopped
  BY DEF SpacesTurns
<1>2. view # Absent /\ ProbeDue(view)
  BY <1>1 DEF PollingNext, LoadCache, Switch, Dispatch, Probe, Poll, ProfileEnds, PollEnds, StandDown, ChildEnds,
              Spend, Clock, Over, pollVars
<1>3. MayProbe(view) /\ Cold(view.snap) /\ view \in Entry
  BY <1>2 DEF ProbeDue, PollingTypeOK
<1>4. /\ time \in Nat /\ turned \in Nat /\ view.tried \in Nat /\ view.tried >= turned
  BY <1>1, <1>2, <1>3, NumbersHold DEF PollingTypeOK, Clocked, Entry, Instant
<1>5. CASE time >= view.tried + Ladder[Least({view.strikes, 4}) + 1]
  <2>1. Least({view.strikes, 4}) + 1 \in 1..5
    BY <1>3, LeastOfTwo DEF Entry
  <2>2. /\ Ladder[1] \in Nat /\ Ladder[Least({view.strikes, 4}) + 1] \in Nat
        /\ Ladder[1] <= Ladder[Least({view.strikes, 4}) + 1]
    BY <2>1, GapsAssumption
  <2> QED
    BY <1>1, <1>4, <1>5, <2>2
<1>6. CASE view.snap.reset # Absent /\ view.tried < view.snap.reset
  <2>1. view.snap # Absent /\ view.snap.reset <= time /\ view.snap.reset \in Nat
    BY <1>3, <1>6 DEF Cold, Entry, Reading, Instant
  <2>2. stopped # Absent /\ stopped >= view.snap.reset
    BY <1>2, <1>6, <2>1 DEF Clocked, Dated
  <2>3. stopped \in Nat
    BY <1>4, <2>2 DEF PollingTypeOK
  <2> QED
    BY <1>4, <1>6, <2>1, <2>2, <2>3
<1> QED
  BY <1>1, <1>3, <1>4, <1>5, <1>6, NumbersHold DEF MayProbe

\* No turn is spent sooner than a settle gap after the last unless the clock has
\* run down in between, whichever row the tick judges by.
THEOREM WarmUpsKeepTheirDistance == PollingSpec => TurnsAreSpaced
<1>1. PollingSpec => [](PollingTypeOK /\ Clocked)
  BY InitIsTyped, TypesStep, InitIsClocked, ClockedStep, PTL DEF PollingSpec
<1>2. PollingTypeOK /\ Clocked /\ [PollingNext]_pollVars => [SpacesTurns]_pollVars
  BY WarmUpsAreSpaced
<1> QED
  BY <1>1, <1>2, PTL DEF PollingSpec, TurnsAreSpaced

-----------------------------------------------------------------------------
(* No account goes unread: the inductive invariant *)

Calm  == mates * Stretch(T.candidateMax)
Rough == mates * Stretch(T.post429Max)
Grace == upsets * Overhead

\* When the row is due at the latest, but for the stale profile, the warm-up and
\* the poll that may still come between; and the last unit that poll may begin in.
Horizon  == entry.at + Calm + Grace
Deadline == Horizon + PollDelay + 3

Fetching(kind) == job # Absent /\ job.kind = kind

\* A tick goes by one row; polls, profiles and children end in the next unit; an
\* account never read has no history; a stand-down and a 429 are events.
Bounds ==
    /\ ticked => view = Absent
    /\ job # Absent => job.since <= time /\ time <= job.since + 1
    /\ child # Absent => child <= time /\ time <= child + 1
    /\ entry.at = Absent => entry.snap = Absent /\ child = Absent /\ entry.hold = 0
    /\ entry.at = Absent /\ view # Absent => view.snap = Absent
    /\ entry.hold # 0 => upsets > 0 /\ entry.hold <= time + Stretch(T.post429Max)
    /\ entry.limited # Absent => upsets > 0
    /\ entry.at # Absent => entry.hold <= Horizon

\* The next tick that may poll.
NextTick == IF Fetching("profile") THEN job.since + 2 ELSE IF ticked THEN time + 1 ELSE time

\* A profile fetch may still come before the deadline: two units.
ProfileComes ==
    IF Fetching("profile") THEN job.since + ProfileRetry <= Deadline ELSE profile # Absent /\ profile <= Deadline
ProfileCost == IF ProfileComes THEN 2 ELSE 0

\* So may a warm-up: the settle gap ends before it, or a clock runs down.
Awake == entry.snap # Absent /\ entry.snap.reset # Absent /\ entry.snap.reset > entry.tried /\ entry.strikes = 0
WarmUpComes == entry.tried # Absent => entry.tried + Ladder[1] <= Deadline \/ Awake
WarmCost == IF WarmUpComes THEN PollDelay + 1 ELSE 0

Costs == ProfileCost + WarmCost

\* Whatever may still delay the poll leaves it in time.
InTime ==
    entry.at # Absent =>
       IF Fetching("poll") THEN job.since <= Deadline
       ELSE /\ NextTick + Costs <= Deadline
            /\ entry.next + Costs <= Deadline
            /\ child # Absent => child + PollDelay + 1 + Costs <= Deadline

\* Also if the tick goes by a row that has been written since: it passes the
\* account over only if there is time for one more tick, and warms it up only if
\* there is time for that.
Judges ==
    view # Absent /\ entry.at # Absent /\ ~Fetching("poll") =>
       /\ ~Due(view) => time + 1 + Costs <= Deadline
       /\ ProbeDue(view) =>
            /\ time + ProfileCost + PollDelay + 1 <= Deadline
            /\ \/ time + PollDelay + 1 <= Horizon
               \/ entry.snap = Absent \/ entry.snap.reset = Absent \/ entry.snap.reset <= time

\* What the types say of each number.
Numeric ==
    /\ time \in Nat /\ mates \in Nat \ {0} /\ upsets \in Nat
    /\ entry \in Entry /\ entry.next \in Nat /\ entry.hold \in Nat /\ entry.strikes \in Nat
    /\ entry.at # Absent => entry.at \in Nat /\ entry.at <= time
    /\ entry.tried # Absent => entry.tried \in Nat /\ entry.tried <= time
    /\ entry.snap # Absent /\ entry.snap.reset # Absent => entry.snap.reset \in Nat
    /\ child # Absent => child \in Nat
    /\ profile # Absent => profile \in Nat
    /\ job # Absent => job.since \in Nat /\ job.kind \in {"poll", "profile"}
    /\ view # Absent => view \in Entry

LEMMA NumbersAreNumeric == PollingTypeOK => Numeric
<1> SUFFICES ASSUME PollingTypeOK PROVE Numeric
  OBVIOUS
<1>1. time \in Nat /\ mates \in Nat \ {0} /\ upsets \in Nat
  BY NumbersHold, PollingAssumption DEF PollingTypeOK
<1>2. entry \in Entry /\ (view # Absent => view \in Entry)
  BY DEF PollingTypeOK
<1>3. \A x \in {entry.at, entry.tried, child} : x # Absent => x \in Nat /\ x <= time
  BY <1>1 DEF PollingTypeOK
<1>4. /\ entry.next \in Nat /\ entry.hold \in Nat /\ entry.strikes \in Nat
      /\ entry.snap # Absent /\ entry.snap.reset # Absent => entry.snap.reset \in Nat
  BY <1>2 DEF Entry, Reading, Instant
<1>5. /\ profile # Absent => profile \in Nat
      /\ job # Absent => job.since \in Nat /\ job.kind \in {"poll", "profile"}
  BY DEF PollingTypeOK, Instant, Job
<1> QED
  BY <1>1, <1>2, <1>3, <1>4, <1>5 DEF Numeric

\* And of the spans of time.
Measured ==
    /\ Calm \in Nat /\ Rough \in Nat /\ PollDelay < Calm /\ T.serveTTL <= Calm /\ Calm <= Rough
    /\ Stretch(T.post429Max) \in Nat /\ Stretch(T.post429Max) <= Rough
    /\ Grace \in Nat /\ (upsets > 0 => Rough + PollDelay + 4 <= Grace)

LEMMA MeasuresHold == Numeric => Measured
<1> SUFFICES ASSUME Numeric PROVE Measured
  OBVIOUS
<1>0. mates \in Nat \ {0} /\ upsets \in Nat
  BY DEF Numeric
<1>1. /\ Stretch(T.candidateMax) \in Nat /\ Stretch(T.post429Max) \in Nat
      /\ T.candidateMax <= Stretch(T.candidateMax) /\ Stretch(T.candidateMax) <= Stretch(T.post429Max)
  BY TableHolds, StretchGrows
<1>2. /\ Calm \in Nat /\ Rough \in Nat /\ Calm <= Rough
      /\ Stretch(T.candidateMax) <= Calm /\ Stretch(T.post429Max) <= Rough
  BY <1>0, <1>1, SharesGrow DEF Calm, Rough
<1>3. PollDelay < Calm /\ T.serveTTL <= Calm
  BY <1>1, <1>2, TableHolds, NumbersHold, GapsAssumption
<1>4. Overhead \in Nat /\ Overhead = Rough + PollDelay + 4
  BY <1>2, NumbersHold DEF Overhead, Rough
<1>5. Grace \in Nat /\ (upsets > 0 => Overhead <= Grace)
  BY <1>0, <1>4 DEF Grace
<1> QED
  BY <1>1, <1>2, <1>3, <1>4, <1>5 DEF Measured

\* An event buys the time it takes.
LEMMA GraceGrows ==
    ASSUME Numeric, mates' = mates
    PROVE  /\ Calm' = Calm /\ Rough' = Rough
           /\ upsets' = upsets => Grace' = Grace
           /\ upsets' = upsets + 1 => Grace' = Grace + Rough + PollDelay + 4
<1>1. Rough \in Nat /\ Calm \in Nat /\ upsets \in Nat
  BY MeasuresHold DEF Measured, Numeric
<1>2. Calm' = Calm /\ Rough' = Rough /\ Overhead' = Overhead
  BY DEF Calm, Rough, Overhead
<1>3. Overhead \in Nat /\ Overhead = Rough + PollDelay + 4
  BY <1>1, NumbersHold DEF Overhead, Rough
<1>4. (upsets + 1) * Overhead = upsets * Overhead + Overhead /\ upsets * Overhead \in Nat
  BY <1>1, <1>3
<1> QED
  BY <1>1, <1>2, <1>3, <1>4, NumbersHold DEF Grace

\* Room for whatever may come.
Ample ==
    entry.at # Absent =>
       IF Fetching("poll") THEN job.since <= Deadline
       ELSE /\ time + PollDelay + 1 <= Horizon /\ NextTick <= Horizon /\ entry.next <= Horizon
            /\ child # Absent => child + PollDelay + 1 <= Horizon

LEMMA AmpleIsEnough == PollingTypeOK /\ Ample => InTime /\ Judges
<1> SUFFICES ASSUME PollingTypeOK, Ample PROVE InTime /\ Judges
  OBVIOUS
<1>1. Numeric
  BY NumbersAreNumeric
<1>2. Calm \in Nat /\ Grace \in Nat /\ PollDelay \in Nat
  BY <1>1, MeasuresHold, NumbersHold DEF Numeric, Measured
<1>3. ProfileCost \in 0..2 /\ WarmCost \in 0..PollDelay + 1
  BY <1>2 DEF ProfileCost, WarmCost
<1>4. entry.at # Absent => Horizon \in Nat /\ Deadline = Horizon + PollDelay + 3
  BY <1>1, <1>2 DEF Horizon, Deadline, Numeric
<1>5. CASE entry.at # Absent /\ ~Fetching("poll")
  <2>1. Costs \in 0..PollDelay + 3
    BY <1>2, <1>3 DEF Costs
  <2>2. /\ NextTick \in Nat /\ NextTick <= Horizon /\ entry.next <= Horizon /\ time + PollDelay + 1 <= Horizon
        /\ child # Absent => child + PollDelay + 1 <= Horizon
    BY <1>1, <1>5 DEF Ample, NextTick, Fetching, Numeric
  <2>3. InTime
    BY <1>1, <1>2, <1>4, <1>5, <2>1, <2>2 DEF InTime, Numeric
  <2>4. Judges
    BY <1>1, <1>2, <1>3, <1>4, <1>5, <2>1, <2>2 DEF Judges, Numeric
  <2> QED
    BY <2>3, <2>4
<1>6. CASE ~(entry.at # Absent /\ ~Fetching("poll"))
  BY <1>6 DEF Ample, InTime, Judges
<1> QED
  BY <1>5, <1>6

\* How late it can be.
LEMMA NeverTooLate ==
    ASSUME PollingTypeOK, Bounds, InTime, entry.at # Absent
    PROVE  /\ Horizon \in Nat /\ Deadline = Horizon + PollDelay + 3 /\ time <= Deadline + 1
           /\ ~Fetching("poll") => time <= Deadline /\ NextTick <= Deadline /\ entry.next <= Deadline
           /\ entry.hold <= Horizon /\ entry.at + T.serveTTL <= Horizon
<1>1. Numeric
  BY NumbersAreNumeric
<1>2. Calm \in Nat /\ Grace \in Nat /\ PollDelay \in Nat /\ T.serveTTL \in Nat /\ T.serveTTL <= Calm
  BY <1>1, MeasuresHold, NumbersHold, TableHolds DEF Numeric, Measured
<1>3. Horizon \in Nat /\ Deadline = Horizon + PollDelay + 3 /\ entry.at + T.serveTTL <= Horizon
  BY <1>1, <1>2 DEF Horizon, Deadline, Numeric
<1>4. Costs \in Nat
  BY <1>2 DEF Costs, ProfileCost, WarmCost
<1>5. CASE Fetching("poll")
  BY <1>1, <1>2, <1>3, <1>5 DEF InTime, Bounds, Fetching, Numeric
<1>6. CASE ~Fetching("poll")
  <2>1. NextTick \in Nat /\ time <= NextTick
    BY <1>1 DEF NextTick, Fetching, Bounds, Numeric
  <2>2. NextTick + Costs <= Deadline /\ entry.next + Costs <= Deadline
    BY <1>6 DEF InTime
  <2> QED
    BY <1>1, <1>2, <1>3, <1>4, <2>1, <2>2 DEF Bounds, Numeric
<1> QED
  BY <1>3, <1>5, <1>6 DEF Bounds

\* After an event there is room.
LEMMA EventsBuyTime ==
    ASSUME PollingTypeOK, PollingTypeOK', Bounds, InTime, entry.at # Absent,
           mates' = mates, upsets' = upsets + 1, time' = time, entry'.at = entry.at,
           job' # Absent /\ job'.kind = "poll" => job' = job \/ (~Fetching("poll") /\ job'.since = time),
           job' # Absent /\ job'.kind # "poll" => job' = job,
           ~Fetching("poll")' => entry'.next <= Deadline \/ entry'.next <= time + Rough,
           child' # Absent => child' = child
    PROVE  (InTime /\ Judges)'
<1>1. Numeric /\ Numeric'
  BY NumbersAreNumeric, PTL
<1>2. /\ Horizon \in Nat /\ Deadline = Horizon + PollDelay + 3 /\ time <= Deadline + 1
      /\ ~Fetching("poll") => time <= Deadline /\ NextTick <= Deadline
  BY NeverTooLate
<1>3. Calm \in Nat /\ Rough \in Nat /\ PollDelay \in Nat /\ PollDelay < Rough /\ Grace \in Nat
  BY <1>1, MeasuresHold, NumbersHold DEF Numeric, Measured
<1>4. Horizon' = Horizon + Rough + PollDelay + 4 /\ Deadline' = Horizon' + PollDelay + 3
  <2>1. Calm' = Calm /\ Grace' = Grace + Rough + PollDelay + 4
    BY <1>1, GraceGrows
  <2> QED
    BY <1>1, <1>3, <2>1 DEF Horizon, Deadline, Numeric
<1>5. Ample'
  <2>1. CASE Fetching("poll")'
    <3>1. job'.since <= Deadline'
      <4>1. CASE job' = job
        <5>1. job.since <= Deadline
          BY <2>1, <4>1 DEF Fetching, InTime
        <5> QED
          BY <1>1, <1>2, <1>3, <1>4, <2>1, <4>1, <5>1 DEF Numeric, Fetching
      <4>2. CASE ~Fetching("poll") /\ job'.since = time
        BY <1>1, <1>2, <1>3, <1>4, <4>2 DEF Numeric
      <4> QED
        BY <2>1, <4>1, <4>2 DEF Fetching
    <3> QED
      BY <2>1, <3>1 DEF Ample
  <2>2. CASE ~Fetching("poll")'
    <3>1. time' + PollDelay + 1 <= Horizon' /\ entry'.next <= Horizon'
      BY <1>1, <1>2, <1>3, <1>4, <2>2 DEF Numeric
    <3>2. NextTick' <= Horizon'
      <4>1. CASE job' # Absent
        <5>1. job' = job /\ Fetching("profile") /\ ~Fetching("poll") /\ Fetching("profile")'
          BY <1>1, <2>2, <4>1 DEF Fetching, Numeric
        <5> QED
          BY <1>1, <1>2, <1>3, <1>4, <5>1 DEF NextTick, Numeric, Fetching
      <4>2. CASE job' = Absent
        <5>1. NextTick' <= time + 1
          BY <1>1, <4>2 DEF NextTick, Fetching, Numeric
        <5>2. NextTick' \in Nat
          BY <1>1, <4>2 DEF NextTick, Fetching, Numeric
        <5> QED
          BY <1>1, <1>2, <1>3, <1>4, <5>1, <5>2 DEF Numeric
      <4> QED
        BY <4>1, <4>2
    <3>3. child' # Absent => child' + PollDelay + 1 <= Horizon'
      BY <1>1, <1>2, <1>3, <1>4 DEF Bounds, Numeric
    <3> QED
      BY <2>2, <3>1, <3>2, <3>3 DEF Ample
  <2> QED
    BY <2>1, <2>2
<1> QED
  BY <1>5, AmpleIsEnough, PTL

\* So there is after a reading.
LEMMA ReadingsAreAmple ==
    ASSUME PollingTypeOK, PollingTypeOK', Bounds, mates' = mates, time' = time, job' = Absent, child' = child,
           entry'.at = time,
           entry'.next <= time + Calm \/ (upsets' > 0 /\ entry'.next <= time + Rough)
    PROVE  (InTime /\ Judges)'
<1>1. Numeric /\ Numeric'
  BY NumbersAreNumeric, PTL
<1>2. Calm \in Nat /\ Rough \in Nat /\ PollDelay \in Nat /\ PollDelay < Calm
  BY <1>1, MeasuresHold, NumbersHold DEF Numeric, Measured
<1>3. Grace' \in Nat /\ (upsets' > 0 => Rough' + PollDelay + 4 <= Grace')
  <2>1. Measured'
    BY <1>1, MeasuresHold, PTL
  <2> QED
    BY <2>1 DEF Measured
<1>4. Calm' = Calm /\ Rough' = Rough
  BY DEF Calm, Rough
<1>5. entry'.at # Absent /\ Horizon' = time + Calm + Grace'
  BY <1>1, <1>4, NumbersHold DEF Horizon, Numeric
<1>6. ~Fetching("poll")' /\ ~Fetching("profile")'
  BY DEF Fetching
<1>7. NextTick' \in {time, time + 1}
  BY <1>6 DEF NextTick
<1>8. entry'.next <= Horizon' /\ NextTick' <= Horizon' /\ time' + PollDelay + 1 <= Horizon'
  BY <1>1, <1>2, <1>3, <1>4, <1>5, <1>7 DEF Numeric
<1>9. child' # Absent => child' + PollDelay + 1 <= Horizon'
  BY <1>1, <1>2, <1>3, <1>5 DEF Bounds, Numeric
<1>10. Ample'
  BY <1>6, <1>8, <1>9 DEF Ample
<1> QED
  BY <1>10, AmpleIsEnough, PTL

-----------------------------------------------------------------------------
(* No account goes unread: the steps *)

\* What a poll leaves of the row.
LEMMA PollEndsIs ==
    ASSUME PollingTypeOK, PollEnds
    PROVE  /\ entry' \in Entry /\ entry'.hold = entry.hold /\ entry'.tried = entry.tried
           /\ entry'.at \in {time, entry.at} /\ entry'.at # Absent
           /\ entry'.next <= time + Rough
           /\ \/ /\ upsets' = upsets /\ entry'.limited = entry.limited /\ entry'.at = time
                 /\ entry.limited = Absent => entry'.next <= time + Calm
              \/ /\ upsets' = upsets + 1 /\ (entry.at = Absent => entry'.at = time)
<1>1. Numeric /\ Absent \notin Nat
  BY NumbersAreNumeric, NumbersHold
<1>2. time \in Nat /\ mates \in Nat \ {0} /\ entry \in Entry
  BY <1>1 DEF Numeric
<1>3. ASSUME NEW s \in Reads, Commit(entry, s), UNCHANGED upsets
      PROVE  /\ entry' \in Entry /\ entry'.hold = entry.hold /\ entry'.tried = entry.tried
             /\ entry'.next <= time + Rough
             /\ entry'.limited = entry.limited /\ entry'.at = time
             /\ entry.limited = Absent => entry'.next <= time + Calm
  BY <1>2, <1>3, PollIsCommitted, ReadsAreTyped DEF Recent429, Calm, Rough
<1>4. ASSUME NEW f \in Entry, f.hold = entry.hold, f.tried = entry.tried, f.at = entry.at, Commit(f, Absent)
      PROVE  /\ entry' \in Entry /\ entry'.hold = entry.hold /\ entry'.tried = entry.tried
             /\ entry'.at = IF entry.at = Absent THEN time ELSE entry.at
             /\ entry'.next <= time + Rough
  BY <1>2, <1>4, PollIsCommitted DEF Rough
<1>5. CASE \E s \in Reads : Commit(entry, s) /\ UNCHANGED upsets
  BY <1>1, <1>2, <1>3, <1>5
<1>6. CASE Commit(entry, Absent) /\ Upset
  BY <1>1, <1>2, <1>4, <1>6 DEF Upset
<1>7. CASE /\ Upset
           /\ \E retry \in {0, T.post429Max + 1} :
                Commit([entry EXCEPT !.limited = time, !.interval = Backoff(entry, retry)], Absent)
  <2>1. PICK retry \in {0, T.post429Max + 1} :
             Commit([entry EXCEPT !.limited = time, !.interval = Backoff(entry, retry)], Absent)
    BY <1>7
  <2> DEFINE f == [entry EXCEPT !.limited = time, !.interval = Backoff(entry, retry)]
  <2>2. retry \in Nat
    BY TableHolds
  <2>3. f \in Entry /\ f.hold = entry.hold /\ f.at = entry.at /\ f.tried = entry.tried
    BY <1>2, <2>2, BackedOff
  <2> HIDE DEF f
  <2>4. Commit(f, Absent)
    BY <2>1 DEF f
  <2> QED
    BY <1>1, <1>2, <1>4, <1>7, <2>3, <2>4 DEF Upset
<1> QED
  BY <1>5, <1>6, <1>7 DEF PollEnds

\* What a tick does.
LEMMA DispatchIs ==
    ASSUME PollingTypeOK, Bounds, Dispatch
    PROVE  /\ view # Absent /\ view' = Absent /\ ~ticked /\ ticked'
           /\ UNCHANGED <<time, mates, live, barred, profile>>
           /\ \/ /\ UNCHANGED <<entry, job, child, upsets>>
                 /\ job # Absent \/ (job = Absent /\ ~Due(view))
              \/ /\ job = Absent /\ profile # Absent /\ profile <= time
                 /\ job' = [kind |-> "profile", since |-> time] /\ UNCHANGED <<entry, child, upsets>>
              \/ /\ job = Absent /\ ProbeDue(view) /\ view.snap # Absent
                 /\ entry' = RecordProbe(entry) /\ child' = time /\ UNCHANGED <<job, upsets>>
              \/ /\ job = Absent /\ job' = [kind |-> "poll", since |-> time] /\ UNCHANGED <<entry, child>>
                 /\ upsets' = upsets \/ upsets' = upsets + 1
<1>1. view # Absent /\ view' = Absent /\ ticked' /\ UNCHANGED <<time, mates, live, barred, profile>>
  BY DEF Dispatch
<1>2. ~ticked
  BY <1>1 DEF Bounds
<1>3. ProbeDue(view) => view.snap # Absent
  BY DEF ProbeDue, Cold
<1> QED
  BY <1>1, <1>2, <1>3 DEF Dispatch, Probe, Poll, Upset

LEMMA InitIsBounded == ASSUME PollingInit PROVE Bounds
BY DEF PollingInit, NoEntry, Bounds

LEMMA HorizonRecedes ==
    ASSUME Numeric, Numeric', mates' = mates, upsets' \in {upsets, upsets + 1},
           entry.at # Absent, entry'.at # Absent, entry.at <= entry'.at
    PROVE  Horizon \in Nat /\ Horizon' \in Nat /\ Horizon <= Horizon' /\ Deadline' = Horizon' + PollDelay + 3
<1>1. Calm \in Nat /\ Rough \in Nat /\ Grace \in Nat /\ PollDelay \in Nat
  BY MeasuresHold, NumbersHold DEF Measured
<1>2. Calm' = Calm /\ Grace' \in Nat /\ Grace <= Grace'
  BY <1>1, GraceGrows
<1> QED
  BY <1>1, <1>2 DEF Horizon, Deadline, Numeric

\* A stand-down keeps to its bounds while nothing is stood down.
LEMMA HoldsStay ==
    ASSUME Numeric, Numeric', Bounds, mates' = mates, upsets' \in {upsets, upsets + 1},
           entry'.hold = entry.hold, time <= time',
           entry.at # Absent => entry'.at # Absent /\ entry.at <= entry'.at
    PROVE  /\ entry'.hold # 0 => upsets' > 0 /\ entry'.hold <= time' + Stretch(T.post429Max)
           /\ entry'.at # Absent => entry'.hold <= Horizon'
<1>1. Stretch(T.post429Max) \in Nat
  BY TableHolds, StretchGrows
<1>2. entry'.hold # 0 => upsets' > 0 /\ entry'.hold <= time' + Stretch(T.post429Max)
  BY <1>1 DEF Bounds, Numeric
<1>3. ASSUME entry'.at # Absent PROVE entry'.hold <= Horizon'
  <2>1. CASE entry.at # Absent
    <3>1. Horizon \in Nat /\ Horizon' \in Nat /\ Horizon <= Horizon'
      BY <1>3, <2>1, HorizonRecedes
    <3> QED
      BY <2>1, <3>1 DEF Bounds, Numeric
  <2>2. CASE entry.at = Absent
    <3>1. (Measured)'
      BY MeasuresHold, PTL
    <3>2. Horizon' \in Nat
      BY <1>3, <3>1 DEF Horizon, Measured, Numeric
    <3> QED
      BY <2>2, <3>2 DEF Bounds
  <2> QED
    BY <2>1, <2>2
<1> QED
  BY <1>2, <1>3

LEMMA DispatchIsBounded == ASSUME PollingTypeOK, PollingTypeOK', Bounds, Dispatch PROVE Bounds'
<1>0. Numeric /\ Numeric' /\ Absent \notin Nat
  BY NumbersAreNumeric, NumbersHold, PTL
<1>1. view' = Absent /\ UNCHANGED <<time, mates>> /\ upsets' \in {upsets, upsets + 1}
  BY DispatchIs
<1>2. \/ UNCHANGED <<entry, child>>
      \/ view.snap # Absent /\ entry' = RecordProbe(entry) /\ child' = time
  BY DispatchIs
<1>3. view # Absent
  BY DispatchIs
<1>4. /\ entry'.snap = entry.snap /\ entry'.hold = entry.hold /\ entry'.at = entry.at
      /\ entry'.limited = entry.limited
      /\ child' = child \/ (child' = time /\ entry.at # Absent)
  <2>1. CASE view.snap # Absent /\ entry' = RecordProbe(entry) /\ child' = time
    <3>1. entry.at # Absent
      BY <1>3, <2>1 DEF Bounds
    <3>2. entry \in Entry /\ time \in Nat
      BY <1>0 DEF Numeric
    <3> QED
      BY <2>1, <3>1, <3>2, AttemptIsStamped
  <2> QED
    BY <1>2, <2>1
<1>5. \/ job' = job
      \/ job'.since = time
  BY DispatchIs
<1>6. /\ entry'.hold # 0 => upsets' > 0 /\ entry'.hold <= time' + Stretch(T.post429Max)
      /\ entry'.at # Absent => entry'.hold <= Horizon'
  BY <1>0, <1>1, <1>4, HoldsStay DEF Numeric
<1> QED
  BY <1>0, <1>1, <1>4, <1>5, <1>6 DEF Bounds, Numeric

LEMMA BoundsStep == ASSUME PollingTypeOK, PollingTypeOK', Bounds, InTime, [PollingNext]_pollVars PROVE Bounds'
<1>0. Numeric /\ Numeric' /\ Absent \notin Nat
  BY NumbersAreNumeric, NumbersHold, PTL
<1>1. CASE LoadCache
  BY <1>1 DEF LoadCache, Bounds, Horizon, Calm, Grace, Overhead
<1>2. CASE Switch
  <2>1. /\ entry'.hold # 0 => upsets' > 0 /\ entry'.hold <= time' + Stretch(T.post429Max)
        /\ entry'.at # Absent => entry'.hold <= Horizon'
    BY <1>0, <1>2, HoldsStay DEF Switch, Upset, Numeric
  <2> QED
    BY <1>0, <1>2, <2>1 DEF Switch, Upset, Bounds, Numeric
<1>3. CASE Dispatch
  BY <1>3, DispatchIsBounded
<1>4. CASE ProfileEnds
  <2>1. UNCHANGED <<time, mates, entry, view, child, ticked>> /\ job' = Absent /\ upsets' \in {upsets, upsets + 1}
    BY <1>4 DEF ProfileEnds, Upset
  <2>2. /\ entry'.hold # 0 => upsets' > 0 /\ entry'.hold <= time' + Stretch(T.post429Max)
        /\ entry'.at # Absent => entry'.hold <= Horizon'
    BY <1>0, <2>1, HoldsStay DEF Numeric
  <2> QED
    BY <1>0, <2>1, <2>2 DEF Bounds, Numeric
<1>5. CASE PollEnds
  <2>1. UNCHANGED <<time, mates, view, child, ticked>> /\ job' = Absent
    BY <1>5 DEF PollEnds
  <2>2. /\ entry'.at # Absent /\ entry'.hold = entry.hold /\ upsets' \in {upsets, upsets + 1}
        /\ entry'.at \in {time, entry.at}
        /\ entry'.limited = entry.limited \/ upsets' = upsets + 1
    BY <1>5, PollEndsIs
  <2>3. /\ entry'.hold # 0 => upsets' > 0 /\ entry'.hold <= time' + Stretch(T.post429Max)
        /\ entry'.at # Absent => entry'.hold <= Horizon'
    BY <1>0, <2>1, <2>2, HoldsStay DEF Numeric
  <2> QED
    BY <1>0, <2>1, <2>2, <2>3 DEF Bounds, Numeric
<1>6. CASE StandDown
  <2>1. PICK wait \in Jittered(T.post429Max) : entry' = [entry EXCEPT !.hold = time + wait]
    BY <1>6 DEF StandDown
  <2>2. /\ UNCHANGED <<time, mates, view, job, child, ticked>> /\ upsets' = upsets + 1 /\ entry.at # Absent
    BY <1>6 DEF StandDown, Upset
  <2>3. /\ entry'.hold = time + wait /\ entry'.at = entry.at /\ entry'.snap = entry.snap
        /\ entry'.limited = entry.limited
    BY <1>0, <2>1 DEF Numeric, Entry
  <2>4. wait \in Nat /\ wait <= Stretch(T.post429Max) /\ Stretch(T.post429Max) \in Nat
    BY JitterStays, TableHolds, StretchGrows
  <2>5. entry'.hold <= Horizon'
    <3>1. Horizon \in Nat /\ time <= Horizon + PollDelay + 4 /\ PollDelay \in Nat
      BY <1>0, <2>2, NeverTooLate, NumbersHold DEF Numeric
    <3>2. Calm \in Nat /\ Rough \in Nat /\ Stretch(T.post429Max) <= Rough /\ Grace \in Nat
      BY <1>0, MeasuresHold DEF Measured
    <3>3. Horizon' = Horizon + Rough + PollDelay + 4
      <4>1. Calm' = Calm /\ Grace' = Grace + Rough + PollDelay + 4
        BY <1>0, <2>2, GraceGrows
      <4> QED
        BY <1>0, <2>2, <2>3, <3>1, <3>2, <4>1 DEF Horizon, Numeric
    <3> QED
      BY <1>0, <2>3, <2>4, <3>1, <3>2, <3>3 DEF Numeric
  <2> QED
    BY <1>0, <2>2, <2>3, <2>4, <2>5 DEF Bounds, Numeric
<1>7. CASE ChildEnds
  <2>1. UNCHANGED <<time, mates, view, job, ticked>> /\ child # Absent /\ child' = Absent /\ upsets' \in {upsets, upsets + 1}
    BY <1>7 DEF ChildEnds, Upset
  <2>2. entry.at # Absent
    BY <2>1 DEF Bounds
  <2>3. /\ entry'.snap = entry.snap /\ entry'.hold = entry.hold /\ entry'.at = entry.at /\ entry'.limited = entry.limited
    BY <1>0, <1>7, <2>2, AttemptIsStamped DEF ChildEnds, Numeric
  <2>4. /\ entry'.hold # 0 => upsets' > 0 /\ entry'.hold <= time' + Stretch(T.post429Max)
        /\ entry'.at # Absent => entry'.hold <= Horizon'
    BY <1>0, <2>1, <2>3, HoldsStay DEF Numeric
  <2> QED
    BY <1>0, <2>1, <2>2, <2>3, <2>4 DEF Bounds, Numeric
<1>8. CASE Spend
  BY <1>8 DEF Spend, Bounds, Horizon, Calm, Grace, Overhead
<1>9. CASE Clock
  <2>1. UNCHANGED <<mates, entry, view, job, child, upsets>> /\ time' = time + 1 /\ ticked
    BY <1>9 DEF Clock
  <2>2. (job # Absent => job.since = time) /\ (child # Absent => child = time)
    BY <1>9 DEF Clock
  <2>3. /\ entry'.hold # 0 => upsets' > 0 /\ entry'.hold <= time' + Stretch(T.post429Max)
        /\ entry'.at # Absent => entry'.hold <= Horizon'
    BY <1>0, <2>1, HoldsStay DEF Numeric
  <2> QED
    BY <1>0, <2>1, <2>2, <2>3 DEF Bounds, Numeric
<1>10. CASE UNCHANGED pollVars
  BY <1>10 DEF pollVars, Bounds, Horizon, Calm, Grace, Overhead
<1> QED
  BY <1>1, <1>2, <1>3, <1>4, <1>5, <1>6, <1>7, <1>8, <1>9, <1>10 DEF PollingNext, Over

LEMMA VerdictStays ==
    ASSUME UNCHANGED <<time, live, barred, view>>
    PROVE  (Due(view)' <=> Due(view)) /\ (ProbeDue(view)' <=> ProbeDue(view))
BY DEF Due, PollAt, ProbeDue, Cold, MayProbe, Least

\* What may come is nonnegative.
LEMMA CostsHold ==
    ASSUME PollingTypeOK, entry.at # Absent
    PROVE  /\ Horizon \in Nat /\ Deadline = Horizon + PollDelay + 3 /\ PollDelay \in Nat
           /\ ProfileCost \in 0..2 /\ WarmCost \in 0..PollDelay + 1 /\ Costs = ProfileCost + WarmCost
<1>1. Numeric /\ PollDelay \in Nat
  BY NumbersAreNumeric, NumbersHold
<1>2. Calm \in Nat /\ Grace \in Nat
  BY <1>1, MeasuresHold DEF Measured
<1> QED
  BY <1>1, <1>2 DEF Horizon, Deadline, Costs, ProfileCost, WarmCost, Numeric

\* A due warm-up is one that may come.
LEMMA DueMayCome ==
    ASSUME PollingTypeOK, entry.at # Absent, ProbeDue(entry), time <= Deadline
    PROVE  WarmCost = PollDelay + 1 /\ (entry.snap.reset = Absent \/ entry.snap.reset <= time)
<1>1. Numeric /\ Deadline \in Nat
  BY NumbersAreNumeric, NumbersHold, CostsHold
<1>2. entry.snap # Absent /\ (entry.snap.reset = Absent \/ entry.snap.reset <= time) /\ MayProbe(entry)
  BY DEF ProbeDue, Cold
<1>3. ASSUME entry.tried # Absent, time >= entry.tried + Ladder[Least({entry.strikes, 4}) + 1]
      PROVE  entry.tried + Ladder[1] <= Deadline
  <2>0. entry.strikes \in Nat
    BY <1>1 DEF Numeric
  <2>1. Least({entry.strikes, 4}) + 1 \in 1..5
    BY <2>0, LeastOfTwo
  <2>2. /\ Ladder[1] \in Nat /\ Ladder[Least({entry.strikes, 4}) + 1] \in Nat
        /\ Ladder[1] <= Ladder[Least({entry.strikes, 4}) + 1]
    BY <2>1, GapsAssumption
  <2> QED
    BY <1>1, <1>3, <2>2 DEF Numeric
<1>4. WarmUpComes
  BY <1>1, <1>2, <1>3 DEF WarmUpComes, Awake, MayProbe, Numeric
<1> QED
  BY <1>2, <1>4 DEF WarmCost

LEMMA LoadIsInTime ==
    ASSUME PollingTypeOK, Bounds, InTime, LoadCache
    PROVE  (InTime /\ Judges)'
<1>1. Numeric
  BY NumbersAreNumeric
<1>2. /\ UNCHANGED <<time, mates, live, entry, job, child, barred, profile, ticked, upsets>>
      /\ view' = entry /\ ~ticked
  BY DEF LoadCache
<1>3. InTime'
  BY <1>2 DEF InTime, Fetching, NextTick, Costs, ProfileCost, WarmCost, ProfileComes, WarmUpComes, Awake,
              Deadline, Horizon, Calm, Grace, Overhead
<1>4. ASSUME entry.at # Absent, ~Fetching("poll")
      PROVE  /\ ~Due(entry) => time + 1 + Costs <= Deadline
             /\ ProbeDue(entry) =>
                  /\ time + ProfileCost + PollDelay + 1 <= Deadline
                  /\ entry.snap.reset = Absent \/ entry.snap.reset <= time
  <2>1. /\ Horizon \in Nat /\ Deadline = Horizon + PollDelay + 3 /\ PollDelay \in Nat
        /\ ProfileCost \in 0..2 /\ WarmCost \in 0..PollDelay + 1 /\ Costs = ProfileCost + WarmCost
    BY <1>4, CostsHold
  <2>2. entry.hold <= Horizon /\ entry.at + T.serveTTL <= Horizon /\ time <= Deadline
    BY <1>4, NeverTooLate
  <2>3. NextTick + Costs <= Deadline /\ entry.next + Costs <= Deadline
    BY <1>4 DEF InTime
  <2>4. NextTick \in Nat /\ time <= NextTick
    BY <1>1 DEF NextTick, Fetching, Bounds, Numeric
  <2>5. ~Due(entry) => time + 1 + Costs <= Deadline
    <3>1. SUFFICES ASSUME ~Due(entry) PROVE time + 1 + Costs <= Deadline
      OBVIOUS
    <3>2. T.serveTTL \in Nat
      BY TableHolds
    <3>3. time < entry.at + T.serveTTL \/ time < entry.next \/ time < entry.hold
      BY <1>1, <1>4, <3>1, <3>2 DEF Due, PollAt, Numeric
    <3> QED
      BY <1>1, <1>4, <2>1, <2>2, <2>3, <3>2, <3>3 DEF Numeric
  <2>6. ASSUME ProbeDue(entry)
        PROVE  /\ time + ProfileCost + PollDelay + 1 <= Deadline
               /\ entry.snap.reset = Absent \/ entry.snap.reset <= time
    <3>1. WarmCost = PollDelay + 1 /\ (entry.snap.reset = Absent \/ entry.snap.reset <= time)
      BY <1>4, <2>2, <2>6, DueMayCome
    <3> QED
      BY <1>1, <2>1, <2>3, <2>4, <3>1 DEF Numeric
  <2> QED
    BY <2>5, <2>6
<1>5. (Due(view)' <=> Due(entry)) /\ (ProbeDue(view)' <=> ProbeDue(entry))
  BY <1>2 DEF Due, PollAt, ProbeDue, Cold, MayProbe, Least
<1>6. Judges'
  <2>1. /\ Costs' = Costs /\ ProfileCost' = ProfileCost /\ Deadline' = Deadline /\ Horizon' = Horizon
        /\ Fetching("poll")' <=> Fetching("poll")
    BY <1>2 DEF Fetching, NextTick, Costs, ProfileCost, WarmCost, ProfileComes, WarmUpComes, Awake,
                Deadline, Horizon, Calm, Grace, Overhead
  <2> QED
    BY <1>2, <1>4, <1>5, <2>1 DEF Judges
<1> QED
  BY <1>3, <1>6

LEMMA ProfileEndsIsInTime ==
    ASSUME PollingTypeOK, PollingTypeOK', Bounds, InTime, Judges, ProfileEnds
    PROVE  (InTime /\ Judges)'
<1>1. Numeric /\ Numeric'
  BY NumbersAreNumeric, PTL
<1>2. /\ UNCHANGED <<time, mates, wakes, live, entry, view, child, barred, ticked>>
      /\ job # Absent /\ job.kind = "profile" /\ job' = Absent
      /\ \/ UNCHANGED upsets /\ (profile' = Absent \/ profile' = time + ProfileRetry)
         \/ upsets' = upsets + 1
  BY DEF ProfileEnds, Upset
<1>3. CASE entry.at = Absent
  BY <1>2, <1>3 DEF InTime, Judges
<1>4. CASE entry.at # Absent /\ upsets' = upsets + 1
  <2>1. ~Fetching("poll") /\ ~Fetching("poll")' /\ entry'.next <= Deadline
    BY <1>2, <1>4, NeverTooLate DEF Fetching
  <2> QED
    BY <1>2, <1>4, <2>1, EventsBuyTime
<1>5. CASE entry.at # Absent /\ UNCHANGED upsets /\ (profile' = Absent \/ profile' = time + ProfileRetry)
  <2>1. /\ Horizon \in Nat /\ Deadline = Horizon + PollDelay + 3 /\ PollDelay \in Nat
        /\ ProfileCost \in 0..2 /\ WarmCost \in 0..PollDelay + 1 /\ Costs = ProfileCost + WarmCost
    BY <1>5, CostsHold
  <2>2. Horizon' = Horizon /\ Deadline' = Deadline /\ WarmCost' = WarmCost
    BY <1>2, <1>5 DEF Deadline, Horizon, Calm, Grace, Overhead, WarmCost, WarmUpComes, Awake
  <2>3. Fetching("profile") /\ ~Fetching("poll") /\ ~Fetching("poll")' /\ ~Fetching("profile")'
    BY <1>2 DEF Fetching
  <2>4. ProfileCost' \in 0..2 /\ ProfileCost' <= ProfileCost
    <3>1. ProfileComes' => ProfileComes
      BY <1>1, <1>2, <1>5, <2>1, <2>2, <2>3, NumbersHold DEF ProfileComes, Bounds, Numeric
    <3> QED
      BY <3>1 DEF ProfileCost
  <2>5. Costs' \in Nat /\ Costs' <= Costs /\ Costs \in Nat
    <3>1. PICK cost \in 0..2 : ProfileCost' = cost
      BY <2>4
    <3>2. Costs' = cost + WarmCost
      BY <2>2, <3>1 DEF Costs
    <3> QED
      BY <2>1, <2>4, <3>1, <3>2
  <2>6. /\ NextTick = job.since + 2 /\ NextTick' <= NextTick /\ time + 1 <= NextTick
        /\ NextTick \in Nat /\ NextTick' \in Nat
    BY <1>1, <1>2, <2>3 DEF NextTick, Bounds, Numeric
  <2>7. /\ NextTick + Costs <= Deadline /\ entry.next + Costs <= Deadline
        /\ child # Absent => child + PollDelay + 1 + Costs <= Deadline
    BY <1>5, <2>3 DEF InTime
  <2>8. InTime'
    BY <1>1, <1>2, <1>5, <2>1, <2>2, <2>3, <2>5, <2>6, <2>7 DEF InTime, Numeric
  <2>9. Judges'
    <3>1. (Due(view)' <=> Due(view)) /\ (ProbeDue(view)' <=> ProbeDue(view))
      BY <1>2, VerdictStays
    <3> QED
      BY <1>1, <1>2, <1>5, <2>1, <2>2, <2>3, <2>4, <2>5, <3>1 DEF Judges, Numeric
  <2> QED
    BY <2>8, <2>9
<1> QED
  BY <1>2, <1>3, <1>4, <1>5

\* A warm-up that is started leaves room for the poll it takes the place of.
LEMMA ProbeIsInTime ==
    ASSUME PollingTypeOK, PollingTypeOK', Bounds, InTime, Judges, entry.at # Absent,
           view # Absent, ProbeDue(view), job = Absent, ~ticked,
           UNCHANGED <<time, mates, profile, job, upsets>>, ticked', child' = time, entry' = RecordProbe(entry)
    PROVE  InTime'
<1>1. Numeric /\ Numeric' /\ Absent \notin Nat
  BY NumbersAreNumeric, NumbersHold, PTL
<1>2. /\ entry'.tried = time /\ entry'.next = time + PollDelay /\ entry'.at = entry.at
      /\ entry'.snap = entry.snap /\ entry'.strikes = entry.strikes
  BY <1>1, AttemptIsStamped DEF Numeric
<1>3. /\ Horizon \in Nat /\ Deadline = Horizon + PollDelay + 3 /\ PollDelay \in Nat
      /\ ProfileCost \in 0..2 /\ WarmCost \in 0..PollDelay + 1 /\ Costs = ProfileCost + WarmCost
  BY CostsHold
<1>4. ~Fetching("poll") /\ ~Fetching("poll")' /\ ~Fetching("profile") /\ ~Fetching("profile")'
  BY DEF Fetching
<1>5. Horizon' = Horizon /\ Deadline' = Deadline
  BY <1>2 DEF Deadline, Horizon, Calm, Grace, Overhead
<1>6. ProfileCost' = ProfileCost
  BY <1>4, <1>5 DEF ProfileCost, ProfileComes
<1>7. NextTick' = time + 1
  BY <1>4 DEF NextTick
<1>8. /\ time + ProfileCost + PollDelay + 1 <= Deadline
      /\ \/ time + PollDelay + 1 <= Horizon
         \/ entry.snap = Absent \/ entry.snap.reset = Absent \/ entry.snap.reset <= time
  BY <1>4 DEF Judges
<1>9. PICK warm \in 0..PollDelay + 1 : WarmCost' = warm /\ time + PollDelay + 1 + ProfileCost + warm <= Deadline
  <2>1. CASE ~WarmUpComes'
    <3>1. WarmCost' = 0
      BY <2>1 DEF WarmCost
    <3> QED
      BY <1>1, <1>3, <1>8, <3>1 DEF Numeric
  <2>2. CASE WarmUpComes'
    <3>1. WarmCost' = PollDelay + 1
      BY <2>2 DEF WarmCost
    <3>2. time + Ladder[1] <= Deadline \/ Awake'
      BY <1>1, <1>2, <1>5, <2>2 DEF WarmUpComes, Numeric
    <3>3. CASE time + Ladder[1] <= Deadline
      <4>1. Ladder[1] \in Nat /\ Ladder[1] >= 2 * PollDelay + 4
        BY GapsAssumption
      <4> QED
        BY <1>1, <1>3, <3>1, <3>3, <4>1 DEF Numeric
    <3>4. CASE Awake'
      <4>1. entry.snap # Absent /\ entry.snap.reset # Absent /\ entry.snap.reset \in Nat /\ entry.snap.reset > time
        BY <1>1, <1>2, <3>4 DEF Awake, Numeric
      <4>2. time + PollDelay + 1 <= Horizon
        BY <1>1, <1>8, <4>1 DEF Numeric
      <4> QED
        BY <1>1, <1>3, <3>1, <4>2 DEF Numeric
    <3> QED
      BY <3>2, <3>3, <3>4
  <2> QED
    BY <2>1, <2>2
<1>10. Costs' = ProfileCost + warm
  BY <1>6, <1>9 DEF Costs
<1>11. /\ time + 1 + (ProfileCost + warm) <= Deadline
       /\ time + PollDelay + (ProfileCost + warm) <= Deadline
       /\ time + PollDelay + 1 + (ProfileCost + warm) <= Deadline
  BY <1>1, <1>3, <1>9 DEF Numeric
<1> QED
  BY <1>2, <1>4, <1>5, <1>7, <1>10, <1>11 DEF InTime

LEMMA DispatchIsInTime ==
    ASSUME PollingTypeOK, PollingTypeOK', Bounds, InTime, Judges, Dispatch
    PROVE  (InTime /\ Judges)'
<1>1. Numeric /\ Numeric' /\ Absent \notin Nat
  BY NumbersAreNumeric, NumbersHold, PTL
<1>2. /\ view # Absent /\ view' = Absent /\ ~ticked /\ ticked'
      /\ UNCHANGED <<time, mates, live, barred, profile>>
  BY DispatchIs
<1>3. Judges'
  BY <1>2 DEF Judges
<1>4. CASE entry.at = Absent
  <2>1. view.snap = Absent
    BY <1>2, <1>4 DEF Bounds
  <2>2. entry' = entry
    BY <2>1, DispatchIs
  <2> QED
    BY <1>3, <1>4, <2>2 DEF InTime
<1>5. CASE entry.at # Absent
  <2>1. /\ Horizon \in Nat /\ Deadline = Horizon + PollDelay + 3 /\ PollDelay \in Nat
        /\ ProfileCost \in 0..2 /\ WarmCost \in 0..PollDelay + 1 /\ Costs = ProfileCost + WarmCost
    BY <1>5, CostsHold
  <2>2. /\ ~Fetching("poll") => time <= Deadline
    BY <1>5, NeverTooLate
  <2>3. CASE UNCHANGED <<entry, job, child, upsets>> /\ job # Absent
    <3>1. /\ Deadline' = Deadline /\ WarmCost' = WarmCost /\ ProfileCost' = ProfileCost
          /\ Fetching("poll")' <=> Fetching("poll")
          /\ Fetching("profile")' <=> Fetching("profile")
      BY <1>2, <2>3 DEF Fetching, Deadline, Horizon, Calm, Grace, Overhead, WarmCost, WarmUpComes, Awake,
                        ProfileCost, ProfileComes
    <3>2. ~Fetching("poll") => Fetching("profile")
      BY <1>1, <2>3 DEF Fetching, Numeric
    <3>3. Costs' = Costs /\ (~Fetching("poll") => NextTick' = NextTick)
      BY <2>3, <3>1, <3>2 DEF Costs, NextTick
    <3>4. InTime'
      BY <1>5, <2>3, <3>1, <3>3 DEF InTime
    <3> QED
      BY <1>3, <3>4
  <2>4. CASE UNCHANGED <<entry, job, child, upsets>> /\ job = Absent /\ ~Due(view)
    <3>1. /\ Deadline' = Deadline /\ WarmCost' = WarmCost /\ ProfileCost' = ProfileCost
          /\ ~Fetching("poll")' /\ ~Fetching("poll") /\ ~Fetching("profile")'
      BY <1>2, <2>4 DEF Fetching, Deadline, Horizon, Calm, Grace, Overhead, WarmCost, WarmUpComes, Awake,
                        ProfileCost, ProfileComes
    <3>2. NextTick' = time + 1 /\ Costs' = Costs
      BY <1>2, <3>1 DEF NextTick, Costs
    <3>3. time + 1 + Costs <= Deadline
      BY <1>2, <1>5, <2>4, <3>1 DEF Judges
    <3>4. InTime'
      BY <1>5, <2>4, <3>1, <3>2, <3>3 DEF InTime
    <3> QED
      BY <1>3, <3>4
  <2>5. CASE /\ job = Absent /\ profile # Absent /\ profile <= time
             /\ job' = [kind |-> "profile", since |-> time] /\ UNCHANGED <<entry, child, upsets>>
    <3>0. job' # Absent
      BY <1>1, <2>5, PollingAssumption DEF Job, Numeric
    <3>1. ~Fetching("poll") /\ ~Fetching("poll")' /\ ~Fetching("profile") /\ Fetching("profile")'
      BY <2>5, <3>0 DEF Fetching
    <3>2. Deadline' = Deadline /\ WarmCost' = WarmCost
      BY <1>2, <2>5 DEF Deadline, Horizon, Calm, Grace, Overhead, WarmCost, WarmUpComes, Awake
    <3>3. NextTick' = time + 2 /\ NextTick = time /\ ProfileCost = 2
      BY <1>1, <1>2, <2>1, <2>2, <2>5, <3>1 DEF NextTick, ProfileCost, ProfileComes, Numeric
    <3>4. /\ NextTick + Costs <= Deadline /\ entry.next + Costs <= Deadline
          /\ child # Absent => child + PollDelay + 1 + Costs <= Deadline
      BY <1>5, <3>1 DEF InTime
    <3>5. PICK cost \in 0..2 : ProfileCost' = cost /\ (cost = 0 \/ time + ProfileRetry <= Deadline)
      BY <2>5, <3>1, <3>2 DEF ProfileCost, ProfileComes
    <3>6. Costs' = cost + WarmCost
      BY <3>2, <3>5 DEF Costs
    <3>7. time + 2 + (cost + WarmCost) <= Deadline
      BY <1>1, <2>1, <3>3, <3>4, <3>5, GapsAssumption, NumbersHold DEF Numeric
    <3>8. entry.next + (cost + WarmCost) <= Deadline
      BY <1>1, <2>1, <3>3, <3>4, <3>5 DEF Numeric
    <3>9. child # Absent => child + PollDelay + 1 + (cost + WarmCost) <= Deadline
      BY <1>1, <2>1, <3>3, <3>4, <3>5 DEF Numeric
    <3>10. InTime'
      BY <1>5, <2>5, <3>1, <3>2, <3>3, <3>6, <3>7, <3>8, <3>9 DEF InTime
    <3> QED
      BY <1>3, <3>10
  <2>6. CASE /\ job = Absent /\ ProbeDue(view) /\ view.snap # Absent
             /\ entry' = RecordProbe(entry) /\ child' = time /\ UNCHANGED <<job, upsets>>
    <3>1. InTime'
      BY <1>2, <1>5, <2>6, ProbeIsInTime
    <3> QED
      BY <1>3, <3>1
  <2>7. CASE /\ job = Absent /\ job' = [kind |-> "poll", since |-> time] /\ UNCHANGED <<entry, child>>
             /\ upsets' = upsets \/ upsets' = upsets + 1
    <3>1. Horizon <= Horizon' /\ Horizon' \in Nat /\ Deadline' = Horizon' + PollDelay + 3
      BY <1>1, <1>2, <1>5, <2>7, HorizonRecedes DEF Numeric
    <3>2. PICK far \in Nat : Horizon' = far
      BY <3>1
    <3>3. Deadline' = far + PollDelay + 3 /\ Horizon <= far
      BY <3>1, <3>2
    <3>4. time <= far + PollDelay + 3
      BY <1>1, <2>1, <2>2, <2>7, <3>2, <3>3 DEF Numeric, Fetching
    <3>5. Fetching("poll")' /\ job'.since <= Deadline'
      BY <1>1, <2>7, <3>3, <3>4, PollingAssumption DEF Fetching, Job, Numeric
    <3>6. InTime'
      BY <3>5 DEF InTime
    <3> QED
      BY <1>3, <3>6
  <2> QED
    BY <2>3, <2>4, <2>5, <2>6, <2>7, DispatchIs
<1> QED
  BY <1>4, <1>5

LEMMA PollEndsIsInTime ==
    ASSUME PollingTypeOK, PollingTypeOK', Bounds, InTime, PollEnds
    PROVE  (InTime /\ Judges)'
<1>1. Numeric /\ Numeric'
  BY NumbersAreNumeric, PTL
<1>2. /\ UNCHANGED <<time, mates, child>> /\ job' = Absent /\ Fetching("poll")
  BY DEF PollEnds, Fetching
<1>3. Rough \in Nat
  BY <1>1, MeasuresHold DEF Measured
<1>4. CASE /\ upsets' = upsets /\ entry'.limited = entry.limited /\ entry'.at = time
           /\ entry'.next <= time + Rough
           /\ entry.limited = Absent => entry'.next <= time + Calm
  <2>1. entry'.next <= time + Calm \/ (upsets' > 0 /\ entry'.next <= time + Rough)
    BY <1>4 DEF Bounds
  <2> QED
    BY <1>2, <1>4, <2>1, ReadingsAreAmple
<1>5. CASE /\ upsets' = upsets + 1 /\ entry'.at \in {time, entry.at} /\ entry'.next <= time + Rough
           /\ entry.at = Absent => entry'.at = time
  <2>1. CASE entry'.at = time
    <3>1. upsets' > 0
      BY <1>1, <1>5 DEF Numeric
    <3> QED
      BY <1>2, <1>5, <2>1, <3>1, ReadingsAreAmple
  <2>2. CASE entry'.at = entry.at /\ entry.at # Absent
    BY <1>2, <1>5, <2>2, EventsBuyTime
  <2> QED
    BY <1>5, <2>1, <2>2
<1> QED
  BY <1>4, <1>5, PollEndsIs

LEMMA ChildEndsIsInTime ==
    ASSUME PollingTypeOK, PollingTypeOK', Bounds, InTime, Judges, ChildEnds
    PROVE  (InTime /\ Judges)'
<1>1. Numeric /\ Numeric' /\ Absent \notin Nat
  BY NumbersAreNumeric, NumbersHold, PTL
<1>2. /\ UNCHANGED <<time, mates, live, barred, profile, view, job, ticked>>
      /\ child # Absent /\ child' = Absent /\ entry.at # Absent
  BY DEF ChildEnds, Bounds
<1>3. \/ upsets' = upsets + 1 /\ entry' = entry
      \/ upsets' = upsets + 1 /\ entry' = RecordProbe(entry)
      \/ upsets' = upsets /\ entry' = RecordProbe(entry)
  BY DEF ChildEnds, Upset
<1>4. entry' = RecordProbe(entry) =>
         /\ entry'.tried = time /\ entry'.next = time + PollDelay /\ entry'.at = entry.at
         /\ entry'.snap = entry.snap /\ entry'.strikes = entry.strikes
  BY <1>1, <1>2, AttemptIsStamped DEF Numeric
<1>5. PollDelay \in Nat /\ Rough \in Nat /\ PollDelay < Rough
  BY <1>1, NumbersHold, MeasuresHold DEF Measured
<1>6. CASE upsets' = upsets + 1
  <2>1. entry'.at = entry.at /\ (entry' = entry \/ entry'.next = time + PollDelay)
    BY <1>3, <1>4
  <2>2. ~Fetching("poll")' => entry'.next <= Deadline \/ entry'.next <= time + Rough
    <3>1. Fetching("poll")' <=> Fetching("poll")
      BY <1>2 DEF Fetching
    <3> QED
      BY <1>1, <1>2, <1>5, <2>1, <3>1, NeverTooLate DEF Numeric
  <2> QED
    BY <1>2, <1>6, <2>1, <2>2, EventsBuyTime
<1>7. CASE upsets' = upsets /\ entry' = RecordProbe(entry)
  <2>1. /\ Horizon \in Nat /\ Deadline = Horizon + PollDelay + 3 /\ PollDelay \in Nat
        /\ ProfileCost \in 0..2 /\ WarmCost \in 0..PollDelay + 1 /\ Costs = ProfileCost + WarmCost
    BY <1>2, CostsHold
  <2>2. Horizon' = Horizon /\ Deadline' = Deadline
    BY <1>2, <1>4, <1>7 DEF Deadline, Horizon, Calm, Grace, Overhead
  <2>3. /\ ProfileCost' = ProfileCost
        /\ Fetching("poll")' <=> Fetching("poll")
        /\ Fetching("profile")' <=> Fetching("profile")
    BY <1>2, <2>2 DEF Fetching, ProfileCost, ProfileComes
  <2>4. NextTick' = NextTick
    BY <1>2, <2>3 DEF NextTick
  <2>5. PICK warm \in 0..PollDelay + 1 : WarmCost' = warm /\ warm <= WarmCost
    <3>1. WarmUpComes' => WarmUpComes
      <4>1. Ladder[1] \in Nat
        BY GapsAssumption
      <4> QED
        BY <1>1, <1>4, <1>7, <2>1, <2>2, <4>1 DEF WarmUpComes, Awake, Numeric
    <3>2. CASE WarmUpComes'
      BY <2>1, <3>1, <3>2 DEF WarmCost
    <3>3. CASE ~WarmUpComes'
      BY <2>1, <3>3 DEF WarmCost
    <3> QED
      BY <3>2, <3>3
  <2>6. Costs' = ProfileCost + warm
    BY <2>3, <2>5 DEF Costs
  <2>7. InTime'
    <3>1. CASE Fetching("poll")
      BY <1>2, <1>4, <1>7, <2>2, <2>3, <3>1 DEF InTime
    <3>2. CASE ~Fetching("poll")
      <4>1. /\ NextTick + Costs <= Deadline
            /\ child + PollDelay + 1 + Costs <= Deadline
        BY <1>2, <3>2 DEF InTime
      <4>2. NextTick \in Nat
        BY <1>1 DEF NextTick, Fetching, Numeric
      <4>3. time <= child + 1
        BY <1>2 DEF Bounds
      <4>4. NextTick + (ProfileCost + warm) <= Deadline
        BY <2>1, <2>5, <4>1, <4>2
      <4>5. time + PollDelay + (ProfileCost + warm) <= Deadline
        BY <1>1, <1>2, <2>1, <2>5, <4>1, <4>3 DEF Numeric
      <4> QED
        BY <1>2, <1>4, <1>7, <2>2, <2>3, <2>4, <2>6, <3>2, <4>4, <4>5 DEF InTime
    <3> QED
      BY <3>1, <3>2
  <2>8. Judges'
    <3>1. (Due(view)' <=> Due(view)) /\ (ProbeDue(view)' <=> ProbeDue(view))
      BY <1>2, VerdictStays
    <3>2. SUFFICES ASSUME view # Absent, ~Fetching("poll")
                   PROVE  /\ ~Due(view) => time + 1 + (ProfileCost + warm) <= Deadline
                          /\ ProbeDue(view) =>
                               /\ time + ProfileCost + PollDelay + 1 <= Deadline
                               /\ \/ time + PollDelay + 1 <= Horizon
                                  \/ entry.snap = Absent \/ entry.snap.reset = Absent \/ entry.snap.reset <= time
      BY <1>2, <1>4, <1>7, <2>2, <2>3, <2>6, <3>1 DEF Judges
    <3> QED
      BY <1>1, <1>2, <2>1, <2>5, <3>2 DEF Judges, Numeric
  <2> QED
    BY <2>7, <2>8
<1> QED
  BY <1>3, <1>6, <1>7

LEMMA InTimeStep ==
    ASSUME PollingTypeOK, PollingTypeOK', Bounds, InTime, Judges, [PollingNext]_pollVars
    PROVE  (InTime /\ Judges)'
<1>0. Numeric /\ Numeric'
  BY NumbersAreNumeric, PTL
<1>1. CASE LoadCache
  BY <1>1, LoadIsInTime
<1>2. CASE Switch
  <2>1. /\ UNCHANGED <<time, mates, entry, job, child>> /\ upsets' = upsets + 1
    BY <1>2 DEF Switch, Upset
  <2>2. CASE entry.at = Absent
    BY <2>1, <2>2 DEF InTime, Judges
  <2>3. CASE entry.at # Absent
    <3>1. /\ Fetching("poll")' <=> Fetching("poll")
          /\ Fetching("poll") => job.since <= Deadline
          /\ ~Fetching("poll") => entry.next <= Deadline
      BY <2>1, <2>3, NeverTooLate DEF Fetching, InTime
    <3> QED
      BY <2>1, <2>3, <3>1, EventsBuyTime
  <2> QED
    BY <2>2, <2>3
<1>3. CASE Dispatch
  BY <1>3, DispatchIsInTime
<1>4. CASE ProfileEnds
  BY <1>4, ProfileEndsIsInTime
<1>5. CASE PollEnds
  BY <1>5, PollEndsIsInTime
<1>6. CASE StandDown
  <2>1. /\ UNCHANGED <<time, mates, job, child>> /\ upsets' = upsets + 1 /\ entry.at # Absent
    BY <1>6 DEF StandDown, Upset
  <2>2. entry'.at = entry.at /\ entry'.next = entry.next
    BY <1>0, <1>6 DEF StandDown, Numeric, Entry
  <2>3. /\ Fetching("poll")' <=> Fetching("poll")
        /\ ~Fetching("poll") => entry.next <= Deadline
    BY <2>1, NeverTooLate DEF Fetching
  <2> QED
    BY <2>1, <2>2, <2>3, EventsBuyTime
<1>7. CASE ChildEnds
  BY <1>7, ChildEndsIsInTime
<1>8. CASE UNCHANGED <<time, mates, live, entry, view, job, child, barred, profile, ticked, upsets>>
  <2>1. (Due(view)' <=> Due(view)) /\ (ProbeDue(view)' <=> ProbeDue(view))
    BY <1>8, VerdictStays
  <2>2. /\ Costs' = Costs /\ ProfileCost' = ProfileCost /\ Deadline' = Deadline /\ Horizon' = Horizon
        /\ NextTick' = NextTick
        /\ Fetching("poll")' <=> Fetching("poll")
    BY <1>8 DEF Fetching, NextTick, Costs, ProfileCost, WarmCost, ProfileComes, WarmUpComes, Awake,
                Deadline, Horizon, Calm, Grace, Overhead
  <2> QED
    BY <1>8, <2>1, <2>2 DEF InTime, Judges
<1>9. CASE Clock
  <2>1. /\ UNCHANGED <<mates, live, entry, view, job, child, barred, profile, upsets>>
        /\ time' = time + 1 /\ ticked /\ ~ticked'
    BY <1>9 DEF Clock
  <2>2. /\ Costs' = Costs /\ Deadline' = Deadline
        /\ Fetching("poll")' <=> Fetching("poll")
        /\ NextTick' = NextTick
    BY <2>1 DEF Fetching, NextTick, Costs, ProfileCost, WarmCost, ProfileComes, WarmUpComes, Awake,
                Deadline, Horizon, Calm, Grace, Overhead
  <2>3. InTime'
    BY <2>1, <2>2 DEF InTime
  <2>4. Judges'
    BY <2>1 DEF Judges, Bounds
  <2> QED
    BY <2>3, <2>4
<1> QED
  BY <1>1, <1>2, <1>3, <1>4, <1>5, <1>6, <1>7, <1>8, <1>9 DEF PollingNext, Over, Spend, pollVars

\* No account goes unread longer than the longest wait and what each event may
\* add to it: profiles, warm-ups, looks aimed at a rollover, backoffs,
\* stand-downs and rows judged stale do not feed on each other.
THEOREM NoAccountIsForgotten == PollingSpec => []NeverForgotten
<1> DEFINE IInv == PollingTypeOK /\ Bounds /\ InTime /\ Judges
<1>1. PollingInit => IInv
  <2>1. PollingInit => InTime /\ Judges
    BY DEF PollingInit, NoEntry, InTime, Judges
  <2> QED
    BY <2>1, InitIsTyped, InitIsBounded
<1>2. IInv /\ [PollingNext]_pollVars => IInv'
  BY TypesStep, BoundsStep, InTimeStep
<1>3. IInv => NeverForgotten
  <2> SUFFICES ASSUME PollingTypeOK, Bounds, InTime, entry.at # Absent
               PROVE  time - entry.at <= Longest + upsets * Overhead
    BY DEF NeverForgotten
  <2>1. Numeric
    BY NumbersAreNumeric
  <2>2. Horizon \in Nat /\ Deadline = Horizon + PollDelay + 3 /\ time <= Deadline + 1
    BY NeverTooLate
  <2>3. Calm \in Nat /\ Grace \in Nat /\ PollDelay \in Nat
    BY <2>1, MeasuresHold, NumbersHold DEF Measured
  <2>4. Longest + upsets * Overhead = Calm + PollDelay + 4 + Grace
    BY DEF Longest, Calm, Grace
  <2> QED
    BY <2>1, <2>2, <2>3, <2>4 DEF Horizon, Numeric
<1> QED
  BY <1>1, <1>2, <1>3, PTL DEF PollingSpec

-----------------------------------------------------------------------------
(* A stopped clock starts again: the inductive invariant *)

\* The window is long beside the waits between two looks: an organization of a
\* dozen accounts still keeps to it (five hours; ten minutes an account), and a
\* turn is judged no sooner than the endpoint knows of it.
LongWindow ==
    /\ ConfirmAfter > Lag /\ ConfirmAfter >= 2 /\ Soon <= Length
    /\ \A n \in Sharing :
         LET longest == n * Stretch(T.candidateMax) + PollDelay + 4
         IN  Length > Lag + 2 * longest + 1 /\ Length >= Ladder[1] + Lag + longest + 1

\* How long after a clock's start a row may know nothing of it.
Blind == Lag + Calm + PollDelay + 4

\* Nothing out of the ordinary, and an idle account turns wake.
Quiet == upsets = 0 /\ wakes /\ ~live

\* What a row knows of the clock: its end while it runs, unless the reading is
\* older than the start or as old; nothing once it has run down.
Knows(e) ==
    /\ e.strikes = 0 /\ e.hold = 0
    /\ e.at = Absent => e.tried = Absent /\ e.snap = Absent
    /\ e.at # Absent =>
         /\ e.at <= time /\ time <= e.at + Calm + PollDelay + 4
         /\ e.snap # Absent /\ e.snap.pct = 0
         /\ meter.stop = Absent => e.snap.reset = Absent
         /\ meter.stop # Absent /\ e.at >= meter.stop => e.snap.reset = Absent
         /\ meter.stop # Absent /\ meter.stop + Lag < e.at + Length /\ e.at < meter.stop =>
              e.snap.reset = meter.stop

\* The last warm-up started the clock, or came too soon after its start to know.
Attempted(e) ==
    e.tried # Absent =>
       meter.stop # Absent /\ meter.stop <= e.tried + Length /\ e.tried + Length <= meter.stop + Blind + 1

\* While one is in flight, the row does not call for another.
Warming(e) ==
    /\ e.tried = child /\ e.snap # Absent
    /\ e.snap.reset = Absent \/ e.snap.reset <= child \/ e.snap.reset > child + 1

Rested ==
    /\ ~barred /\ meter.pct = 0
    /\ meter.stop = Absent => stopped = 0
    /\ meter.stop # Absent => meter.stop <= time + Length
    /\ meter.stop # Absent /\ meter.stop <= time => stopped = meter.stop
    /\ entry.next <= time + Calm
    /\ Knows(entry) /\ (view # Absent => Knows(view))
    /\ child # Absent =>
         /\ Warming(entry) /\ (view # Absent => Warming(view))
         /\ Running => child + Length <= meter.stop + Blind
    /\ child = Absent => Attempted(entry) /\ (view # Absent /\ ~Running => Attempted(view))

\* The first reading comes in the first units.
ProfileFirst == IF ~Fetching("profile") /\ profile # Absent /\ profile <= 2 THEN 2 ELSE 0
FirstLook ==
    /\ entry.at = Absent => IF Fetching("poll") THEN job.since <= 2 ELSE NextTick + ProfileFirst <= 2
    /\ view # Absent /\ view.at = Absent => time <= 3

\* The unit a warm-up of a stopped clock begins in at the latest.
Alarm == stopped + Phase + Calm + 6

ProfileBefore ==
    IF (IF Fetching("profile") THEN job.since + ProfileRetry <= Alarm ELSE profile # Absent /\ profile <= Alarm)
    THEN 2 ELSE 0

\* While the clock is stopped, every look but the first few warms the account up.
Wakening ==
    ~Running /\ stopped # Absent =>
      IF child # Absent THEN child <= Alarm
      ELSE /\ Fetching("poll") => job.since <= stopped + Phase + 3
           /\ entry.at # Absent => entry.at <= stopped + Phase + 4
           /\ ~Fetching("poll") /\ entry.at # Absent =>
                /\ NextTick + ProfileBefore <= Alarm /\ entry.next + ProfileBefore <= Alarm
                /\ view # Absent /\ ~Due(view) => time + 1 + ProfileBefore <= Alarm

Serene == Rested /\ FirstLook /\ Wakening

-----------------------------------------------------------------------------
(* A stopped clock starts again: the steps *)

\* What the types say of a row.
LEMMA RowIsNumeric ==
    ASSUME NEW e \in Entry
    PROVE  /\ e.next \in Nat /\ e.hold \in Nat /\ e.strikes \in Nat
           /\ e.at # Absent => e.at \in Nat
           /\ e.tried # Absent => e.tried \in Nat
           /\ e.snap # Absent => e.snap \in Reading
           /\ e.snap # Absent /\ e.snap.reset # Absent => e.snap.reset \in Nat
BY DEF Entry, Reading, Instant

\* And of the clock.
LEMMA ClockIsNumeric ==
    ASSUME PollingTypeOK
    PROVE  /\ meter.stop # Absent => meter.stop \in Nat
           /\ stopped # Absent => stopped \in Nat /\ stopped <= time
           /\ wakes \in BOOLEAN /\ live \in BOOLEAN /\ barred \in BOOLEAN
<1>1. time \in Nat
  BY NumbersAreNumeric DEF Numeric
<1>2. meter.stop \in Instant /\ stopped \in 0..time \cup {Absent}
  BY DEF PollingTypeOK
<1>3. wakes \in BOOLEAN /\ live \in BOOLEAN /\ barred \in BOOLEAN
  BY PollingAssumption DEF PollingTypeOK
<1> QED
  BY <1>1, <1>2, <1>3 DEF Instant

LEMMA WindowIsLong ==
    ASSUME LongWindow, PollingTypeOK
    PROVE  /\ {PollDelay, Lag, Length, Phase, ConfirmAfter, T.serveTTL, Ladder[1], ProfileRetry} \subseteq Nat
           /\ Calm \in Nat /\ PollDelay < Calm /\ T.serveTTL <= Calm
           /\ ConfirmAfter > Lag /\ ConfirmAfter >= 2 /\ ProfileRetry >= 5
           /\ Ladder[1] >= 4 /\ \A k \in 1..5 : Ladder[k] \in Nat /\ Ladder[k] >= Ladder[1]
           /\ Blind \in Nat /\ Blind = Lag + Calm + PollDelay + 4
           /\ Length > Blind + Calm + PollDelay + 5 /\ Length >= Ladder[1] + Blind + 1
<1>1. Numeric /\ mates \in Sharing
  BY NumbersAreNumeric DEF PollingTypeOK
<1>2. Calm \in Nat /\ PollDelay < Calm /\ T.serveTTL <= Calm
  BY <1>1, MeasuresHold DEF Measured
<1>3. {PollDelay, Lag, Length, Phase, ConfirmAfter, T.serveTTL, Ladder[1], ProfileRetry} \subseteq Nat
  BY PollingAssumption, TableHolds, GapsAssumption
<1>4. /\ Length > Lag + 2 * (Calm + PollDelay + 4) + 1
      /\ Length >= Ladder[1] + Lag + (Calm + PollDelay + 4) + 1
  BY <1>1 DEF LongWindow, Calm
<1>5. ProfileRetry >= 5 /\ Ladder[1] >= 4 /\ \A k \in 1..5 : Ladder[k] \in Nat /\ Ladder[k] >= Ladder[1]
  BY <1>3, GapsAssumption
<1>6. Blind \in Nat /\ Blind = Lag + Calm + PollDelay + 4
  BY <1>2, <1>3 DEF Blind
<1> QED
  BY <1>2, <1>3, <1>4, <1>5, <1>6 DEF LongWindow

\* Nothing undoes an event.
LEMMA QuietWas ==
    ASSUME PollingTypeOK, [PollingNext]_pollVars, Quiet'
    PROVE  Quiet /\ UNCHANGED <<upsets, mates>> /\ Calm' = Calm /\ Blind' = Blind
<1>1. upsets \in Nat /\ UNCHANGED <<mates, wakes>> /\ upsets' \in {upsets, upsets + 1}
      /\ (upsets' = upsets => live' = live)
  BY NumbersAreNumeric DEF Numeric, PollingNext, LoadCache, Switch, Dispatch, Probe, Poll, ProfileEnds, PollEnds, StandDown, ChildEnds,
              Spend, Clock, Over, Upset, pollVars
<1>2. Quiet /\ upsets' = upsets
  BY <1>1 DEF Quiet
<1> QED
  BY <1>1, <1>2 DEF Calm, Blind

\* A tick that may warm the account up while the clock runs is early in it, and
\* none does while a warm-up is in flight.
LEMMA WarmUpsComeEarly ==
    ASSUME LongWindow, PollingTypeOK, Bounds, Quiet, Rested, view # Absent, ProbeDue(view)
    PROVE  child = Absent /\ (Running => time + Length <= meter.stop + Blind)
<1>1. Numeric /\ view \in Entry
  BY NumbersAreNumeric DEF PollingTypeOK
<1>2. Cold(view.snap) /\ MayProbe(view) /\ Knows(view)
  BY DEF ProbeDue, Rested
<1>3. view.snap # Absent /\ view.at # Absent /\ view.at \in Nat /\ view.at <= time /\ time <= view.at + Calm + PollDelay + 4
  BY <1>1, <1>2, RowIsNumeric DEF Cold, Knows
<1>4. view.snap.reset = Absent \/ (view.snap.reset \in Nat /\ view.snap.reset <= time)
  BY <1>1, <1>2, <1>3, RowIsNumeric DEF Cold
<1>5. ASSUME Running PROVE time + Length <= meter.stop + Blind
  <2>1. meter.stop # Absent /\ meter.stop \in Nat /\ meter.stop > time
    BY <1>5, ClockIsNumeric DEF Running
  <2>2. ~(meter.stop + Lag < view.at + Length)
    BY <1>1, <1>2, <1>3, <1>4, <2>1, WindowIsLong DEF Knows, Numeric
  <2> QED
    BY <1>1, <1>3, <2>1, <2>2, WindowIsLong DEF Numeric
<1>6. ASSUME child # Absent PROVE FALSE
  <2>1. /\ view.tried = child /\ child \in Nat /\ child <= time /\ time <= child + 1
        /\ view.snap.reset = Absent \/ view.snap.reset <= child \/ view.snap.reset > child + 1
    BY <1>1, <1>6 DEF Rested, Warming, Bounds, Numeric
  <2>2. CASE view.snap.reset # Absent /\ view.tried < view.snap.reset
    BY <1>1, <1>4, <2>1, <2>2 DEF Numeric
  <2>3. CASE time >= view.tried + Ladder[Least({view.strikes, 4}) + 1]
    <3>0. view.strikes = 0
      BY <1>2 DEF Knows
    <3>1. Least({view.strikes, 4}) + 1 \in 1..5
      BY <3>0, LeastOfTwo
    <3>2. Ladder[Least({view.strikes, 4}) + 1] \in Nat /\ Ladder[Least({view.strikes, 4}) + 1] >= 4
      BY <3>1, WindowIsLong
    <3> QED
      BY <1>1, <2>1, <2>3, <3>2 DEF Numeric
  <2> QED
    BY <1>1, <1>2, <1>6, <2>1, <2>2, <2>3 DEF MayProbe
<1> QED
  BY <1>5, <1>6

\* While the clock is stopped, a look that is due and is no warm-up is one of
\* the first, or waits for the phase.
LEMMA LooksWarmUp ==
    ASSUME LongWindow, PollingTypeOK, Bounds, Quiet, Rested, FirstLook,
           ~Running, stopped # Absent, child = Absent, view # Absent, ~ProbeDue(view)
    PROVE  time <= stopped + Phase + 3
<1>1. Numeric /\ view \in Entry /\ Knows(view) /\ Attempted(view)
  BY NumbersAreNumeric DEF PollingTypeOK, Rested
<1>2. stopped \in Nat /\ stopped <= time /\ Phase \in Nat
  BY ClockIsNumeric, WindowIsLong
<1>3. CASE view.at = Absent
  BY <1>1, <1>2, <1>3 DEF FirstLook, Numeric
<1>4. CASE view.at # Absent
  <2>1. /\ view.at \in Nat /\ view.at <= time /\ time <= view.at + Calm + PollDelay + 4
        /\ view.snap # Absent /\ view.snap.pct = 0 /\ view.strikes = 0
    BY <1>1, <1>4, RowIsNumeric DEF Knows
  <2>2. CASE meter.stop = Absent
    <3>1. view.snap.reset = Absent /\ view.tried = Absent
      BY <1>1, <1>4, <2>2 DEF Knows, Attempted
    <3>2. ProbeDue(view)
      BY <2>1, <3>1 DEF ProbeDue, Cold, MayProbe, Rested, Quiet
    <3> QED
      BY <3>2
  <2>3. CASE meter.stop # Absent
    <3>1. meter.stop \in Nat /\ meter.stop <= time /\ stopped = meter.stop
      BY <1>1, <2>3, ClockIsNumeric DEF Running, Rested, Numeric
    <3>2. view.snap.reset = Absent \/ view.snap.reset = meter.stop
      BY <1>1, <1>4, <2>1, <2>3, <3>1, WindowIsLong DEF Knows, Numeric
    <3>3. view.tried # Absent =>
             view.tried \in Nat /\ view.tried < meter.stop /\ view.tried + Ladder[1] <= meter.stop
      BY <1>1, <2>3, <3>1, RowIsNumeric, WindowIsLong DEF Attempted
    <3>4. Least({view.strikes, 4}) + 1 = 1
      BY <2>1, LeastOfTwo
    <3>5. MayProbe(view)
      BY <1>1, <2>1, <3>1, <3>2, <3>3, <3>4, WindowIsLong DEF MayProbe, Numeric
    <3>6. Cold(view.snap)
      BY <2>1, <3>1, <3>2 DEF Cold
    <3>7. view.snap.reset # Absent /\ time < view.snap.reset + Phase
      BY <1>1, <1>2, <2>1, <3>1, <3>2, <3>5, <3>6 DEF ProbeDue, Rested, Quiet, Numeric
    <3> QED
      BY <1>1, <1>2, <3>1, <3>2, <3>7 DEF Numeric
  <2> QED
    BY <2>2, <2>3
<1> QED
  BY <1>3, <1>4

LEMMA InitIsSerene == ASSUME LongWindow, PollingInit, Quiet PROVE Serene
<1>1. PollingTypeOK /\ Numeric
  BY InitIsTyped, NumbersAreNumeric
<1>2. Calm \in Nat /\ Length \in Nat /\ Soon \in Nat /\ Soon <= Length /\ Absent \notin Nat
  BY <1>1, WindowIsLong, NumbersHold DEF LongWindow
<1>3. /\ entry.at = Absent /\ entry.tried = Absent /\ entry.snap = Absent /\ entry.next = 0
      /\ entry.hold = 0 /\ entry.strikes = 0
  BY DEF PollingInit, NoEntry
<1>4. Rested
  <2>1. Knows(entry) /\ Attempted(entry)
    BY <1>3 DEF Knows, Attempted
  <2> QED
    BY <1>2, <1>3, <2>1, NumbersHold DEF PollingInit, Rested
<1>5. FirstLook
  BY <1>2, <1>3 DEF PollingInit, FirstLook, ProfileFirst, NextTick, Fetching
<1>6. Wakening
  <2>1. ASSUME stopped # Absent PROVE stopped = 0
    BY <2>1 DEF PollingInit
  <2>2. /\ ~Fetching("poll") /\ child = Absent /\ entry.at = Absent
    BY <1>3 DEF PollingInit, Fetching
  <2> QED
    BY <2>2 DEF Wakening
<1> QED
  BY <1>4, <1>5, <1>6 DEF Serene

LEMMA LoadIsSerene ==
    ASSUME LongWindow, PollingTypeOK, Bounds, Quiet, Serene, LoadCache
    PROVE  Serene'
<1>1. /\ view = Absent /\ ~ticked /\ view' = entry
      /\ UNCHANGED <<time, mates, wakes, live, meter, entry, job, child, barred, profile, ticked, upsets, stopped, turned>>
  BY DEF LoadCache
<1>2. Numeric /\ entry \in Entry
  BY NumbersAreNumeric DEF PollingTypeOK
<1>3. Calm' = Calm /\ Blind' = Blind /\ (Running' <=> Running)
  BY <1>1 DEF Calm, Blind, Running
<1>4. Rested'
  <2>1. Knows(entry)' /\ Knows(view)' /\ (Warming(entry) => Warming(entry)' /\ Warming(view)')
        /\ (Attempted(entry) => Attempted(entry)' /\ Attempted(view)')
    BY <1>1, <1>3 DEF Serene, Rested, Knows, Warming, Attempted
  <2> QED
    BY <1>1, <1>3, <2>1 DEF Serene, Rested
<1>5. FirstLook'
  <2>1. /\ NextTick' = NextTick /\ ProfileFirst' = ProfileFirst
        /\ Fetching("poll")' <=> Fetching("poll")
    BY <1>1 DEF NextTick, ProfileFirst, Fetching
  <2>2. entry.at = Absent => time <= 3
    <3>1. CASE Fetching("poll")
      BY <1>2, <3>1 DEF Serene, FirstLook, Bounds, Numeric, Fetching
    <3>2. CASE ~Fetching("poll")
      BY <1>2, <3>2 DEF Serene, FirstLook, Bounds, Numeric, Fetching, NextTick, ProfileFirst
    <3> QED
      BY <3>1, <3>2
  <2> QED
    BY <1>1, <2>1, <2>2 DEF Serene, FirstLook
<1>6. Wakening'
  <2>1. /\ NextTick' = NextTick /\ ProfileBefore' = ProfileBefore /\ Alarm' = Alarm
        /\ Fetching("poll")' <=> Fetching("poll")
        /\ Due(view)' <=> Due(entry)
    BY <1>1, <1>3 DEF NextTick, ProfileBefore, Alarm, Fetching, Due, PollAt
  <2>2. ASSUME ~Running, stopped # Absent, child = Absent, ~Fetching("poll"), entry.at # Absent, ~Due(entry)
        PROVE  time + 1 + ProfileBefore <= Alarm
    <3>1. entry.hold = 0
      BY DEF Serene, Rested, Knows
    <3>2. time < entry.at + T.serveTTL \/ time < entry.next
      BY <1>2, <2>2, <3>1, WindowIsLong DEF Due, PollAt, Numeric
    <3>3. /\ entry.at <= stopped + Phase + 4
          /\ entry.next + ProfileBefore <= Alarm
      BY <2>2 DEF Serene, Wakening
    <3>4. ProfileBefore \in 0..2 /\ stopped \in Nat
      BY <2>2, ClockIsNumeric DEF ProfileBefore
    <3>5. Alarm \in Nat /\ Alarm = stopped + Phase + Calm + 6
      BY <3>4, WindowIsLong DEF Alarm
    <3> QED
      BY <1>2, <2>2, <3>2, <3>3, <3>4, <3>5, WindowIsLong DEF Numeric
  <2> QED
    BY <1>1, <1>3, <2>1, <2>2 DEF Serene, Wakening
<1> QED
  BY <1>4, <1>5, <1>6 DEF Serene

LEMMA RestStays ==
    ASSUME Rested, UNCHANGED <<time, mates, meter, entry, child, barred, stopped>>, view' \in {view, Absent}
    PROVE  Rested'
<1>1. Calm' = Calm /\ Blind' = Blind /\ (Running' <=> Running)
  BY DEF Calm, Blind, Running
<1>2. ASSUME NEW e, Knows(e) PROVE (Knows(e))'
  BY <1>1, <1>2 DEF Knows
<1>3. Knows(entry)' /\ (view' # Absent => view' = view /\ Knows(view)')
  BY <1>1 DEF Rested, Knows
<1>4. /\ Warming(entry) => Warming(entry)'
      /\ Attempted(entry) => Attempted(entry)'
      /\ view' # Absent => (Warming(view) => Warming(view)') /\ (Attempted(view) => Attempted(view)')
  BY <1>1 DEF Warming, Attempted
<1> QED
  BY <1>1, <1>3, <1>4 DEF Rested

LEMMA ProfileEndsIsSerene ==
    ASSUME LongWindow, PollingTypeOK, Bounds, Quiet, Serene, ProfileEnds, UNCHANGED upsets
    PROVE  Serene'
<1>1. /\ UNCHANGED <<time, mates, live, meter, entry, view, child, barred, ticked, stopped>>
      /\ job # Absent /\ job.kind = "profile" /\ job' = Absent
      /\ profile' = Absent \/ profile' = time + ProfileRetry
  BY NumbersAreNumeric DEF ProfileEnds, Upset, Numeric
<1>2. Numeric
  BY NumbersAreNumeric
<1>3. Rested'
  BY <1>1, RestStays DEF Serene
<1>4. /\ Fetching("profile") /\ ~Fetching("poll") /\ ~Fetching("poll")' /\ ~Fetching("profile")'
      /\ Calm' = Calm /\ Alarm' = Alarm /\ (Running' <=> Running)
  BY <1>1 DEF Fetching, Alarm, Calm, Running
<1>5. /\ NextTick = job.since + 2 /\ NextTick \in Nat /\ NextTick' \in Nat /\ NextTick' <= NextTick
      /\ time <= job.since + 1
  BY <1>1, <1>2, <1>4 DEF NextTick, Bounds, Numeric
<1>6. FirstLook'
  <2>1. ASSUME entry.at = Absent PROVE NextTick' <= 2 /\ ProfileFirst' = 0
    <3>1. NextTick <= 2
      <4>1. ProfileFirst = 0
        BY <1>4 DEF ProfileFirst
      <4>2. NextTick + ProfileFirst <= 2
        BY <1>4, <2>1 DEF Serene, FirstLook
      <4> QED
        BY <1>5, <4>1, <4>2
    <3> QED
      BY <1>1, <1>2, <1>4, <1>5, <3>1, WindowIsLong DEF ProfileFirst, Numeric
  <2>2. entry.at = Absent => NextTick' + ProfileFirst' <= 2
    <3>1. PICK next \in Nat : NextTick' = next
      BY <1>5
    <3> QED
      BY <2>1, <3>1
  <2> QED
    BY <1>1, <1>4, <2>2 DEF Serene, FirstLook
<1>7. Wakening'
  <2>1. ASSUME ~Running, stopped # Absent, child = Absent, entry.at # Absent
        PROVE  /\ NextTick' + ProfileBefore' <= Alarm /\ entry.next + ProfileBefore' <= Alarm
               /\ view # Absent /\ ~Due(view) => time + 1 + ProfileBefore' <= Alarm
    <3>1. stopped \in Nat /\ Alarm \in Nat /\ Alarm = stopped + Phase + Calm + 6
      BY <2>1, ClockIsNumeric, WindowIsLong DEF Alarm
    <3>2. PICK cost \in {0, 2} : ProfileBefore' = cost /\ cost <= ProfileBefore
      BY <1>1, <1>2, <1>4, <3>1, WindowIsLong, NumbersHold DEF ProfileBefore, Bounds, Numeric
    <3>3. PICK next \in Nat : NextTick' = next /\ next <= NextTick
      BY <1>5
    <3>4. PICK cost0 \in {0, 2} : ProfileBefore = cost0
      BY DEF ProfileBefore
    <3>5. /\ NextTick + ProfileBefore <= Alarm /\ entry.next + ProfileBefore <= Alarm
          /\ view # Absent /\ ~Due(view) => time + 1 + ProfileBefore <= Alarm
      BY <1>4, <2>1 DEF Serene, Wakening
    <3> QED
      BY <1>2, <1>5, <3>1, <3>2, <3>3, <3>4, <3>5 DEF Numeric
  <2>2. Due(view)' <=> Due(view)
    BY <1>1 DEF Due, PollAt
  <2> QED
    BY <1>1, <1>4, <2>1, <2>2 DEF Serene, Wakening
<1> QED
  BY <1>3, <1>6, <1>7 DEF Serene

LEMMA DispatchIsSerene ==
    ASSUME LongWindow, PollingTypeOK, Bounds, Clocked, Quiet, Serene, Dispatch, UNCHANGED upsets
    PROVE  Serene'
<1>1. /\ view # Absent /\ view' = Absent /\ ~ticked /\ ticked'
      /\ UNCHANGED <<time, mates, live, barred, profile, meter, stopped>>
  BY DispatchIs DEF Dispatch
<1>2. Numeric /\ entry \in Entry /\ view \in Entry /\ Absent \notin Nat
  BY <1>1, NumbersAreNumeric, NumbersHold DEF PollingTypeOK
<1>3. Calm' = Calm /\ Blind' = Blind /\ Alarm' = Alarm /\ (Running' <=> Running)
  BY <1>1 DEF Calm, Blind, Alarm, Running
<1>4. stopped # Absent => stopped \in Nat /\ Alarm \in Nat /\ Alarm = stopped + Phase + Calm + 6
  BY ClockIsNumeric, WindowIsLong DEF Alarm
<1>5. entry.at = Absent => view.at = Absent
  BY <1>1 DEF Bounds, Serene, Rested, Knows
<1>6. CASE UNCHANGED <<entry, job, child>> /\ job # Absent
  <2>1. Rested'
    BY <1>1, <1>6, RestStays DEF Serene
  <2>2. /\ Fetching("poll")' <=> Fetching("poll")
        /\ Fetching("profile")' <=> Fetching("profile")
        /\ ~Fetching("poll") => Fetching("profile")
    BY <1>2, <1>6 DEF Fetching, Numeric
  <2>3. ~Fetching("poll") => NextTick' = NextTick /\ ProfileFirst' = ProfileFirst
    BY <1>1, <1>6, <2>2 DEF NextTick, ProfileFirst
  <2>4. ProfileBefore' = ProfileBefore
    BY <1>1, <1>3, <1>6, <2>2 DEF ProfileBefore
  <2>5. FirstLook'
    BY <1>1, <1>6, <2>2, <2>3 DEF Serene, FirstLook
  <2>6. Wakening'
    BY <1>1, <1>3, <1>6, <2>2, <2>3, <2>4 DEF Serene, Wakening
  <2> QED
    BY <2>1, <2>5, <2>6 DEF Serene
<1>7. CASE UNCHANGED <<entry, job, child>> /\ job = Absent /\ ~Due(view)
  <2>1. Rested'
    BY <1>1, <1>7, RestStays DEF Serene
  <2>2. /\ ~Fetching("poll") /\ ~Fetching("poll")' /\ ~Fetching("profile") /\ ~Fetching("profile")'
        /\ NextTick' = time + 1 /\ ProfileBefore' = ProfileBefore
    BY <1>1, <1>3, <1>7 DEF Fetching, NextTick, ProfileBefore
  <2>3. entry.at # Absent
    BY <1>5, <1>7 DEF Due
  <2>4. FirstLook'
    BY <1>1, <1>7, <2>3 DEF FirstLook
  <2>5. Wakening'
    BY <1>1, <1>3, <1>7, <2>2 DEF Serene, Wakening
  <2> QED
    BY <2>1, <2>4, <2>5 DEF Serene
<1>8. CASE /\ job = Absent /\ profile # Absent /\ profile <= time
           /\ job' = [kind |-> "profile", since |-> time] /\ UNCHANGED <<entry, child>>
  <2>1. Rested'
    BY <1>1, <1>8, RestStays DEF Serene
  <2>2. job' # Absent
    BY <1>2, <1>8, PollingAssumption DEF Job, Numeric
  <2>3. /\ ~Fetching("poll") /\ ~Fetching("poll")' /\ ~Fetching("profile") /\ Fetching("profile")'
        /\ NextTick = time /\ NextTick' = time + 2
    BY <1>1, <1>8, <2>2 DEF Fetching, NextTick
  <2>4. FirstLook'
    <3>1. ASSUME entry.at = Absent PROVE time = 0 /\ ProfileFirst' = 0
      BY <1>1, <1>2, <1>8, <2>3, <3>1 DEF Serene, FirstLook, ProfileFirst, Numeric
    <3> QED
      BY <1>1, <1>8, <2>3, <3>1 DEF Serene, FirstLook
  <2>5. Wakening'
    <3>1. ASSUME ~Running, stopped # Absent, child = Absent, entry.at # Absent
          PROVE  NextTick' + ProfileBefore' <= Alarm /\ entry.next + ProfileBefore' <= Alarm
      <4>1. NextTick + ProfileBefore <= Alarm /\ entry.next + ProfileBefore <= Alarm
        BY <2>3, <3>1 DEF Serene, Wakening
      <4>2. ProfileBefore \in {0, 2}
        BY DEF ProfileBefore
      <4>3. time <= Alarm
        BY <1>2, <1>4, <2>3, <3>1, <4>1, <4>2 DEF Numeric
      <4>4. ProfileBefore = 2
        BY <1>2, <1>4, <1>8, <2>3, <3>1, <4>3 DEF ProfileBefore, Numeric
      <4>5. PICK cost \in {0, 2} : ProfileBefore' = cost /\ (cost = 0 \/ time + ProfileRetry <= Alarm)
        BY <1>3, <1>8, <2>3 DEF ProfileBefore
      <4> QED
        BY <1>2, <1>4, <2>3, <3>1, <4>1, <4>4, <4>5, WindowIsLong DEF Numeric
    <3> QED
      BY <1>1, <1>3, <1>8, <2>3, <3>1 DEF Serene, Wakening
  <2> QED
    BY <2>1, <2>4, <2>5 DEF Serene
<1>9. CASE /\ job = Absent /\ Due(view) /\ ~(profile # Absent /\ profile <= time) /\ ~ProbeDue(view)
           /\ job' = [kind |-> "poll", since |-> time] /\ UNCHANGED <<entry, child>>
  <2>1. Rested'
    BY <1>1, <1>9, RestStays DEF Serene
  <2>2. job' # Absent
    BY <1>2, <1>9, PollingAssumption DEF Job, Numeric
  <2>3. /\ ~Fetching("poll") /\ Fetching("poll")' /\ ~Fetching("profile") /\ job'.since = time
    BY <1>1, <1>9, <2>2 DEF Fetching
  <2>4. FirstLook'
    <3>1. ASSUME entry.at = Absent PROVE time <= 2
      BY <1>1, <1>2, <2>3, <3>1 DEF Serene, FirstLook, ProfileFirst, NextTick, Numeric
    <3> QED
      BY <1>1, <1>9, <2>3, <3>1 DEF Serene, FirstLook
  <2>5. Wakening'
    <3>1. ASSUME ~Running, stopped # Absent, child = Absent PROVE time <= stopped + Phase + 3
      BY <1>1, <1>9, <3>1, LooksWarmUp DEF Serene
    <3> QED
      BY <1>1, <1>3, <1>9, <2>3, <3>1 DEF Serene, Wakening
  <2> QED
    BY <2>1, <2>4, <2>5 DEF Serene
<1>10. CASE /\ job = Absent /\ Due(view) /\ ProbeDue(view)
            /\ entry' = RecordProbe(entry) /\ child' = time /\ UNCHANGED job
  <2>1. /\ child = Absent /\ (Running => time + Length <= meter.stop + Blind)
    BY <1>1, <1>10, WarmUpsComeEarly DEF Serene
  <2>2. view.at # Absent /\ entry.at # Absent /\ entry.snap # Absent
    BY <1>1, <1>5, <1>10 DEF ProbeDue, Cold, Serene, Rested, Knows
  <2>3. /\ entry'.tried = time /\ entry'.next = time + PollDelay /\ entry'.at = entry.at
        /\ entry'.snap = entry.snap /\ entry'.hold = entry.hold /\ entry'.strikes = entry.strikes
    BY <1>2, <1>10, <2>2, AttemptIsStamped DEF Numeric
  <2>4. Rested'
    <3>1. Knows(entry)'
      BY <1>1, <1>3, <2>2, <2>3 DEF Serene, Rested, Knows
    <3>2. Warming(entry)'
      <4>1. entry.snap.reset = Absent \/ entry.snap.reset <= time \/ entry.snap.reset > time + 1
        <5>1. /\ meter.stop # Absent => meter.stop \in Nat
              /\ stopped # Absent => stopped \in Nat /\ stopped <= time
          BY ClockIsNumeric
        <5>2. entry.snap.reset # Absent => entry.snap.reset \in Nat
          BY <1>2, <2>2, RowIsNumeric
        <5>3. entry.snap.reset # Absent => entry.snap.reset = meter.stop \/ (stopped # Absent /\ stopped >= entry.snap.reset)
          BY <2>2 DEF Clocked, Dated
        <5> QED
          BY <1>2, <2>1, <5>1, <5>2, <5>3, WindowIsLong DEF Numeric, Running
      <4> QED
        BY <1>10, <2>2, <2>3, <4>1 DEF Warming
    <3>3. entry'.next <= time + Calm'
      BY <1>2, <1>3, <2>3, WindowIsLong DEF Numeric
    <3>4. Running' => child' + Length <= meter'.stop + Blind'
      BY <1>1, <1>3, <1>10, <2>1
    <3> QED
      BY <1>1, <1>2, <1>3, <1>10, <3>1, <3>2, <3>3, <3>4 DEF Serene, Rested, Numeric
  <2>5. FirstLook'
    BY <1>1, <2>2, <2>3 DEF FirstLook
  <2>6. Wakening'
    <3>1. ASSUME ~Running, stopped # Absent PROVE time <= Alarm
      <4>1. ~Fetching("poll") /\ NextTick = time
        BY <1>1, <1>10 DEF Fetching, NextTick
      <4>2. ProfileBefore \in {0, 2} /\ NextTick + ProfileBefore <= Alarm
        BY <2>1, <2>2, <3>1, <4>1 DEF Serene, Wakening, ProfileBefore
      <4> QED
        BY <1>2, <1>4, <3>1, <4>1, <4>2 DEF Numeric
    <3> QED
      BY <1>1, <1>2, <1>3, <1>10, <3>1 DEF Wakening, Numeric
  <2> QED
    BY <2>4, <2>5, <2>6 DEF Serene
<1>11. upsets' # upsets + 1
  BY <1>2 DEF Numeric
<1> QED
  BY <1>6, <1>7, <1>8, <1>9, <1>10, <1>11 DEF Dispatch, Probe, Poll, Upset

\* What the endpoint says of the clock.
LEMMA ReadsTell ==
    ASSUME PollingTypeOK, NEW s \in Reads
    PROVE  /\ s # Absent /\ s \in Reading /\ s.pct = meter.pct
           /\ s.reset = Absent \/ (Running /\ s.reset = meter.stop)
           /\ Running /\ meter.stop - Length + Lag < time => s.reset = meter.stop
BY ReadsAreTyped DEF Reads

\* No warm-up is taken for one that failed: a turn is judged once the endpoint
\* knows of it, and its reading comes before its clock has run down.
LEMMA NoStrike ==
    ASSUME LongWindow, PollingTypeOK, Bounds, Quiet, Rested, NEW s \in Reads
    PROVE  Judged(entry, s) = 0
<1>1. Numeric /\ entry \in Entry /\ Knows(entry) /\ entry.strikes = 0
  BY NumbersAreNumeric DEF PollingTypeOK, Rested, Knows
<1>2. s # Absent /\ (Running /\ meter.stop - Length + Lag < time => s.reset = meter.stop)
  BY ReadsTell
<1>3. SUFFICES ASSUME entry.tried # Absent, ~(entry.at > entry.tried), ~(time < entry.tried + ConfirmAfter),
                      ~(s.reset # Absent /\ s.reset > time)
               PROVE  FALSE
  BY <1>1 DEF Judged
<1>4. /\ entry.tried \in Nat /\ entry.at # Absent /\ entry.at \in Nat /\ entry.at <= entry.tried
      /\ time <= entry.at + Calm + PollDelay + 4
  BY <1>1, <1>3 DEF Knows, Numeric
<1>5. child = Absent
  <2>1. ASSUME child # Absent PROVE FALSE
    <3>1. entry.tried = child /\ time <= child + 1
      BY <2>1 DEF Rested, Warming, Bounds
    <3> QED
      BY <1>1, <1>3, <1>4, <3>1, WindowIsLong DEF Numeric
  <2> QED
    BY <2>1
<1>6. meter.stop # Absent /\ meter.stop <= entry.tried + Length /\ entry.tried + Length <= meter.stop + Blind + 1
  BY <1>3, <1>5 DEF Rested, Attempted
<1>7. meter.stop \in Nat
  BY <1>6, ClockIsNumeric
<1>8. CASE Running
  <2>1. ~(meter.stop - Length + Lag < time)
    BY <1>1, <1>2, <1>3, <1>6, <1>8 DEF Running
  <2> QED
    BY <1>1, <1>3, <1>4, <1>6, <1>7, <2>1, WindowIsLong DEF Numeric
<1>9. CASE ~Running
  <2>1. meter.stop <= time
    BY <1>1, <1>6, <1>7, <1>9 DEF Running, Numeric
  <2> QED
    BY <1>1, <1>4, <1>6, <1>7, <2>1, WindowIsLong DEF Numeric
<1> QED
  BY <1>8, <1>9

LEMMA PollEndsIsSerene ==
    ASSUME LongWindow, PollingTypeOK, Bounds, Quiet, Serene, PollEnds, UNCHANGED upsets
    PROVE  Serene'
<1>1. /\ UNCHANGED <<time, mates, wakes, live, meter, view, child, profile, ticked, stopped>>
      /\ job' = Absent /\ Fetching("poll") /\ time <= job.since + 1
  BY DEF PollEnds, Fetching, Bounds
<1>2. Numeric /\ entry \in Entry /\ mates \in Nat \ {0} /\ Absent \notin Nat
  BY NumbersAreNumeric, NumbersHold DEF Numeric
<1>3. upsets' # upsets + 1 /\ ~Recent429(entry)
  BY <1>2 DEF Numeric, Bounds, Quiet, Recent429
<1>4. PICK s \in Reads : Commit(entry, s) /\ UNCHANGED barred
  BY <1>3 DEF PollEnds, Upset
<1>5. /\ s # Absent /\ s \in Reading /\ s.pct = 0
      /\ s.reset = Absent \/ (Running /\ s.reset = meter.stop)
      /\ Running /\ meter.stop - Length + Lag < time => s.reset = meter.stop
  BY ReadsTell DEF Serene, Rested
<1>6. /\ entry'.snap = s /\ entry'.at = time /\ entry'.hold = 0 /\ entry'.tried = entry.tried
      /\ entry'.strikes = 0 /\ entry'.next <= time + Calm
  BY <1>2, <1>3, <1>4, <1>5, PollIsCommitted, NoStrike DEF Numeric, Calm, Serene, Rested, Knows
<1>7. /\ Calm' = Calm /\ Blind' = Blind /\ Alarm' = Alarm /\ (Running' <=> Running)
      /\ ~Fetching("poll")' /\ ~Fetching("profile")'
      /\ NextTick' \in {time, time + 1}
  BY <1>1 DEF Calm, Blind, Alarm, Running, Fetching, NextTick
<1>8. PICK calm \in Nat : Calm = calm /\ Calm' = calm
  BY <1>7, WindowIsLong
<1>9. meter.stop # Absent => meter.stop \in Nat
  BY ClockIsNumeric
<1>10. entry'.at # Absent
  BY <1>2, <1>6 DEF Numeric
<1>11. Rested'
  <2>1. Knows(entry)'
    <3>1. time <= time + calm + PollDelay + 4
      BY <1>2, <1>8, WindowIsLong DEF Numeric
    <3>2. meter.stop # Absent /\ time >= meter.stop => s.reset = Absent
      BY <1>2, <1>5, <1>9 DEF Running, Numeric
    <3>3. meter.stop = Absent => s.reset = Absent
      BY <1>5 DEF Running
    <3>4. meter.stop # Absent /\ meter.stop + Lag < time + Length /\ time < meter.stop => s.reset = meter.stop
      BY <1>2, <1>5, <1>9, WindowIsLong DEF Running, Numeric
    <3> QED
      BY <1>1, <1>2, <1>5, <1>6, <1>8, <1>10, <3>1, <3>2, <3>3, <3>4 DEF Knows, Numeric
  <2>2. view' # Absent => Knows(view)'
    BY <1>1, <1>7 DEF Serene, Rested, Knows
  <2>3. ASSUME child # Absent PROVE Warming(entry)' /\ (view # Absent => Warming(view)')
    <3>1. s.reset = Absent \/ s.reset <= child \/ s.reset > child + 1
      BY <1>2, <1>5, <1>9, <2>3, WindowIsLong DEF Serene, Rested, Numeric, Running
    <3> QED
      BY <1>1, <1>5, <1>6, <2>3, <3>1 DEF Serene, Rested, Warming
  <2>4. child = Absent => Attempted(entry)' /\ (view # Absent /\ ~Running => Attempted(view)')
    BY <1>1, <1>6, <1>7 DEF Serene, Rested, Attempted
  <2>5. entry'.next <= time' + Calm'
    BY <1>1, <1>6, <1>7
  <2> QED
    BY <1>1, <1>4, <1>7, <2>1, <2>2, <2>3, <2>4, <2>5 DEF Serene, Rested
<1>12. FirstLook'
  BY <1>1, <1>10 DEF Serene, FirstLook
<1>13. Wakening'
  <2>1. ASSUME ~Running, stopped # Absent, child = Absent
        PROVE  /\ time <= stopped + Phase + 4
               /\ NextTick' + ProfileBefore' <= Alarm /\ entry'.next + ProfileBefore' <= Alarm
               /\ time + 1 + ProfileBefore' <= Alarm
    <3>1. job.since <= stopped + Phase + 3 /\ job.since \in Nat /\ stopped \in Nat
      BY <1>1, <1>2, <2>1, ClockIsNumeric DEF Serene, Wakening, Fetching, Numeric
    <3>2. Alarm = stopped + Phase + Calm + 6
      BY DEF Alarm
    <3>3. PICK cost \in {0, 2} : ProfileBefore' = cost
      BY DEF ProfileBefore
    <3>4. PICK next \in Nat : NextTick' = next /\ next <= time + 1
      BY <1>2, <1>7 DEF Numeric
    <3>5. entry'.next \in Nat
      BY <1>2, <1>4, <1>5, PollIsCommitted, RowIsNumeric DEF Numeric
    <3> QED
      BY <1>1, <1>2, <1>6, <3>1, <3>2, <3>3, <3>4, <3>5, WindowIsLong DEF Numeric
  <2>2. ASSUME ~Running', stopped' # Absent, child' = Absent
        PROVE  /\ entry'.at <= stopped' + Phase + 4
               /\ NextTick' + ProfileBefore' <= Alarm' /\ entry'.next + ProfileBefore' <= Alarm'
               /\ time' + 1 + ProfileBefore' <= Alarm'
    BY <1>1, <1>6, <1>7, <2>1, <2>2
  <2>3. ASSUME ~Running', stopped' # Absent PROVE child' # Absent => child' <= Alarm'
    BY <1>1, <1>7, <2>3 DEF Serene, Wakening
  <2> QED
    BY <1>7, <2>2, <2>3 DEF Wakening
<1> QED
  BY <1>11, <1>12, <1>13 DEF Serene

LEMMA ChildEndsIsSerene ==
    ASSUME LongWindow, PollingTypeOK, Bounds, Quiet, Serene, ChildEnds, UNCHANGED upsets
    PROVE  Serene'
<1>1. /\ UNCHANGED <<time, mates, wakes, live, view, job, barred, profile, ticked, stopped>>
      /\ child # Absent /\ child' = Absent /\ entry.at # Absent
  BY DEF ChildEnds, Bounds
<1>2. Numeric /\ entry \in Entry /\ Absent \notin Nat /\ (view # Absent => view \in Entry)
  BY NumbersAreNumeric, NumbersHold DEF Numeric
<1>3. /\ entry' = RecordProbe(entry)
      /\ meter' = [meter EXCEPT !.stop = IF Running \/ ~wakes THEN @ ELSE time + Length]
  BY <1>2 DEF ChildEnds, Upset, Numeric
<1>4. /\ entry'.tried = time /\ entry'.next = time + PollDelay /\ entry'.at = entry.at
      /\ entry'.snap = entry.snap /\ entry'.hold = entry.hold /\ entry'.strikes = entry.strikes
  BY <1>1, <1>2, <1>3, AttemptIsStamped DEF Numeric
<1>5. Calm' = Calm /\ Blind' = Blind
  BY <1>1 DEF Calm, Blind
<1>6. PICK calm \in Nat : Calm = calm /\ Calm' = calm
  BY <1>5, WindowIsLong
<1>7. /\ meter'.pct = 0
      /\ (Running /\ meter'.stop = meter.stop) \/ (~Running /\ meter'.stop = time + Length)
  <2>1. meter \in [pct: Pcts, stop: Instant] /\ wakes /\ meter.pct = 0
    BY DEF Quiet, PollingTypeOK, Serene, Rested
  <2>2. CASE Running
    BY <1>3, <2>1, <2>2
  <2>3. CASE ~Running
    BY <1>3, <2>1, <2>3
  <2> QED
    BY <2>2, <2>3
<1>8. child \in Nat /\ child <= time /\ time <= child + 1 /\ time \in Nat /\ Length \in Nat \ {0}
  BY <1>1, <1>2, NumbersHold DEF Bounds, Numeric
<1>9. PICK stop \in Nat : /\ meter'.stop = stop /\ stop > time /\ stop <= time + Length
                          /\ time + Length <= stop + Blind + 1
                          /\ meter.stop = stop \/ ~Running
  <2>1. CASE meter'.stop = meter.stop /\ Running
    <3>1. /\ meter.stop \in Nat /\ meter.stop > time /\ meter.stop <= time + Length
          /\ child + Length <= meter.stop + Blind
      BY <1>1, <2>1, ClockIsNumeric DEF Running, Serene, Rested
    <3> QED
      BY <1>8, <2>1, <3>1, WindowIsLong
  <2>2. CASE meter'.stop = time + Length /\ ~Running
    BY <1>8, <2>2, WindowIsLong
  <2> QED
    BY <1>7, <2>1, <2>2
<1>10. Running'
  BY <1>1, <1>2, <1>9 DEF Running
<1>11. ASSUME NEW e \in Entry, e.at # Absent => e.at <= time, Knows(e)
       PROVE  Knows(e)'
  <2>1. e.at # Absent => e.at \in Nat
    BY RowIsNumeric
  <2>2. CASE meter.stop = stop
    BY <1>1, <1>6, <1>9, <1>11, <2>2, NumbersHold DEF Knows
  <2>3. CASE ~Running
    <3>1. meter'.stop = time + Length \/ meter.stop = stop
      BY <1>7, <1>9
    <3>2. CASE meter'.stop = time + Length
      <4>1. e.at # Absent => ~(e.at >= stop) /\ ~(stop + Lag < e.at + Length)
        BY <1>8, <1>9, <1>11, <2>1, <3>2, WindowIsLong
      <4> QED
        BY <1>1, <1>2, <1>6, <1>9, <1>11, <4>1 DEF Knows
    <3> QED
      BY <2>2, <3>1, <3>2
  <2> QED
    BY <1>9, <2>2, <2>3
<1>12. Rested'
  <2>1. Knows(entry)'
    <3>1. Knows(entry) /\ (entry.at # Absent => entry.at <= time)
      BY DEF Serene, Rested, Knows
    <3>2. PICK f \in Entry : f = entry /\ Knows(f) /\ (f.at # Absent => f.at <= time)
      BY <1>2, <3>1
    <3>3. Knows(f)'
      BY <1>11, <3>2
    <3> QED
      BY <1>1, <1>4, <3>2, <3>3 DEF Knows
  <2>2. view # Absent => Knows(view)'
    <3>1. ASSUME view # Absent PROVE Knows(view)'
      <4>1. PICK f \in Entry : f = view /\ Knows(f) /\ (f.at # Absent => f.at <= time)
        BY <1>2, <3>1 DEF Serene, Rested, Knows
      <4>2. Knows(f)'
        BY <1>11, <4>1
      <4> QED
        BY <1>1, <4>1, <4>2 DEF Knows
    <3> QED
      BY <3>1
  <2>3. Attempted(entry)'
    BY <1>2, <1>4, <1>5, <1>8, <1>9 DEF Attempted
  <2>4. entry'.next <= time' + Calm'
    BY <1>1, <1>4, <1>6, <1>8, WindowIsLong
  <2>5. meter'.stop # Absent /\ meter'.stop <= time' + Length /\ ~(meter'.stop <= time')
    BY <1>1, <1>2, <1>8, <1>9
  <2> QED
    BY <1>1, <1>7, <1>10, <2>1, <2>2, <2>3, <2>4, <2>5 DEF Serene, Rested
<1>13. FirstLook'
  BY <1>1, <1>4 DEF Serene, FirstLook
<1> QED
  BY <1>10, <1>12, <1>13 DEF Serene, Wakening

LEMMA ClockIsSerene ==
    ASSUME LongWindow, PollingTypeOK, PollingTypeOK', Bounds, NeverForgotten', Quiet, Serene, Clock
    PROVE  Serene'
<1>1. /\ UNCHANGED <<mates, wakes, live, entry, view, job, child, barred, profile, upsets>>
      /\ time' = time + 1 /\ ticked /\ ~ticked' /\ view = Absent
      /\ job # Absent => job.since = time
      /\ child # Absent => child = time
  BY DEF Clock, Bounds
<1>2. Numeric /\ entry \in Entry /\ Absent \notin Nat
  BY NumbersAreNumeric, NumbersHold DEF Numeric
<1>3. Calm' = Calm /\ Blind' = Blind
  BY <1>1 DEF Calm, Blind
<1>4. PICK calm \in Nat : Calm = calm /\ Calm' = calm
  BY <1>3, WindowIsLong
<1>5. /\ meter'.stop = meter.stop /\ meter'.pct = 0
      /\ IF meter.stop = time + 1 THEN stopped' = time + 1 ELSE stopped' = stopped
  BY DEF Clock, PollingTypeOK, Serene, Rested
<1>6. meter.stop # Absent => meter.stop \in Nat
  BY ClockIsNumeric
<1>7. entry.at # Absent => entry.at \in Nat /\ entry.at <= time /\ time + 1 <= entry.at + calm + PollDelay + 4
  <2>1. ASSUME entry.at # Absent PROVE time' - entry.at <= calm + PollDelay + 4
    <3>1. upsets' * Overhead' = 0
      <4>1. PICK rough \in Nat : mates * Stretch(T.post429Max) = rough
        BY <1>2, MeasuresHold DEF Measured, Rough
      <4>2. Overhead' = rough + PollDelay + 4
        BY <1>1, <4>1 DEF Overhead
      <4> QED
        BY <1>1, <4>1, <4>2, WindowIsLong DEF Quiet
    <3>2. Longest' = calm + PollDelay + 4
      BY <1>4 DEF Longest, Calm
    <3>3. time' - entry'.at <= Longest' + upsets' * Overhead'
      BY <1>1, <2>1 DEF NeverForgotten
    <3> QED
      BY <1>1, <1>4, <3>1, <3>2, <3>3, WindowIsLong
  <2> QED
    BY <1>1, <1>2, <1>4, <2>1, WindowIsLong DEF Numeric
<1>8. Rested'
  <2>1. Knows(entry)'
    BY <1>1, <1>2, <1>4, <1>5, <1>7 DEF Serene, Rested, Knows, Numeric
  <2>2. meter.stop # Absent => meter.stop <= time + 1 + Length /\ (meter.stop <= time + 1 => stopped' = meter.stop)
    BY <1>2, <1>5, <1>6, WindowIsLong DEF Serene, Rested, Numeric
  <2>3. meter.stop = Absent => stopped' = 0
    BY <1>2, <1>5 DEF Serene, Rested, Numeric
  <2>4. entry'.next <= time' + Calm'
    BY <1>1, <1>2, <1>4 DEF Serene, Rested, Numeric
  <2>5. Running' => Running
    BY <1>1, <1>2, <1>5, <1>6 DEF Running, Numeric
  <2>6. (Warming(entry) => Warming(entry)') /\ (Attempted(entry) => Attempted(entry)')
    BY <1>1, <1>3, <1>5 DEF Warming, Attempted
  <2>7. Running' => (child' # Absent => child' + Length <= meter'.stop + Blind')
    BY <1>1, <1>3, <1>5, <2>5 DEF Serene, Rested
  <2> QED
    BY <1>1, <1>5, <2>1, <2>2, <2>3, <2>4, <2>6, <2>7 DEF Serene, Rested
<1>9. /\ NextTick' = NextTick /\ ProfileFirst' = ProfileFirst
      /\ Fetching("poll")' <=> Fetching("poll")
      /\ Fetching("profile")' <=> Fetching("profile")
  BY <1>1 DEF NextTick, ProfileFirst, Fetching
<1>10. FirstLook'
  BY <1>1, <1>9 DEF Serene, FirstLook
<1>11. Wakening'
  <2>1. CASE meter.stop = time + 1
    <3>1. stopped' = time + 1 /\ Alarm' = time + 1 + Phase + calm + 6
      BY <1>4, <1>5, <2>1 DEF Alarm
    <3>2. PICK cost \in {0, 2} : ProfileBefore' = cost
      BY DEF ProfileBefore
    <3>3. PICK next \in Nat : NextTick' = next /\ next <= time + 2
      BY <1>1, <1>2, <1>9 DEF NextTick, Fetching, Numeric
    <3>4. entry.next <= time + calm /\ entry.next \in Nat
      BY <1>2, <1>4, RowIsNumeric DEF Serene, Rested
    <3>5. /\ child' # Absent => child' <= Alarm'
          /\ Fetching("poll")' => job'.since <= stopped' + Phase + 3
          /\ entry'.at # Absent => entry'.at <= stopped' + Phase + 4
          /\ NextTick' + ProfileBefore' <= Alarm' /\ entry'.next + ProfileBefore' <= Alarm'
      <4>1. child # Absent => child <= time + 1 + Phase + calm + 6
        BY <1>1, <1>2, WindowIsLong DEF Numeric
      <4>2. Fetching("poll") => job.since <= time + 1 + Phase + 3
        BY <1>1, <1>2, WindowIsLong DEF Numeric, Fetching
      <4>3. entry.at # Absent => entry.at <= time + 1 + Phase + 4
        BY <1>2, <1>7, WindowIsLong DEF Numeric
      <4>4. next + cost <= time + 1 + Phase + calm + 6 /\ entry.next + cost <= time + 1 + Phase + calm + 6
        BY <1>2, <3>3, <3>4, WindowIsLong DEF Numeric
      <4> QED
        BY <1>1, <1>9, <3>1, <3>2, <3>3, <4>1, <4>2, <4>3, <4>4
    <3> QED
      BY <1>1, <3>5 DEF Wakening
  <2>2. CASE meter.stop # time + 1
    <3>1. stopped' = stopped /\ Alarm' = Alarm /\ ProfileBefore' = ProfileBefore
      <4>1. stopped' = stopped /\ Alarm' = Alarm
        BY <1>3, <1>5, <2>2 DEF Alarm
      <4> QED
        BY <1>1, <1>9, <4>1 DEF ProfileBefore
    <3>2. ~Running' => ~Running
      BY <1>1, <1>2, <1>5, <1>6, <2>2 DEF Running, Numeric
    <3> QED
      BY <1>1, <1>9, <3>1, <3>2 DEF Serene, Wakening
  <2> QED
    BY <2>1, <2>2
<1> QED
  BY <1>8, <1>10, <1>11 DEF Serene

LEMMA SereneStep ==
    ASSUME LongWindow, PollingTypeOK, PollingTypeOK', Bounds, Clocked, NeverForgotten', Quiet => Serene,
           [PollingNext]_pollVars
    PROVE  Quiet' => Serene'
<1> SUFFICES ASSUME Quiet' PROVE Serene'
  OBVIOUS
<1>1. Quiet /\ Serene /\ UNCHANGED upsets
  BY QuietWas
<1>2. upsets' # upsets + 1
  BY <1>1, NumbersAreNumeric DEF Numeric
<1>3. CASE LoadCache
  BY <1>1, <1>3, LoadIsSerene
<1>4. CASE Dispatch
  BY <1>1, <1>4, DispatchIsSerene
<1>5. CASE ProfileEnds
  BY <1>1, <1>5, ProfileEndsIsSerene
<1>6. CASE PollEnds
  BY <1>1, <1>6, PollEndsIsSerene
<1>7. CASE ChildEnds
  BY <1>1, <1>7, ChildEndsIsSerene
<1>8. CASE Clock
  BY <1>1, <1>8, ClockIsSerene
<1>9. CASE UNCHANGED pollVars
  <2>1. UNCHANGED <<time, mates, meter, entry, view, child, barred, stopped, job, profile, ticked>>
    BY <1>9 DEF pollVars
  <2>2. Rested'
    BY <1>1, <2>1, RestStays DEF Serene
  <2>3. /\ NextTick' = NextTick /\ ProfileFirst' = ProfileFirst /\ ProfileBefore' = ProfileBefore /\ Alarm' = Alarm
        /\ Fetching("poll")' <=> Fetching("poll")
        /\ Running' <=> Running
        /\ Due(view)' <=> Due(view)
    BY <1>9 DEF pollVars, NextTick, ProfileFirst, ProfileBefore, Alarm, Calm, Fetching, Running, Due, PollAt
  <2> QED
    BY <1>1, <2>1, <2>2, <2>3 DEF Serene, FirstLook, Wakening
<1> QED
  BY <1>1, <1>2, <1>3, <1>4, <1>5, <1>6, <1>7, <1>8, <1>9 DEF PollingNext, Over, Switch, StandDown, Spend, Upset, Quiet

\* While a stopped clock is not running again, it is not late for that.
LEMMA WakeningIsInTime ==
    ASSUME LongWindow, PollingTypeOK, Bounds, Quiet, Serene
    PROVE  StartsAgain
<1> SUFFICES ASSUME ~Running, stopped # Absent
             PROVE  time - stopped <= mates * Stretch(T.candidateMax) + Phase + 7
  BY DEF StartsAgain
<1>1. Numeric /\ stopped \in Nat /\ Alarm = stopped + Phase + Calm + 6
  BY NumbersAreNumeric, ClockIsNumeric DEF Alarm
<1>2. time <= Alarm + 1
  <2>1. CASE child # Absent
    BY <1>1, <2>1, WindowIsLong DEF Serene, Wakening, Bounds, Numeric
  <2>2. CASE child = Absent /\ Fetching("poll")
    <3>1. job.since <= stopped + Phase + 3 /\ time <= job.since + 1 /\ job.since \in Nat
      BY <1>1, <2>2 DEF Serene, Wakening, Bounds, Fetching, Numeric
    <3> QED
      BY <1>1, <3>1, WindowIsLong DEF Numeric
  <2>3. CASE child = Absent /\ ~Fetching("poll")
    <3>1. NextTick \in Nat /\ time <= NextTick
      BY <1>1, <2>3 DEF NextTick, Fetching, Bounds, Numeric
    <3>2. CASE entry.at = Absent
      <4>1. ProfileFirst \in {0, 2} /\ NextTick + ProfileFirst <= 2
        BY <2>3, <3>2 DEF Serene, FirstLook, ProfileFirst
      <4> QED
        BY <1>1, <3>1, <4>1, WindowIsLong DEF Numeric
    <3>3. CASE entry.at # Absent
      <4>1. ProfileBefore \in {0, 2} /\ NextTick + ProfileBefore <= Alarm
        BY <2>3, <3>3 DEF Serene, Wakening, ProfileBefore
      <4> QED
        BY <1>1, <3>1, <4>1, WindowIsLong DEF Numeric
    <3> QED
      BY <3>2, <3>3
  <2> QED
    BY <2>1, <2>2, <2>3
<1>3. Calm = mates * Stretch(T.candidateMax) /\ Calm \in Nat
  BY WindowIsLong DEF Calm
<1>4. time <= stopped + Phase + Calm + 7
  BY <1>1, <1>2, <1>3, WindowIsLong DEF Numeric
<1>5. time - stopped <= Calm + Phase + 7
  BY <1>1, <1>3, <1>4, WindowIsLong DEF Numeric
<1> QED
  BY <1>3, <1>5

\* The errand of the warm-ups: if the window is long beside the waits between two
\* looks, an idle account's stopped clock runs again within one such wait, the
\* phase and a few units, as long as nothing is out of the ordinary.  Readings
\* that do not know of the clock yet and rows written since cost no strike and
\* put no settle gap in the way.
THEOREM StoppedClocksStartAgain ==
    ASSUME LongWindow
    PROVE  PollingSpec => []StartsAgain
<1> DEFINE IInv == PollingTypeOK /\ Bounds /\ InTime /\ Judges /\ Clocked
           Whole == IInv /\ NeverForgotten /\ (Quiet => Serene)
<1>1. PollingInit => IInv
  <2>1. PollingInit => InTime /\ Judges
    BY DEF PollingInit, NoEntry, InTime, Judges
  <2> QED
    BY <2>1, InitIsTyped, InitIsBounded, InitIsClocked
<1>2. IInv /\ [PollingNext]_pollVars => IInv'
  BY TypesStep, BoundsStep, InTimeStep, ClockedStep
<1>3. PollingInit => (Quiet => Serene)
  BY InitIsSerene
<1>4. IInv /\ IInv' /\ NeverForgotten' /\ (Quiet => Serene) /\ [PollingNext]_pollVars => (Quiet => Serene)'
  BY SereneStep
<1>5. IInv /\ (Quiet => Serene) => StartsAgain
  BY WakeningIsInTime DEF StartsAgain, Quiet
<1>6. PollingSpec => []NeverForgotten
  BY NoAccountIsForgotten
<1> QED
  BY <1>1, <1>2, <1>3, <1>4, <1>5, <1>6, PTL DEF PollingSpec
=============================================================================
