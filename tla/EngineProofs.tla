---------------------------- MODULE EngineProofs ----------------------------
(***************************************************************************)
(* What the engine's choices are, for any accounts, thresholds and          *)
(* readings: its orders are orders, so that "the best" exists; a move is    *)
(* always ahead, so that the engine refines Hops; and what the choice says  *)
(* of quota and of money.                                                   *)
(***************************************************************************)
EXTENDS Engine, FiniteSetTheorems, WellFoundedInduction, TLAPS

-----------------------------------------------------------------------------
(* Choosing from a finite set *)

\* A strict order on a finite set has a minimal element in it.
LEMMA MinimalExists ==
    ASSUME NEW S, IsFiniteSet(S), S # {},
           NEW L,
           \A x, y, z \in S : <<x, y>> \in L /\ <<y, z>> \in L => <<x, z>> \in L,
           \A x \in S : <<x, x>> \notin L
    PROVE  \E x \in S : \A y \in S : <<y, x>> \notin L
<1> DEFINE Below(s) == {t \in S : <<t, s>> \in L}
           F == {Below(s) : s \in S}
<1>1. F \subseteq FiniteSubsetsOf(S) /\ F # {}
  <2>1. ASSUME NEW s \in S
        PROVE  Below(s) \in FiniteSubsetsOf(S)
    <3>1. Below(s) \in SUBSET S
      OBVIOUS
    <3>2. IsFiniteSet(Below(s))
      BY <3>1, FS_Subset
    <3> HIDE DEF Below
    <3> QED BY <3>1, <3>2 DEF FiniteSubsetsOf
  <2>2. F # {}
    <3>1. PICK s \in S : TRUE
      OBVIOUS
    <3>2. Below(s) \in F
      OBVIOUS
    <3> QED BY <3>2
  <2> HIDE DEF Below
  <2> QED BY <2>1, <2>2
<1>2. IsWellFoundedOn(StrictSubsetOrdering(S), FiniteSubsetsOf(S))
  BY FS_StrictSubsetOrderingWellFounded
<1>3. PICK X \in F : \A Y \in F : <<Y, X>> \notin StrictSubsetOrdering(S)
  <2> HIDE DEF F
  <2> QED BY <1>1, <1>2, WFMin
<1>4. PICK x \in S : X = Below(x)
  OBVIOUS
<1>5. ASSUME NEW y \in S, <<y, x>> \in L
      PROVE  FALSE
  <2>1. Below(y) \subseteq Below(x)
    BY <1>5
  <2>2. y \in Below(x) /\ y \notin Below(y)
    BY <1>5
  <2>3. Below(y) \in F
    OBVIOUS
  <2>4. <<Below(y), X>> \in StrictSubsetOrdering(S)
    BY <2>1, <2>2, <1>4 DEF StrictSubsetOrdering
  <2> QED BY <2>3, <2>4, <1>3
<1> QED BY <1>5
-----------------------------------------------------------------------------
(* The orders *)

\* What an order compares of an account.
Typed(r) ==
    /\ r.uuid \in Int
    /\ r.h.known \in BOOLEAN
    /\ r.h.slack \in Int /\ r.h.pct \in Int /\ r.h.min \in Int /\ r.h.room \in Int
    /\ r.lastPoint \in BOOLEAN /\ r.inside \in BOOLEAN
    /\ r.recovers \in Int \cup {None} /\ (r.inside => r.recovers \in Int)
    /\ r.weekly \in Int \cup {None}

\* An account of which it is also known what money it may spend.
Priced(r) == Typed(r) /\ Armed(r) \in BOOLEAN /\ (Armed(r) => CreditRoom(r.reading) \in Int)

\* A pool: its rows are typed and an account is in it once.
Pool(R) ==
    /\ IsFiniteSet(R) /\ \A r \in R : Typed(r)
    /\ \A r, s \in R : r.uuid = s.uuid => r = s

Modes == {"headroom", "recovery", "consume-first"}

LEMMA HeadroomOrder ==
    ASSUME NEW r, Typed(r), NEW s, Typed(s), NEW t, Typed(t)
    PROVE  /\ ~LessHeadroom(r, r)
           /\ LessHeadroom(r, s) /\ LessHeadroom(s, t) => LessHeadroom(r, t)
           /\ r.uuid # s.uuid => LessHeadroom(r, s) \/ LessHeadroom(s, r)
<1>1. HeadroomTier(r) \in 0..4 /\ HeadroomTier(s) \in 0..4 /\ HeadroomTier(t) \in 0..4
  BY DEF HeadroomTier
<1> QED BY <1>1 DEF LessHeadroom, Typed

LEMMA RecoveryOrder ==
    ASSUME NEW r, Typed(r), NEW s, Typed(s), NEW t, Typed(t)
    PROVE  /\ ~LessRecovery(r, r)
           /\ LessRecovery(r, s) /\ LessRecovery(s, t) => LessRecovery(r, t)
           /\ r.uuid # s.uuid => LessRecovery(r, s) \/ LessRecovery(s, r)
<1>1. EmptyTier(r) \in 0..1 /\ EmptyTier(s) \in 0..1 /\ EmptyTier(t) \in 0..1
  BY DEF EmptyTier
<1>2. None \notin Int
  BY RankingAssumption
<1> QED BY <1>1, <1>2 DEF LessRecovery, Typed, BackTier, Undated, Sooner

LEMMA ConsumeFirstOrder ==
    ASSUME NEW r, Typed(r), NEW s, Typed(s), NEW t, Typed(t)
    PROVE  /\ ~LessConsumeFirst(r, r)
           /\ LessConsumeFirst(r, s) /\ LessConsumeFirst(s, t) => LessConsumeFirst(r, t)
           /\ r.uuid # s.uuid => LessConsumeFirst(r, s) \/ LessConsumeFirst(s, r)
<1>1. None \notin Int
  BY RankingAssumption
<1> QED BY <1>1 DEF LessConsumeFirst, Typed, Undated, Sooner

LEMMA CreditOrder ==
    ASSUME NEW r, Priced(r), NEW s, Priced(s), NEW t, Priced(t)
    PROVE  /\ ~LessCredit(r, r)
           /\ LessCredit(r, s) /\ LessCredit(s, t) => LessCredit(r, t)
           /\ r.uuid # s.uuid => LessCredit(r, s) \/ LessCredit(s, r)
BY DEF LessCredit, Typed, Priced

LEMMA LessOrder ==
    ASSUME NEW mode \in Modes, NEW r, Typed(r), NEW s, Typed(s), NEW t, Typed(t)
    PROVE  /\ ~Less(mode, r, r)
           /\ Less(mode, r, s) /\ Less(mode, s, t) => Less(mode, r, t)
           /\ r.uuid # s.uuid => Less(mode, r, s) \/ Less(mode, s, r)
<1>1. CASE mode = "headroom"
  BY <1>1, HeadroomOrder DEF Less
<1>2. CASE mode = "recovery"
  BY <1>2, RecoveryOrder DEF Less
<1>3. CASE mode = "consume-first"
  BY <1>3, ConsumeFirstOrder DEF Less
<1> QED BY <1>1, <1>2, <1>3 DEF Modes

\* The best account of a pool exists, and is ahead of the others.
LEMMA BestIs ==
    ASSUME NEW mode \in Modes, NEW R, Pool(R), R # {}
    PROVE  /\ Best(mode, R) \in R
           /\ \A s \in R \ {Best(mode, R)} : Less(mode, Best(mode, R), s)
<1> DEFINE L == {p \in R \X R : Less(mode, p[1], p[2])}
<1>1. \A r, s \in R : <<r, s>> \in L <=> Less(mode, r, s)
  OBVIOUS
<1>2. \A x, y, z \in R : <<x, y>> \in L /\ <<y, z>> \in L => <<x, z>> \in L
  BY <1>1, LessOrder DEF Pool
<1>3. \A x \in R : <<x, x>> \notin L
  BY <1>1, LessOrder DEF Pool
<1>4. PICK x \in R : \A y \in R : <<y, x>> \notin L
  <2> HIDE DEF L
  <2> QED BY <1>2, <1>3, MinimalExists DEF Pool
<1>5. \A s \in R \ {x} : Less(mode, x, s)
  <2> TAKE s \in R \ {x}
  <2>1. s.uuid # x.uuid
    BY DEF Pool
  <2> QED BY <2>1, <1>1, <1>4, LessOrder DEF Pool
<1> QED BY <1>5 DEF Best

LEMMA BestCreditIs ==
    ASSUME NEW R, Pool(R), R # {}, \A r \in R : Priced(r)
    PROVE  /\ BestCredit(R) \in R
           /\ \A s \in R \ {BestCredit(R)} : LessCredit(BestCredit(R), s)
<1> DEFINE L == {p \in R \X R : LessCredit(p[1], p[2])}
<1>1. \A r, s \in R : <<r, s>> \in L <=> LessCredit(r, s)
  OBVIOUS
<1>2. \A x, y, z \in R : <<x, y>> \in L /\ <<y, z>> \in L => <<x, z>> \in L
  BY <1>1, CreditOrder
<1>3. \A x \in R : <<x, x>> \notin L
  BY <1>1, CreditOrder
<1>4. PICK x \in R : \A y \in R : <<y, x>> \notin L
  <2> HIDE DEF L
  <2> QED BY <1>2, <1>3, MinimalExists DEF Pool
<1>5. \A s \in R \ {x} : LessCredit(x, s)
  <2> TAKE s \in R \ {x}
  <2>1. s.uuid # x.uuid
    BY DEF Pool
  <2> QED BY <2>1, <1>1, <1>4, CreditOrder
<1> QED BY <1>5 DEF BestCredit
-----------------------------------------------------------------------------
(* What a reading says *)

LEMMA WindowsAreFinite ==
    /\ IsFiniteSet(Window)
    /\ \A w \in Window : Place[w] \in Int
    /\ \A v, w \in Window : Place[v] = Place[w] => v = w
<1>1. IsFiniteSet({}) /\ IsFiniteSet({"session"})
  BY FS_EmptySet, FS_Singleton
<1>2. IsFiniteSet({"session"} \cup {"weekly"})
  BY <1>1, FS_AddElement
<1>3. IsFiniteSet({"session"} \cup {"weekly"} \cup {"model"})
  BY <1>2, FS_AddElement
<1>4. Window = {"session"} \cup {"weekly"} \cup {"model"}
  BY DEF Window
<1> QED BY <1>3, <1>4 DEF Window, Place

\* Of several windows one has the least of any whole figure, ties by place.
LEMMA TightestWindow ==
    ASSUME NEW S \in SUBSET Window, S # {}, NEW f \in [S -> Int]
    PROVE  \E w \in S : \A v \in S : f[w] < f[v] \/ (f[w] = f[v] /\ Place[w] <= Place[v])
<1> DEFINE L == {p \in S \X S : f[p[1]] < f[p[2]] \/ (f[p[1]] = f[p[2]] /\ Place[p[1]] < Place[p[2]])}
<1>1. \A v, w \in S : <<v, w>> \in L <=> f[v] < f[w] \/ (f[v] = f[w] /\ Place[v] < Place[w])
  OBVIOUS
<1>2. \A w \in S : f[w] \in Int /\ Place[w] \in Int
  BY WindowsAreFinite
<1>3. IsFiniteSet(S)
  BY WindowsAreFinite, FS_Subset
<1> HIDE DEF L
<1>4. /\ \A x, y, z \in S : <<x, y>> \in L /\ <<y, z>> \in L => <<x, z>> \in L
      /\ \A x \in S : <<x, x>> \notin L
  BY <1>1, <1>2
<1>5. PICK w \in S : \A v \in S : <<v, w>> \notin L
  BY <1>3, <1>4, MinimalExists
<1>6. ASSUME NEW v \in S
      PROVE  f[w] < f[v] \/ (f[w] = f[v] /\ Place[w] <= Place[v])
  <2>1. ~(f[v] < f[w]) /\ ~(f[v] = f[w] /\ Place[v] < Place[w])
    BY <1>1, <1>5
  <2>2. f[v] \in Int /\ f[w] \in Int /\ Place[v] \in Int /\ Place[w] \in Int
    BY <1>2
  <2> QED BY <2>1, <2>2
<1> QED BY <1>6

\* Of a set of figures, one for each of several windows, one is the least.
LEMMA LeastIs ==
    ASSUME NEW S \in SUBSET Window, S # {}, NEW f \in [S -> Int]
    PROVE  LET n == Least({f[w] : w \in S})
           IN /\ n \in Int
              /\ \E w \in S : n = f[w]
              /\ \A w \in S : n <= f[w]
<1>1. PICK w \in S : \A v \in S : f[w] <= f[v]
  BY TightestWindow
<1>2. /\ f[w] \in {f[v] : v \in S}
      /\ \A m \in {f[v] : v \in S} : f[w] <= m
  BY <1>1
<1>3. Least({f[v] : v \in S}) \in {f[v] : v \in S}
  BY <1>2 DEF Least
<1>4. \A m \in {f[v] : v \in S} : Least({f[v] : v \in S}) <= m
  BY <1>2 DEF Least
<1> QED BY <1>3, <1>4

LEMMA PairChoices ==
    ASSUME NEW x \in Int, NEW y \in Int
    PROVE  /\ Least({x, y}) \in {x, y} /\ Least({x, y}) <= x /\ Least({x, y}) <= y
           /\ Greatest({x, y}) \in {x, y}
<1>1. \E n \in {x, y} : \A m \in {x, y} : n <= m
  OBVIOUS
<1>2. \E n \in {x, y} : \A m \in {x, y} : n >= m
  OBVIOUS
<1> QED BY <1>1, <1>2 DEF Least, Greatest

\* A reading has whole figures in the windows that bind.
LEMMA ReadingFigures ==
    ASSUME NEW r \in Reading \cup {None}, NEW thr, thr \in [Window -> Int]
    PROVE  /\ Readable(r) \subseteq Window
           /\ r = None => Readable(r) = {}
           /\ \A w \in Readable(r) : /\ r.util[w] \in 0..100 /\ Room(r, w) \in 0..100
                                     /\ Slack(r, w, thr) \in Int
           /\ r # None => \A w \in Window : r.reset[w] \in Int \cup {None}
<1>1. Readable(r) \subseteq Window /\ (r = None => Readable(r) = {})
  BY RankingAssumption DEF Readable
<1>2. ASSUME NEW w \in Readable(r)
      PROVE  r.util[w] \in 0..100
  <2>1. r # None /\ r.util[w] # None
    BY DEF Readable
  <2> QED BY <1>1, <2>1 DEF Reading
<1>3. \A w \in Readable(r) : Room(r, w) \in 0..100 /\ Slack(r, w, thr) \in Int
  BY <1>1, <1>2 DEF Room, Slack
<1>4. r # None => \A w \in Window : r.reset[w] \in Int \cup {None}
  BY DEF Reading
<1> QED BY <1>1, <1>2, <1>3, <1>4

\* The window that decides exists and is one of those read.
LEMMA TightestIs ==
    ASSUME NEW r \in Reading, NEW thr \in [Window -> Int],
           NEW S \in SUBSET Readable(r), S # {}
    PROVE  Tightest(S, r, thr) \in S
<1> DEFINE f == [w \in S |-> Slack(r, w, thr)]
<1>1. S \in SUBSET Window /\ f \in [S -> Int]
  BY ReadingFigures
<1>2. \E w \in S : \A v \in S : f[w] < f[v] \/ (f[w] = f[v] /\ Place[w] <= Place[v])
  <2> HIDE DEF f
  <2> QED BY <1>1, TightestWindow
<1>3. \E w \in S : \A v \in S :
          \/ Slack(r, w, thr) < Slack(r, v, thr)
          \/ Slack(r, w, thr) = Slack(r, v, thr) /\ Place[w] <= Place[v]
  BY <1>2
<1> QED BY <1>3 DEF Tightest

LEMMA OrderingIs ==
    ASSUME NEW r, Readable(r) # {}
    PROVE  Ordering(r) # {} /\ Ordering(r) \subseteq Readable(r)
BY DEF Ordering

LEMMA ClearsIs ==
    ASSUME NEW r \in Reading, NEW thr \in [Window -> Int], Readable(r) # {}
    PROVE  Clears(r, thr) \in Readable(r)
<1> DEFINE f == Floors(r, thr)
<1>1. f \subseteq Readable(r) /\ FullOf(f, r) \subseteq Readable(r)
  BY DEF Floors, FullOf
<1>2. CASE f = {}
  BY <1>2, OrderingIs, TightestIs DEF Clears
<1>3. CASE f # {}
  <2> DEFINE g == IF FullOf(f, r) = {} THEN f ELSE FullOf(f, r)
  <2>1. g # {} /\ g \in SUBSET Readable(r)
    BY <1>1, <1>3
  <2>2. Tightest(g, r, thr) \in g
    <3> HIDE DEF g
    <3> QED BY <2>1, TightestIs
  <2> QED BY <2>1, <2>2, <1>3 DEF Clears
<1> QED BY <1>2, <1>3

\* What HeadroomFor says of an account whose reading binds.
LEMMA HeadroomIs ==
    ASSUME NEW r \in Reading, NEW thr \in [Window -> Int], Readable(r) # {}
    PROVE  LET h == HeadroomFor(r, thr)
           IN /\ h.known = TRUE
              /\ h.slack \in Int /\ h.pct \in Int /\ h.min \in Int /\ h.room \in Int
              /\ \E w \in Readable(r) : h.slack = Slack(r, w, thr)
              /\ \E w \in Readable(r) : h.min = Room(r, w)
              /\ h.min <= h.room
              /\ h.clears \in Readable(r)
<1> DEFINE all == Readable(r)
           any == all \ CapsModel
           S == IF any = {} THEN all ELSE any
           f == [w \in all |-> Room(r, w)]
           g == [w \in S |-> Room(r, w)]
           bind == Tightest(Ordering(r), r, thr)
           h == HeadroomFor(r, thr)
<1>1. all \in SUBSET Window /\ S \in SUBSET Window /\ S \subseteq all /\ S # {} /\ all # {}
  BY ReadingFigures
<1>2. f \in [all -> Int] /\ g \in [S -> Int]
  BY <1>1, ReadingFigures
<1>3. bind \in all
  BY OrderingIs, TightestIs
<1>4. /\ h.known = TRUE
      /\ h.slack = Slack(r, bind, thr) /\ h.pct = Room(r, bind)
      /\ h.min = Least({Room(r, w) : w \in all}) /\ h.room = Least({Room(r, w) : w \in S})
      /\ h.clears = Clears(r, thr)
  BY DEF HeadroomFor
<1>5. {Room(r, w) : w \in all} = {f[w] : w \in all} /\ {Room(r, w) : w \in S} = {g[w] : w \in S}
  BY <1>1
<1>6. /\ h.min \in Int /\ \E w \in all : h.min = f[w]
      /\ \A w \in all : h.min <= f[w]
  <2> DEFINE n == Least({f[w] : w \in all})
  <2> HIDE DEF f
  <2>1. n \in Int /\ (\E w \in all : n = f[w]) /\ \A w \in all : n <= f[w]
    BY <1>1, <1>2, LeastIs
  <2>2. h.min = n
    BY <1>4, <1>5
  <2> QED BY <2>1, <2>2
<1>7. h.room \in Int /\ \E w \in S : h.room = g[w]
  <2> HIDE DEF f, h, S, g
  <2> QED BY <1>1, <1>2, <1>4, <1>5, LeastIs
<1>8. h.min <= h.room
  BY <1>1, <1>6, <1>7
<1>9. \E w \in all : h.min = Room(r, w)
  BY <1>6
<1>10. h.slack \in Int /\ h.pct \in Int
  BY <1>3, <1>4, ReadingFigures
<1>11. \E w \in all : h.slack = Slack(r, w, thr)
  BY <1>3, <1>4
<1>12. h.clears \in all
  BY <1>4, ClearsIs
<1> QED BY <1>4, <1>6, <1>7, <1>8, <1>9, <1>10, <1>11, <1>12
-----------------------------------------------------------------------------
(* A pass and its rows *)

\* A pass over readings the accounts may have.
PassOK(o) ==
    /\ o.strategy \in Strategy
    /\ DOMAIN o.rd = Acct /\ \A a \in Acct : o.rd[a] \in Reading \cup {None}
    /\ o.pool \subseteq Acct

LEMMA ExpectedIs ==
    ASSUME NEW r, NEW w, r.reset[w] \in Int
    PROVE  Elapsed(r, w) \in Int /\ Expected(r, w) \in Int
<1>1. CASE w = "session"
  BY <1>1 DEF Elapsed, Expected, Length
<1>2. CASE w # "session"
  BY <1>2 DEF Elapsed, Expected, Length
<1> QED BY <1>1, <1>2

LEMMA UsableIs ==
    ASSUME NEW o, PassOK(o)
    PROVE  Usable(o) \in Nat /\ PoolShare(o) \in Int
<1>1. IsFiniteSet(o.pool)
  BY RankingAssumption, FS_Subset DEF PassOK
<1>2. IsFiniteSet(Read(o, o.pool))
  BY <1>1, FS_Subset DEF Read
<1>3. Usable(o) \in Nat
  BY <1>2, FS_CardinalityType DEF Usable
<1>4. (IF Usable(o) < 1 THEN 1 ELSE Usable(o)) \in Nat \ {0}
  BY <1>3
<1> QED BY <1>3, <1>4 DEF PoolShare

LEMMA StrandedIs ==
    ASSUME NEW o, PassOK(o), NEW r \in Reading \cup {None}
    PROVE  Stranded(o, r) \in Int
<1> DEFINE dated == {w \in Readable(r) \cap Weekly : r.reset[w] # None}
           S == IF dated \ CapsModel = {} THEN dated ELSE dated \ CapsModel
           w == CHOOSE v \in S : \A u \in S : r.reset[v] <= r.reset[u]
           more == Room(r, w) - Usable(o) * (100 - Expected(r, w))
           spare == \/ S = {} \/ ~Started(r, w) \/ r.reset[w] <= 0
                    \/ Expected(r, w) >= 100 \/ more < 0 \/ ~Absorbs(o, r)
<1>1. Stranded(o, r) = IF spare THEN 0 ELSE more
  BY DEF Stranded
<1>2. CASE S = {}
  BY <1>1, <1>2
<1>3. CASE S # {}
  <2>1. S \subseteq Readable(r) /\ \A v \in S : r.reset[v] # None
    OBVIOUS
  <2>2. r \in Reading
    BY <1>3, <2>1 DEF Readable
  <2>3. S \in SUBSET Window /\ \A v \in S : r.reset[v] \in Int /\ Room(r, v) \in Int
    <3>1. Threshold \in [Window -> Int]
      BY RankingAssumption
    <3>2. r # None
      BY <1>3, <2>1 DEF Readable
    <3> HIDE DEF S
    <3> QED BY <2>1, <2>2, <3>1, <3>2, ReadingFigures
  <2>4. w \in S
    <3> DEFINE f == [v \in S |-> r.reset[v]]
    <3>1. f \in [S -> Int]
      BY <2>3
    <3>2. \E v \in S : \A u \in S : f[v] < f[u] \/ (f[v] = f[u] /\ Place[v] <= Place[u])
      <4> HIDE DEF f, S
      <4> QED BY <1>3, <2>3, <3>1, TightestWindow
    <3>3. \E v \in S : \A u \in S : r.reset[v] <= r.reset[u]
      <4> HIDE DEF S
      <4> QED BY <3>2, <2>3
    <3> HIDE DEF S
    <3> QED BY <3>3
  <2>5. Room(r, w) \in Int /\ Expected(r, w) \in Int
    <3> HIDE DEF w, S
    <3> QED BY <2>3, <2>4, ExpectedIs
  <2>6. more \in Int
    <3> HIDE DEF w
    <3> QED BY <2>5, UsableIs
  <2> HIDE DEF more, spare
  <2> QED BY <1>1, <2>6
<1> QED BY <1>2, <1>3

\* Whatever table a pass judges an account by, it is a whole figure per window.
LEMMA ThresholdsAreWhole ==
    ASSUME NEW o, PassOK(o), NEW a \in Acct
    PROVE  ThresholdsFor(o, a) \in [Window -> Int]
<1> DEFINE r == o.rd[a]
<1>1. r \in Reading \cup {None}
  BY DEF PassOK
<1>2. HoverShare(o, r) \in Int
  <2>1. PoolShare(o) \in Int /\ Stranded(o, r) \in Int
    BY <1>1, UsableIs, StrandedIs
  <2> QED BY <2>1, PairChoices DEF HoverShare
<1>3. ASSUME NEW w \in Window
      PROVE  (IF r = None THEN 50 ELSE HoverElapsed(r, w)) \in Int
  <2>1. CASE r = None
    BY <2>1
  <2>2. CASE r # None
    <3>1. r.reset[w] \in Int \cup {None}
      BY <1>1, <2>2 DEF Reading
    <3>2. CASE r.reset[w] = None
      BY <2>2, <3>2 DEF HoverElapsed, Started
    <3>3. CASE r.reset[w] \in Int
      BY <2>2, <3>3, ExpectedIs DEF HoverElapsed
    <3> QED BY <3>1, <3>2, <3>3
  <2> QED BY <2>1, <2>2
<1>4. HoverThresholds(o, a) \in [Window -> Int]
  BY <1>2, <1>3 DEF HoverThresholds
<1>5. Threshold \in [Window -> Int]
  BY RankingAssumption
<1> QED BY <1>4, <1>5 DEF ThresholdsFor

LEMMA WeeklyResetIs ==
    ASSUME NEW r \in Reading \cup {None}
    PROVE  WeeklyReset(r) \in Int \cup {None}
<1> DEFINE S == {w \in Binding \cap Weekly : r.reset[w] # None}
           f == [w \in S |-> r.reset[w]]
           at == {r.reset[w] : w \in Binding \cap Weekly} \ {None}
<1>1. CASE r = None \/ at = {}
  BY <1>1 DEF WeeklyReset
<1>2. CASE ~(r = None \/ at = {})
  <2>1. S \in SUBSET Window /\ S # {}
    BY <1>2, RankingAssumption
  <2>2. f \in [S -> Int]
    <3>1. r \in Reading
      BY <1>2
    <3> QED BY <2>1, <3>1 DEF Reading
  <2>3. at = {f[w] : w \in S}
    OBVIOUS
  <2>4. Least(at) \in Int
    <3> HIDE DEF f, S, at
    <3> QED BY <2>1, <2>2, <2>3, LeastIs
  <2> QED BY <1>2, <2>4 DEF WeeklyReset
<1> QED BY <1>1, <1>2

\* The headroom of an account has whole figures, and its tightest window of all
\* has no more room than the tightest of those that decide.
LEMMA HeadroomTyped ==
    ASSUME NEW o, PassOK(o), NEW a \in Acct
    PROVE  LET h == Headroom(o, a)
           IN /\ h.known \in BOOLEAN
              /\ h.slack \in Int /\ h.pct \in Int /\ h.min \in Int /\ h.room \in Int
              /\ h.known => o.rd[a] \in Reading
              /\ h.clears = None \/ h.clears \in Readable(o.rd[a])
              /\ h.known => h.min <= h.room
              /\ h = Unread \/ h.known
<1> DEFINE r == o.rd[a]
<1>1. r \in Reading \cup {None}
  BY DEF PassOK
<1>2. CASE Kind[a] = "primary"
  <2> DEFINE thr == IF Hovers(o) THEN 95 ELSE CreditThreshold
  <2>1. Headroom(o, a) = CreditHeadroom(r, thr)
    BY <1>2 DEF Headroom
  <2>2. thr \in Int
    BY RankingAssumption
  <2>3. CASE r = None \/ r.extra.pct = None
    BY <2>1, <2>3 DEF CreditHeadroom, Unread
  <2>4. CASE ~(r = None \/ r.extra.pct = None)
    <3>1. r \in Reading /\ r.extra.pct \in Int
      BY <1>1, <2>4 DEF Reading, Extra
    <3>2. Headroom(o, a) =
              [known |-> TRUE, slack |-> thr - r.extra.pct, pct |-> 100 - r.extra.pct,
               min |-> 100 - r.extra.pct, room |-> 100 - r.extra.pct,
               tight |-> None, clears |-> None]
      BY <2>1, <2>4 DEF CreditHeadroom
    <3>3. thr - r.extra.pct \in Int /\ 100 - r.extra.pct \in Int
      BY <2>2, <3>1
    <3>4. 100 - r.extra.pct <= 100 - r.extra.pct
      BY <3>3
    <3> HIDE DEF thr
    <3> QED BY <3>1, <3>2, <3>3, <3>4
  <2> QED BY <2>3, <2>4
<1>3. CASE Kind[a] # "primary"
  <2> DEFINE thr == ThresholdsFor(o, a)
  <2>1. Headroom(o, a) = HeadroomFor(r, thr)
    BY <1>3 DEF Headroom
  <2>2. thr \in [Window -> Int]
    BY ThresholdsAreWhole
  <2>3. CASE Readable(r) = {}
    BY <2>1, <2>3 DEF HeadroomFor, Unread
  <2>4. CASE Readable(r) # {}
    <3>1. r \in Reading
      BY <1>1, <2>4 DEF Readable
    <3> HIDE DEF thr
    <3> QED BY <2>1, <2>2, <2>4, <3>1, HeadroomIs
  <2> QED BY <2>3, <2>4
<1> QED BY <1>2, <1>3

LEMMA MeasureIs ==
    ASSUME NEW o, PassOK(o), NEW a \in Acct
    PROVE  /\ Measure(o, a).uuid = a
           /\ Measure(o, a).reading = o.rd[a]
           /\ Measure(o, a).h = Headroom(o, a)
           /\ Typed(Measure(o, a)) /\ Priced(Measure(o, a))
<1> DEFINE r == o.rd[a]
           h == Headroom(o, a)
           back == IF h.clears = None THEN None ELSE r.reset[h.clears]
           m == Measure(o, a)
<1>1. r \in Reading \cup {None}
  BY DEF PassOK
<1>2. /\ m.uuid = a /\ m.reading = r /\ m.h = h
      /\ m.recovers = back /\ m.inside = (back # None /\ back <= Horizon)
      /\ m.weekly = WeeklyReset(r)
      /\ m.lastPoint = (Hovers(o) /\ h.known /\ h.tight \in Weekly /\ h.room <= 1)
  BY DEF Measure, Row
<1>3. back \in Int \cup {None}
  <2>1. CASE h.clears = None
    BY <2>1
  <2>2. CASE h.clears # None
    <3>1. h.clears \in Readable(r)
      BY <2>2, HeadroomTyped
    <3>2. r \in Reading /\ h.clears \in Window
      BY <1>1, <3>1, RankingAssumption DEF Readable
    <3>3. r.reset[h.clears] \in Int \cup {None}
      BY <3>2 DEF Reading
    <3> QED BY <2>2, <3>3
  <2> QED BY <2>1, <2>2
<1>4. a \in Int
  BY RankingAssumption
<1>5. Typed(m)
  <2>1. /\ h.known \in BOOLEAN
        /\ h.slack \in Int /\ h.pct \in Int /\ h.min \in Int /\ h.room \in Int
    BY HeadroomTyped
  <2>2. WeeklyReset(r) \in Int \cup {None}
    BY <1>1, WeeklyResetIs
  <2> HIDE DEF m, h, back
  <2> QED BY <1>2, <1>3, <1>4, <2>1, <2>2 DEF Typed
<1>6. Armed(m) \in BOOLEAN /\ (Armed(m) => CreditRoom(m.reading) \in Int)
  <2>1. Armed(m) = CreditGate(r)
    BY <1>2 DEF Armed
  <2>2. ASSUME CreditGate(r)
        PROVE  CreditRoom(r) \in Int
    <3>1. r \in Reading /\ r.extra.used # None
      BY <1>1, <2>2 DEF CreditGate
    <3>2. r.extra.used \in Int /\ r.extra.limit \in Int \cup {None}
      BY <3>1 DEF Reading, Extra
    <3>3. (IF r.extra.limit = None THEN Ceiling ELSE Least({r.extra.limit, Ceiling})) \in Int
      <4>1. Ceiling \in Int
        BY RankingAssumption
      <4>2. CASE r.extra.limit = None
        BY <4>1, <4>2
      <4>3. CASE r.extra.limit # None
        <5>1. r.extra.limit \in Int
          BY <3>2, <4>3
        <5>2. Least({r.extra.limit, Ceiling}) \in {r.extra.limit, Ceiling}
          BY <4>1, <5>1, PairChoices
        <5> QED BY <4>1, <4>3, <5>1, <5>2
      <4> QED BY <4>2, <4>3
    <3> QED BY <3>2, <3>3 DEF CreditRoom
  <2> QED BY <1>2, <2>1, <2>2 DEF CreditGate
<1> QED BY <1>2, <1>5, <1>6 DEF Priced

-----------------------------------------------------------------------------
(* The pools, and where a pass would move to *)

InMain(o, a) == a \in o.pool /\ Kind[a] # "credit"
InLast(o, a) == a \in o.pool /\ Kind[a] = "credit"

LEMMA RowsAre ==
    ASSUME NEW o, PassOK(o), NEW A \in SUBSET o.pool
    PROVE  LET R == {Measure(o, a) : a \in A}
           IN /\ Pool(R) /\ \A r \in R : Priced(r)
              /\ \A r \in R : r.uuid \in A /\ r = Measure(o, r.uuid)
<1> DEFINE R == {Measure(o, a) : a \in A}
           f == [a \in A |-> Measure(o, a)]
<1>1. A \subseteq Acct
  BY DEF PassOK
<1>2. \A a \in A : /\ Measure(o, a).uuid = a
                   /\ Typed(Measure(o, a)) /\ Priced(Measure(o, a))
  BY <1>1, MeasureIs
<1>3. IsFiniteSet(R)
  <2>1. f \in Surjection(A, R)
    BY DEF Surjection
  <2>2. IsFiniteSet(A)
    BY <1>1, RankingAssumption, FS_Subset
  <2> HIDE DEF f, R
  <2> QED BY <2>1, <2>2, FS_Surjection
<1>4. \A r \in R : r.uuid \in A /\ r = Measure(o, r.uuid) /\ Typed(r) /\ Priced(r)
  BY <1>2
<1>5. \A r, s \in R : r.uuid = s.uuid => r = s
  BY <1>4
<1> HIDE DEF R
<1>6. Pool(R)
  BY <1>3, <1>4, <1>5 DEF Pool
<1> USE DEF R
<1> QED BY <1>4, <1>6

LEMMA PoolsAre ==
    ASSUME NEW o, PassOK(o)
    PROVE  /\ Pool(Order(o)) /\ Pool(Credit(o))
           /\ \A r \in Order(o) : InMain(o, r.uuid) /\ r = Measure(o, r.uuid)
           /\ \A r \in Credit(o) : InLast(o, r.uuid) /\ r = Measure(o, r.uuid) /\ Priced(r)
           /\ \A a : InMain(o, a) => Measure(o, a) \in Order(o)
           /\ \A a : InLast(o, a) => Measure(o, a) \in Credit(o)
<1> DEFINE M == {b \in o.pool : Kind[b] # "credit"}
           L == {b \in o.pool : Kind[b] = "credit"}
<1>1. M \in SUBSET o.pool /\ L \in SUBSET o.pool
  OBVIOUS
<1>2. Order(o) = {Measure(o, a) : a \in M} /\ Credit(o) = {Measure(o, a) : a \in L}
  BY DEF Order, Credit
<1>3. /\ Pool(Order(o))
      /\ \A r \in Order(o) : r.uuid \in M /\ r = Measure(o, r.uuid)
  <2> HIDE DEF M
  <2> QED BY <1>1, <1>2, RowsAre
<1>4. /\ Pool(Credit(o))
      /\ \A r \in Credit(o) : r.uuid \in L /\ r = Measure(o, r.uuid) /\ Priced(r)
  <2> HIDE DEF L
  <2> QED BY <1>1, <1>2, RowsAre
<1> QED BY <1>2, <1>3, <1>4 DEF InMain, InLast

LEMMA FindIs ==
    ASSUME NEW o, PassOK(o), NEW a \in o.pool
    PROVE  Find(Order(o) \cup Credit(o), a) = Measure(o, a)
<1>1. Measure(o, a) \in Order(o) \cup Credit(o)
  BY PoolsAre DEF InMain, InLast
<1>2. Measure(o, a).uuid = a
  BY MeasureIs DEF PassOK
<1>3. \A r \in Order(o) \cup Credit(o) : r.uuid = a => r = Measure(o, a)
  BY PoolsAre
<1> QED BY <1>1, <1>2, <1>3 DEF Find

LEMMA ModeIs ==
    ASSUME NEW o, NEW R
    PROVE  Mode(o, R) \in Modes
BY DEF Mode, Modes

LEMMA SubPool ==
    ASSUME NEW R, Pool(R), NEW T \in SUBSET R
    PROVE  Pool(T)
BY FS_Subset DEF Pool

LEMMA PreemptTargetIs ==
    ASSUME NEW o, NEW R, Pool(R), NEW here, Preempts(o, R, here)
    PROVE  PreemptTarget(o, R, here) \in Preemptable(o, R, here)
<1> DEFINE S == Preemptable(o, R, here)
           calm == {r \in S : ~r.reading.limited}
           T == IF calm = {} THEN S ELSE calm
<1>1. S # {} /\ S \in SUBSET R
  BY DEF Preempts, Preemptable
<1>2. T # {} /\ T \in SUBSET S /\ T \in SUBSET R
  BY <1>1
<1>3. Pool(T)
  BY <1>2, SubPool
<1>4. Best(Mode(o, R), T) \in T
  <2> HIDE DEF T
  <2> QED BY <1>2, <1>3, ModeIs, BestIs
<1> QED BY <1>2, <1>4 DEF PreemptTarget

\* The last resort that would be bought from.
Paid(o) == {r \in Credit(o) : Armed(r)}

LEMMA PaidIs ==
    ASSUME NEW o, PassOK(o), Paid(o) # {}
    PROVE  BestCredit(Paid(o)) \in Credit(o) /\ InLast(o, BestCredit(Paid(o)).uuid)
<1>1. Paid(o) \in SUBSET Credit(o)
  BY DEF Paid
<1>2. Pool(Paid(o)) /\ \A r \in Paid(o) : Priced(r)
  BY <1>1, PoolsAre, SubPool
<1>3. BestCredit(Paid(o)) \in Paid(o)
  BY <1>2, BestCreditIs
<1> QED BY <1>1, <1>3, PoolsAre

-----------------------------------------------------------------------------
(* A move is ahead *)

\* b is ahead of a: by the order of the main pool, or by which of the two pools
\* the pass prefers.
Precedes(o, b, a) ==
    \/ /\ InMain(o, b) /\ InMain(o, a)
       /\ Less(Mode(o, Order(o)), Measure(o, b), Measure(o, a))
    \/ InMain(o, b) /\ InLast(o, a) /\ ~MainPoolExhausted(o)
    \/ InLast(o, b) /\ InMain(o, a) /\ MainPoolExhausted(o)
    \/ /\ InLast(o, b) /\ InLast(o, a) /\ Order(o) = {}
       /\ b = BestCredit(Paid(o)).uuid /\ b # a

LEMMA PrecedesIsStrict ==
    ASSUME NEW o, PassOK(o), NEW a, NEW b, NEW c
    PROVE  /\ ~Precedes(o, a, a)
           /\ Precedes(o, c, b) /\ Precedes(o, b, a) => Precedes(o, c, a)
<1> DEFINE mode == Mode(o, Order(o))
<1>1. mode \in Modes
  BY ModeIs
<1>2. \A x : InMain(o, x) => Typed(Measure(o, x)) /\ Order(o) # {} /\ ~InLast(o, x)
  BY PoolsAre, MeasureIs DEF InMain, InLast, PassOK
<1>3. ~Precedes(o, a, a)
  BY <1>1, <1>2, LessOrder DEF Precedes
<1>4. ASSUME Precedes(o, c, b), Precedes(o, b, a)
      PROVE  Precedes(o, c, a)
  <2>1. CASE InMain(o, c) /\ InMain(o, b) /\ InMain(o, a)
    <3>1. Less(mode, Measure(o, c), Measure(o, b)) /\ Less(mode, Measure(o, b), Measure(o, a))
      BY <1>2, <1>4, <2>1 DEF Precedes
    <3>2. Less(mode, Measure(o, c), Measure(o, a))
      BY <1>1, <1>2, <2>1, <3>1, LessOrder
    <3> QED BY <2>1, <3>2 DEF Precedes
  <2>2. CASE ~(InMain(o, c) /\ InMain(o, b) /\ InMain(o, a))
    BY <1>2, <1>4, <2>2 DEF Precedes
  <2> QED BY <2>1, <2>2
<1> QED BY <1>3, <1>4

\* The only three ways to move.
LEMMA WaysToMove ==
    ASSUME NEW o, PassOK(o), NEW at, NEW t \in Wanted(o, at)
    PROVE  LET R == Order(o)
               here == Find(R \cup Credit(o), at)
               gone == MainPoolExhausted(o)
               paying == at \in o.pool /\ here \in Credit(o)
           IN \/ /\ at \in o.pool /\ Preempts(o, R, here)
                 /\ \E r \in Preemptable(o, R, here) : t = r.uuid
              \/ /\ R # {} /\ ~(paying /\ gone)
                 /\ t = Best(Mode(o, R), R).uuid /\ t # at
                 /\ ~(at \in o.pool /\ Preempts(o, R, here))
                 /\ at \in o.pool => Gate(o, Mode(o, R), here, Best(Mode(o, R), R))
              \/ /\ Paid(o) # {} /\ t = BestCredit(Paid(o)).uuid
                 /\ R = {} \/ (gone /\ ~paying)
                 /\ R = {} \/ Best(Mode(o, R), R).uuid = at
<1> DEFINE R == Order(o)
           C == Credit(o)
           gone == MainPoolExhausted(o)
           here == Find(R \cup C, at)
           paying == at \in o.pool /\ here \in C
           best == Best(Mode(o, R), R)
           first == at \in o.pool /\ Preempts(o, R, here)
           second == R # {} /\ ~(paying /\ gone) /\ best.uuid # at
           third == Paid(o) # {} /\ (R = {} \/ (gone /\ ~paying))
<1>1. t \in (IF first THEN {PreemptTarget(o, R, here).uuid}
             ELSE IF second
                  THEN IF at \notin o.pool \/ Gate(o, Mode(o, R), here, best) THEN {best.uuid} ELSE {}
             ELSE IF third THEN {BestCredit(Paid(o)).uuid}
             ELSE {})
  BY DEF Wanted, Moves, Paid
<1>2. CASE first
  <2>1. t = PreemptTarget(o, R, here).uuid
    BY <1>1, <1>2
  <2>2. PreemptTarget(o, R, here) \in Preemptable(o, R, here)
    BY <1>2, PoolsAre, PreemptTargetIs
  <2> QED BY <1>2, <2>1, <2>2
<1>3. CASE ~first /\ second
  <2>1. t = best.uuid /\ (at \notin o.pool \/ Gate(o, Mode(o, R), here, best))
    BY <1>1, <1>3
  <2> QED BY <1>3, <2>1
<1>4. CASE ~first /\ ~second /\ third
  <2>1. t = BestCredit(Paid(o)).uuid
    BY <1>1, <1>4
  <2> QED BY <1>4, <2>1
<1> QED BY <1>1, <1>2, <1>3, <1>4

\* Every move lands in the pool.
LEMMA MovesLandInPool ==
    ASSUME NEW o, PassOK(o), NEW at, NEW t \in Wanted(o, at)
    PROVE  t \in o.pool
<1>1. \A r \in Order(o) : r.uuid \in o.pool
  BY PoolsAre DEF InMain
<1>2. Order(o) # {} => Best(Mode(o, Order(o)), Order(o)) \in Order(o)
  BY ModeIs, PoolsAre, BestIs
<1>3. Paid(o) # {} => BestCredit(Paid(o)).uuid \in o.pool
  BY PaidIs DEF InLast
<1>4. \A x : Preemptable(o, Order(o), x) \subseteq Order(o)
  BY DEF Preemptable
<1>5. \/ \E r \in Order(o) : t = r.uuid
      \/ Order(o) # {} /\ t = Best(Mode(o, Order(o)), Order(o)).uuid
      \/ Paid(o) # {} /\ t = BestCredit(Paid(o)).uuid
  BY <1>4, WaysToMove
<1> QED BY <1>1, <1>2, <1>3, <1>5

\* And it lands ahead of where it starts, if that is in the pool too.
LEMMA MovesPrecede ==
    ASSUME NEW o, PassOK(o), NEW at \in o.pool, NEW t \in Wanted(o, at), t # at,
           InLast(o, at) /\ MainPoolExhausted(o) => ~Preempts(o, Order(o), Measure(o, at))
    PROVE  Precedes(o, t, at)
<1> DEFINE R == Order(o)
           C == Credit(o)
           mode == Mode(o, R)
           gone == MainPoolExhausted(o)
           here == Measure(o, at)
           paying == here \in C
           best == Best(mode, R)
<1>1. Find(R \cup C, at) = here
  BY FindIs
<1>2. mode \in Modes /\ Pool(R) /\ here.uuid = at
  BY ModeIs, PoolsAre, MeasureIs DEF PassOK
<1>3. /\ InMain(o, at) => here \in R /\ here \notin C
      /\ InLast(o, at) => here \in C /\ here \notin R
      /\ InMain(o, at) \/ InLast(o, at)
  BY <1>2, PoolsAre DEF InMain, InLast
<1>4. \A r \in R : InMain(o, r.uuid) /\ r = Measure(o, r.uuid)
  BY PoolsAre
<1>5. CASE Preempts(o, R, here) /\ \E r \in Preemptable(o, R, here) : t = r.uuid
  <2>1. CASE InMain(o, at)
    <3>1. PICK r \in R : t = r.uuid /\ Less(mode, r, here)
      BY <1>3, <1>5, <2>1 DEF Preemptable
    <3> QED BY <1>4, <2>1, <3>1 DEF Precedes
  <2>2. CASE InLast(o, at)
    <3>1. ~gone /\ InMain(o, t)
      BY <1>4, <1>5, <2>2 DEF Preemptable
    <3> QED BY <2>2, <3>1 DEF Precedes
  <2> QED BY <1>3, <2>1, <2>2
<1>6. CASE R # {} /\ ~(paying /\ gone) /\ t = best.uuid
  <2>1. best \in R /\ \A s \in R \ {best} : Less(mode, best, s)
    BY <1>2, <1>6, BestIs
  <2>2. CASE InMain(o, at)
    <3>1. here # best
      BY <1>2, <1>6
    <3>2. Less(mode, best, here)
      BY <1>3, <2>1, <2>2, <3>1
    <3> QED BY <1>4, <1>6, <2>1, <2>2, <3>2 DEF Precedes
  <2>3. CASE InLast(o, at)
    BY <1>3, <1>4, <1>6, <2>1, <2>3 DEF Precedes
  <2> QED BY <1>3, <2>2, <2>3
<1>7. CASE Paid(o) # {} /\ t = BestCredit(Paid(o)).uuid /\ (R = {} \/ (gone /\ ~paying))
  <2>1. InLast(o, t)
    BY <1>7, PaidIs
  <2>2. CASE InMain(o, at)
    BY <1>3, <1>7, <2>1, <2>2 DEF Precedes
  <2>3. CASE InLast(o, at)
    BY <1>3, <1>7, <2>1, <2>3 DEF Precedes
  <2> QED BY <1>3, <2>2, <2>3
<1> HIDE DEF R, C, mode, gone, here, paying, best
<1> QED BY <1>1, <1>5, <1>6, <1>7, WaysToMove DEF R, C, mode, gone, here, paying, best

-----------------------------------------------------------------------------
(* Types *)

\* A plan that waits for the profile endpoint was made without a baseline.
Shape == \A p \in Lane : At(p, "resolve") => job[p].from = None /\ ~job[p].foreign

TypeInv == TypeOK /\ Shape

LEMMA PassesAreOK ==
    ASSUME TypeOK, NEW blind \in BOOLEAN
    PROVE  PassOK(Pass(blind))
<1>1. \A a \in Acct : reading[a] \in Reading \cup {None}
  BY EngineAssumption DEF TypeOK
<1> QED BY <1>1 DEF TypeOK, PassOK, Pass

LEMMA DecideIs ==
    ASSUME NEW o, PassOK(o), NEW at, NEW cool \in BOOLEAN, Decide(o, at, cool) # None
    PROVE  /\ Decide(o, at, cool) \in Wanted(o, at)
           /\ Decide(o, at, cool) \in Acct
           /\ o.strategy # "manual"
<1>1. o.strategy # "manual" /\ Decide(o, at, cool) = OneOf(Wanted(o, at))
  BY DEF Decide
<1>2. Decide(o, at, cool) \in Wanted(o, at)
  BY <1>1 DEF OneOf
<1> QED BY <1>1, <1>2, MovesLandInPool DEF PassOK

LEMMA TypeInit == Init => TypeInv
<1>1. Init => TypeOK
  <2> SUFFICES ASSUME Init PROVE TypeOK
    OBVIOUS
  <2>1. Idle \in Plan
    BY DEF Idle, Plan
  <2>2. job \in [Lane -> Plan] /\ \A p \in Lane : job[p] = Idle
    BY <2>1 DEF Init
  <2>3. \A p \in Lane : /\ At(p, "idle") <=> job[p].target = None
                        /\ job[p].foreign => job[p].from = None
    BY <2>2 DEF Idle, At
  <2>4. news \in 0..MaxNews /\ faults \in 0..MaxFaults
    BY EngineAssumption DEF Init
  <2>5. DOMAIN reading = Acct /\ \A a \in Acct : reading[a] \in Readings[a] \cup {None}
    BY DEF Init
  <2>6. /\ strategy \in Strategy /\ out \subseteq Acct /\ held \subseteq Acct /\ left \subseteq Acct
        /\ live \in Acct \cup {None} /\ seen \in BOOLEAN /\ cooling \in BOOLEAN
    BY DEF Init
  <2> HIDE DEF Idle
  <2> QED BY <2>2, <2>3, <2>4, <2>5, <2>6, Zenon DEF TypeOK
<1>2. Init => Shape
  BY DEF Init, Shape, At, Idle
<1> QED BY <1>1, <1>2 DEF TypeInv

LEMMA EvaluateType ==
    ASSUME TypeInv, NEW p \in Lane, Evaluate(p)
    PROVE  TypeInv'
<1>1. PICK blind \in BOOLEAN, t \in Acct \cup {None} :
          /\ job' = IF t = None THEN job ELSE [job EXCEPT ![p] =
               [pc |-> IF ~seen /\ p \in Daemon THEN "resolve" ELSE "install",
                target |-> t, from |-> Observed, foreign |-> FALSE, fresh |-> ~blind]]
          /\ IF blind THEN Fault ELSE UNCHANGED faults
  <2>1. PICK blind \in BOOLEAN :
        \E t \in {IF \E a \in Acct : reading[a] # None
                 THEN Decide(Pass(blind), Observed, cooling /\ ~blind) ELSE None} :
            /\ job' = IF t = None THEN job ELSE [job EXCEPT ![p] =
                 [pc |-> IF ~seen /\ p \in Daemon THEN "resolve" ELSE "install",
                  target |-> t, from |-> Observed, foreign |-> FALSE, fresh |-> ~blind]]
            /\ IF blind THEN Fault ELSE UNCHANGED faults
    BY DEF Evaluate
  <2>2. Decide(Pass(blind), Observed, cooling /\ ~blind) \in Acct \cup {None}
    BY PassesAreOK, DecideIs DEF TypeInv, TypeOK
  <2> QED BY <2>1, <2>2
<1>2. UNCHANGED <<learned, live, seen, cooling, news, left>>
  BY DEF Evaluate
<1>3. Observed \in Acct \cup {None} /\ (~seen => Observed = None)
  BY DEF Observed, TypeInv, TypeOK
<1>4. /\ job' \in [Lane -> Plan]
      /\ \A q \in Lane : /\ job'[q].pc = "idle" <=> job'[q].target = None
                         /\ job'[q].foreign => job'[q].from = None
                         /\ job'[q].pc = "resolve" => job'[q].from = None /\ ~job'[q].foreign
  BY <1>1, <1>3 DEF TypeInv, TypeOK, Shape, Plan, At
<1>5. faults' \in 0..MaxFaults
  BY <1>1, EngineAssumption DEF Fault, TypeInv, TypeOK
<1> QED BY <1>2, <1>4, <1>5 DEF TypeInv, TypeOK, Shape, At, learned

LEMMA ExecuteType ==
    ASSUME TypeInv, NEW p \in Lane, Execute(p) \/ Crash(p)
    PROVE  TypeInv'
<1>1. ASSUME Return(p)
      PROVE  /\ job' \in [Lane -> Plan]
             /\ \A q \in Lane : /\ job'[q].pc = "idle" <=> job'[q].target = None
                                /\ job'[q].foreign => job'[q].from = None
                                /\ job'[q].pc = "resolve" => job'[q].from = None /\ ~job'[q].foreign
  BY <1>1 DEF Return, Idle, TypeInv, TypeOK, Shape, Plan, At
<1>2. ASSUME Fault PROVE faults' \in 0..MaxFaults
  BY <1>2, EngineAssumption DEF Fault, TypeInv, TypeOK
<1>3. CASE Resolve(p)
  <2>1. UNCHANGED <<learned, live, cooling, news, faults, left>> /\ seen' \in BOOLEAN
    BY <1>3 DEF Resolve, TypeInv, TypeOK
  <2>2. /\ job' \in [Lane -> Plan]
        /\ \A q \in Lane : /\ job'[q].pc = "idle" <=> job'[q].target = None
                           /\ job'[q].foreign => job'[q].from = None
                           /\ job'[q].pc = "resolve" => job'[q].from = None /\ ~job'[q].foreign
    BY <1>1, <1>3 DEF Resolve, TypeInv, TypeOK, Shape, Plan, At
  <2> QED BY <2>1, <2>2 DEF TypeInv, TypeOK, Shape, At, learned
<1>4. CASE Install(p)
  <2>1. UNCHANGED <<learned, cooling, news, faults>>
    BY <1>4 DEF Install
  <2>2. CASE Installed(p)
    <3>1. job[p].target \in Acct
      BY <1>4 DEF Install, TypeInv, TypeOK, Plan, At
    <3>2. live' \in Acct /\ seen' = TRUE /\ left' \subseteq Acct
      BY <2>2, <3>1 DEF Installed, TypeInv, TypeOK
    <3>3. /\ job' \in [Lane -> Plan]
          /\ \A q \in Lane : /\ job'[q].pc = "idle" <=> job'[q].target = None
                             /\ job'[q].foreign => job'[q].from = None
                             /\ job'[q].pc = "resolve" => job'[q].from = None /\ ~job'[q].foreign
      <4>1. job' = [job EXCEPT ![p].pc = "record"] /\ job \in [Lane -> Plan]
        BY <2>2 DEF Installed, TypeInv, TypeOK
      <4>2. job' \in [Lane -> Plan]
        BY <4>1 DEF Plan
      <4>3. job'[p].pc = "record" /\ job'[p].target \in Acct /\ job'[p].target # None
        BY <3>1, <4>1, RankingAssumption
      <4>4. \A q \in Lane : /\ q # p => job'[q] = job[q]
                            /\ job'[q].from = job[q].from
                            /\ job'[q].foreign = job[q].foreign
        BY <4>1 DEF Plan
      <4>5. ASSUME NEW q \in Lane
            PROVE  /\ job'[q].pc = "idle" <=> job'[q].target = None
                   /\ job'[q].foreign => job'[q].from = None
                   /\ job'[q].pc = "resolve" => job'[q].from = None /\ ~job'[q].foreign
        <5>1. /\ job[q].pc = "idle" <=> job[q].target = None
              /\ job[q].foreign => job[q].from = None
              /\ job[q].pc = "resolve" => job[q].from = None /\ ~job[q].foreign
          BY DEF TypeInv, TypeOK, Shape, At
        <5>2. CASE q = p
          <6>1. job'[q].from = job[q].from /\ (job'[q].foreign => job[q].foreign)
            BY <4>4, <5>2
          <6>2. job'[q].pc = "record" /\ job'[q].target # None
            BY <4>3, <5>2
          <6> QED BY <5>1, <6>1, <6>2
        <5>3. CASE q # p
          BY <4>4, <5>1, <5>3
        <5> QED BY <5>2, <5>3
      <4> QED BY <4>2, <4>5
    <3> QED BY <2>1, <3>2, <3>3 DEF TypeInv, TypeOK, Shape, At, learned
  <2>3. CASE Return(p) /\ UNCHANGED <<live, seen, left>>
    BY <1>1, <2>1, <2>3 DEF TypeInv, TypeOK, Shape, At, learned
  <2> QED BY <1>4, <2>2, <2>3 DEF Install
<1>5. CASE Record(p)
  <2>1. cooling' \in BOOLEAN /\ faults' \in 0..MaxFaults
    BY <1>2, <1>5 DEF Record, TypeInv, TypeOK
  <2>2. Return(p) /\ UNCHANGED <<learned, live, seen, news, left>>
    BY <1>5 DEF Record
  <2> QED BY <1>1, <2>1, <2>2 DEF TypeInv, TypeOK, Shape, At, learned
<1>6. CASE Crash(p)
  BY <1>1, <1>2, <1>6 DEF Crash, TypeInv, TypeOK, Shape, At, learned
<1> QED BY <1>3, <1>4, <1>5, <1>6 DEF Execute

\* The steps that bring news.
Newly ==
    \/ \E a \in Acct : Poll(a) \/ Quarantine(a) \/ Toggle(a) \/ UserSwitch(a)
    \/ UserLogin \/ Rotate

LEMMA NewsIs ==
    ASSUME TypeInv, Newly
    PROVE  /\ left' = {} /\ live' \in Acct \cup {None}
           /\ \A p \in Lane : ~job'[p].fresh
           /\ TypeInv'
<1>1. /\ left' = {} /\ news' \in 0..MaxNews /\ job' = Stale(job)
      /\ faults' = faults
  BY EngineAssumption
     DEF Newly, Poll, Quarantine, Toggle, UserSwitch, UserLogin, Rotate, Learn, TypeInv, TypeOK
<1>2. /\ live' \in Acct \cup {None} /\ seen' \in BOOLEAN /\ cooling' \in BOOLEAN
      /\ strategy' \in Strategy
      /\ out' \subseteq Acct /\ held' \subseteq Acct
  BY DEF Newly, Poll, Quarantine, Toggle, UserSwitch, UserLogin, Rotate, TypeInv, TypeOK, learned
<1>3. DOMAIN reading' = Acct /\ \A a \in Acct : reading'[a] \in Readings[a] \cup {None}
  <2>1. CASE \E a \in Acct : Poll(a)
    BY <2>1 DEF Poll, TypeInv, TypeOK
  <2>2. CASE UNCHANGED reading
    BY <2>2 DEF TypeInv, TypeOK
  <2> QED BY <2>1, <2>2 DEF Newly, Quarantine, Toggle, UserSwitch, UserLogin, Rotate, learned
<1>4. /\ job' \in [Lane -> Plan]
      /\ \A p \in Lane : /\ job'[p].pc = job[p].pc /\ job'[p].target = job[p].target
                         /\ job'[p].from = job[p].from /\ job'[p].foreign = job[p].foreign
                         /\ job'[p].fresh = FALSE
  <2>1. job \in [Lane -> Plan] /\ job' = [p \in Lane |-> [job[p] EXCEPT !.fresh = FALSE]]
    BY <1>1 DEF Stale, TypeInv, TypeOK
  <2>2. ASSUME NEW p \in Lane
        PROVE  /\ job'[p] \in Plan
               /\ job'[p].pc = job[p].pc /\ job'[p].target = job[p].target
               /\ job'[p].from = job[p].from /\ job'[p].foreign = job[p].foreign
               /\ job'[p].fresh = FALSE
    BY <2>1 DEF Plan
  <2> QED BY <2>1, <2>2
<1>5. TypeInv'
  BY <1>1, <1>2, <1>3, <1>4 DEF TypeInv, TypeOK, Shape, At
<1> QED BY <1>1, <1>2, <1>4, <1>5

LEMMA TypeStep == TypeInv /\ [Next]_vars => TypeInv'
<1> SUFFICES ASSUME TypeInv, [Next]_vars
             PROVE  TypeInv'
  OBVIOUS
<1>1. CASE \E p \in Lane : Evaluate(p) \/ Execute(p) \/ Crash(p)
  BY <1>1, EvaluateType, ExecuteType
<1>2. CASE CooldownEnds
  BY <1>2 DEF CooldownEnds, TypeInv, TypeOK, Shape, At, learned
<1>3. CASE Newly
  BY <1>3, NewsIs
<1>4. CASE UNCHANGED vars
  BY <1>4 DEF vars, TypeInv, TypeOK, Shape, At, learned
<1> QED BY <1>1, <1>2, <1>3, <1>4 DEF Next, Newly

\* Type correctness of the engine, for any accounts, readings and evaluators.
THEOREM EngineTypeOK == Spec => []TypeOK
<1>1. TypeInv => TypeOK
  BY DEF TypeInv
<1> QED BY <1>1, TypeInit, TypeStep, PTL DEF Spec

-----------------------------------------------------------------------------
(* What is moved to stays ahead of what was left *)

\* A plan made from all that is known is what a pass over it wants.
Fresh ==
    \A p \in Lane : job[p].fresh =>
        /\ job[p].target \in Wanted(Now, job[p].from)
        /\ job[p].foreign /\ ~seen => live = None

\* Each account left in the pool is behind the live one.
Behind ==
    left # {} => /\ live \in Now.pool
                 /\ \A a \in left \cap Now.pool : Precedes(Now, live, a)

HopInv == TypeInv /\ Fresh /\ Behind

LEMMA NowIs ==
    ASSUME TypeOK
    PROVE  PassOK(Now) /\ None \notin Now.pool
<1>1. PassOK(Now)
  BY PassesAreOK DEF Now
<1> QED BY <1>1, RankingAssumption DEF PassOK

\* An account without readable windows has no known headroom to run out.
LEMMA UnmeasuredStays ==
    ASSUME LastResortIsUnmeasured, TypeOK
    PROVE  SeatStays
<1> SUFFICES ASSUME live \in Now.pool, Kind[live] = "credit"
             PROVE  ~Ranked(live).h.known
  BY DEF SeatStays, Preempts
<1>1. PassOK(Now) /\ live \in Acct
  BY NowIs DEF PassOK
<1>2. Now.rd[live] \in Readings[live] \cup {None}
  BY <1>1 DEF TypeOK, Now, Pass
<1>3. Readable(Now.rd[live]) = {}
  BY <1>1, <1>2 DEF LastResortIsUnmeasured, Readable
<1>4. Headroom(Now, live) = Unread
  BY <1>3 DEF Headroom, HeadroomFor
<1>5. Ranked(live) = Measure(Now, live)
  BY <1>1, FindIs DEF Ranked
<1> QED BY <1>1, <1>4, <1>5, MeasureIs DEF Unread

LEMMA SamePass ==
    ASSUME UNCHANGED learned
    PROVE  Now' = Now
BY DEF learned, Now, Pass

LEMMA SameLeft ==
    ASSUME Behind, UNCHANGED learned, UNCHANGED <<live, left>>
    PROVE  Behind'
BY SamePass DEF Behind

LEMMA SameFresh ==
    ASSUME Fresh, UNCHANGED learned, live' = live, seen => seen', 
           \A p \in Lane : job'[p].fresh =>
               /\ job[p].fresh
               /\ job'[p].target = job[p].target /\ job'[p].from = job[p].from
               /\ job'[p].foreign => job[p].foreign
    PROVE  Fresh'
BY SamePass DEF Fresh

LEMMA EvaluateKeeps ==
    ASSUME HopInv, NEW p \in Lane, Evaluate(p)
    PROVE  Fresh' /\ Behind' /\ UNCHANGED <<live, left>>
<1>1. UNCHANGED learned /\ UNCHANGED <<live, seen, left>>
  BY DEF Evaluate
<1>2. PICK blind \in BOOLEAN :
      \E t \in {IF \E a \in Acct : reading[a] # None
               THEN Decide(Pass(blind), Observed, cooling /\ ~blind) ELSE None} :
          job' = IF t = None THEN job ELSE [job EXCEPT ![p] =
               [pc |-> IF ~seen /\ p \in Daemon THEN "resolve" ELSE "install",
                target |-> t, from |-> Observed, foreign |-> FALSE, fresh |-> ~blind]]
  BY DEF Evaluate
<1>3. PICK t : /\ t # None => t = Decide(Pass(blind), Observed, cooling /\ ~blind)
               /\ job' = IF t = None THEN job ELSE [job EXCEPT ![p] =
                    [pc |-> IF ~seen /\ p \in Daemon THEN "resolve" ELSE "install",
                     target |-> t, from |-> Observed, foreign |-> FALSE, fresh |-> ~blind]]
  BY <1>2
<1>4. Fresh'
  <2>1. CASE t = None
    BY <1>1, <1>3, <2>1, SameFresh DEF HopInv
  <2>2. CASE t # None
    <3>1. blind = FALSE => t \in Wanted(Now, Observed)
      <4> SUFFICES ASSUME blind = FALSE PROVE t \in Wanted(Now, Observed)
        OBVIOUS
      <4>1. (cooling /\ ~blind) \in BOOLEAN
        OBVIOUS
      <4>2. PassOK(Pass(blind)) /\ Pass(blind) = Now
        BY PassesAreOK DEF HopInv, TypeInv, Now
      <4> QED BY <1>3, <2>2, <4>1, <4>2, DecideIs
    <3>2. ASSUME NEW q \in Lane, job'[q].fresh
          PROVE  /\ job'[q].target \in Wanted(Now, job'[q].from)
                 /\ job'[q].foreign /\ ~seen => live = None
      <4>1. CASE q = p
        <5>1. job'[q] = [pc |-> IF ~seen /\ p \in Daemon THEN "resolve" ELSE "install",
                         target |-> t, from |-> Observed, foreign |-> FALSE, fresh |-> ~blind]
          BY <1>3, <2>2, <4>1 DEF HopInv, TypeInv, TypeOK
        <5>2. /\ job'[q].target = t /\ job'[q].from = Observed
              /\ job'[q].foreign = FALSE /\ job'[q].fresh = ~blind
          BY <5>1
        <5>3. blind = FALSE
          BY <3>2, <5>2
        <5> QED BY <3>1, <5>2, <5>3
      <4>2. CASE q # p
        <5>1. job'[q] = job[q]
          BY <1>3, <2>2, <4>2 DEF HopInv, TypeInv, TypeOK
        <5> QED BY <3>2, <5>1 DEF HopInv, Fresh
      <4> QED BY <4>1, <4>2
    <3> QED BY <1>1, <3>2, SamePass DEF Fresh
  <2> QED BY <2>1, <2>2
<1> QED BY <1>1, <1>4, SameLeft DEF HopInv

LEMMA ReturnKeeps ==
    ASSUME HopInv, NEW p \in Lane, Return(p), UNCHANGED <<learned, live, seen, left>>
    PROVE  Fresh' /\ Behind'
<1>1. \A q \in Lane : job'[q] = IF q = p THEN Idle ELSE job[q]
  BY DEF Return, HopInv, TypeInv, TypeOK
<1>2. \A q \in Lane : job'[q].fresh => q # p /\ job'[q] = job[q]
  BY <1>1 DEF Idle
<1> QED BY <1>2, SameFresh, SameLeft DEF HopInv

LEMMA ResolveKeeps ==
    ASSUME HopInv, NEW p \in Lane, Resolve(p)
    PROVE  Fresh' /\ Behind' /\ UNCHANGED <<live, left>>
<1>1. UNCHANGED learned /\ UNCHANGED <<live, left>>
  BY DEF Resolve
<1>2. CASE Return(p) /\ UNCHANGED seen
  BY <1>1, <1>2, ReturnKeeps
<1>3. CASE /\ seen' = TRUE
           /\ job' = [job EXCEPT ![p].pc = "install", ![p].from = live, ![p].fresh = FALSE]
  <2>1. \A q \in Lane : job'[q].fresh => q # p /\ job'[q] = job[q]
    BY <1>3 DEF HopInv, TypeInv, TypeOK, Plan
  <2> QED BY <1>1, <1>3, <2>1, SameFresh, SameLeft DEF HopInv
<1>4. CASE /\ live = None /\ ~seen
           /\ job' = [job EXCEPT ![p].pc = "install", ![p].foreign = TRUE]
           /\ UNCHANGED seen
  <2>1. \A q \in Lane : /\ job'[q].fresh = job[q].fresh
                        /\ job'[q].target = job[q].target /\ job'[q].from = job[q].from
    BY <1>4 DEF HopInv, TypeInv, TypeOK, Plan
  <2> QED BY <1>1, <1>4, <2>1, SamePass, SameLeft DEF HopInv, Fresh
<1> QED BY <1>1, <1>2, <1>3, <1>4 DEF Resolve

\* An installation is a hop, or starts the history again.
LEMMA InstallKeeps ==
    ASSUME HopInv, SeatStays, NEW p \in Lane, Install(p)
    PROVE  /\ Fresh' /\ Behind'
           /\ H!Next \/ UNCHANGED <<live, left>>
<1>1. UNCHANGED learned /\ Now' = Now
  BY SamePass DEF Install
<1>2. CASE Return(p) /\ UNCHANGED <<live, seen, left>>
  BY <1>1, <1>2, ReturnKeeps
<1>3. CASE /\ Observed = job[p].from /\ job[p].target # Observed
           /\ seen \/ job[p].foreign
           /\ Installed(p)
  <2> DEFINE t == job[p].target
  <2>1. t \in Acct /\ live' = t /\ seen' = TRUE /\ t # None
    BY <1>3, RankingAssumption DEF Install, Installed, HopInv, TypeInv, TypeOK, Plan, At
  <2>2. Fresh'
    <3>1. \A q \in Lane : /\ job'[q].fresh = job[q].fresh
                          /\ job'[q].target = job[q].target /\ job'[q].from = job[q].from
      BY <1>3 DEF Installed, HopInv, TypeInv, TypeOK, Plan
    <3> QED BY <1>1, <2>1, <3>1 DEF HopInv, Fresh
  <2>3. CASE ~job[p].fresh
    <3>1. left' = {}
      BY <1>3, <2>3 DEF Installed
    <3> QED BY <2>1, <2>2, <3>1 DEF Behind, H!Next, H!News
  <2>4. CASE job[p].fresh
    <3>1. left' = left \cup ({live} \ {None})
      BY <1>3, <2>4 DEF Installed
    <3>2. PassOK(Now) /\ None \notin Now.pool /\ live \in Acct \cup {None}
      BY NowIs DEF HopInv, TypeInv, TypeOK
    <3>3. t \in Wanted(Now, live) /\ t # live
      <4>1. t \in Wanted(Now, job[p].from)
        BY <2>4 DEF HopInv, Fresh
      <4>2. seen \/ live = None
        BY <1>3, <2>4 DEF HopInv, Fresh
      <4> QED BY <1>3, <4>1, <4>2 DEF Observed
    <3>4. t \in Now.pool
      BY <3>2, <3>3, MovesLandInPool
    <3>5. live \in Now.pool => Precedes(Now, t, live)
      <4> SUFFICES ASSUME live \in Now.pool PROVE Precedes(Now, t, live)
        OBVIOUS
      <4>1. Ranked(live) = Measure(Now, live)
        BY <3>2, FindIs DEF Ranked
      <4>2. InLast(Now, live) /\ MainPoolExhausted(Now)
                => ~Preempts(Now, Order(Now), Measure(Now, live))
        BY <4>1 DEF SeatStays, InLast
      <4> QED BY <3>2, <3>3, <4>2, MovesPrecede
    <3>6. ASSUME NEW a \in left', a \in Now.pool
          PROVE  Precedes(Now, t, a)
      <4>1. CASE a = live
        BY <3>5, <3>6, <4>1
      <4>2. CASE a # live
        <5>1. a \in left
          BY <3>1, <3>6, <4>2
        <5>2. live \in Now.pool /\ Precedes(Now, live, a)
          BY <3>6, <5>1 DEF HopInv, Behind
        <5> QED BY <3>2, <3>5, <5>2, PrecedesIsStrict
      <4> QED BY <4>1, <4>2
    <3>7. Behind'
      BY <1>1, <2>1, <3>4, <3>6 DEF Behind
    <3>8. t \notin left
      <4> SUFFICES ASSUME t \in left PROVE FALSE
        OBVIOUS
      <4>1. t \in left'
        BY <3>1
      <4>2. Precedes(Now, t, t)
        BY <3>4, <3>6, <4>1
      <4> QED BY <3>2, <4>2, PrecedesIsStrict
    <3>9. H!Hop(t)
      BY <2>1, <3>1, <3>3, <3>8 DEF H!Hop
    <3> QED BY <2>1, <2>2, <3>7, <3>9 DEF H!Next
  <2> QED BY <2>3, <2>4
<1> QED BY <1>2, <1>3 DEF Install

LEMMA HopInit == Init => HopInv /\ H!Init
<1>1. Init => TypeInv
  BY TypeInit
<1>2. Init => Fresh
  BY DEF Init, Fresh, Idle
<1>3. Init => Behind /\ H!Init
  BY DEF Init, Behind, H!Init
<1> QED BY <1>1, <1>2, <1>3 DEF HopInv

LEMMA HopStep ==
    ASSUME SeatStays, HopInv, [Next]_vars
    PROVE  HopInv' /\ [H!Next]_<<live, left>>
<1>1. TypeInv'
  BY TypeStep DEF HopInv
<1>2. CASE \E p \in Lane : Evaluate(p)
  BY <1>1, <1>2, EvaluateKeeps DEF HopInv
<1>3. CASE \E p \in Lane : Resolve(p)
  BY <1>1, <1>3, ResolveKeeps DEF HopInv
<1>4. CASE \E p \in Lane : Install(p)
  BY <1>1, <1>4, InstallKeeps DEF HopInv
<1>5. CASE \E p \in Lane : Record(p) \/ Crash(p)
  <2>1. PICK p \in Lane : Return(p) /\ UNCHANGED <<learned, live, seen, left>>
    BY <1>5 DEF Record, Crash
  <2> QED BY <1>1, <2>1, ReturnKeeps DEF HopInv
<1>6. CASE CooldownEnds
  <2>1. UNCHANGED learned /\ UNCHANGED <<live, seen, left, job>>
    BY <1>6 DEF CooldownEnds
  <2> QED BY <1>1, <2>1, SameFresh, SameLeft DEF HopInv
<1>7. CASE Newly
  <2>1. left' = {} /\ live' \in Acct \cup {None} /\ \A p \in Lane : ~job'[p].fresh
    BY <1>7, NewsIs DEF HopInv
  <2>2. Fresh' /\ Behind'
    BY <2>1 DEF Fresh, Behind
  <2>3. H!Next
    BY <2>1 DEF H!Next, H!News
  <2> QED BY <1>1, <2>2, <2>3 DEF HopInv
<1>8. CASE UNCHANGED vars
  <2>1. UNCHANGED learned /\ UNCHANGED <<live, seen, left, job>>
    BY <1>8 DEF vars
  <2> QED BY <1>1, <2>1, SameFresh, SameLeft DEF HopInv
<1> QED BY <1>2, <1>3, <1>4, <1>5, <1>6, <1>7, <1>8 DEF Next, Execute, Newly

\* The engine implements Hops, unless a last resort is preempted: until news
\* comes it never moves back to an account it has left, whichever of its
\* evaluators moves and whatever was lost on the way.
THEOREM EngineHops == Spec /\ []SeatStays => NoPingPong
<1>1. SeatStays /\ HopInv /\ [Next]_vars => HopInv' /\ [H!Next]_<<live, left>>
  BY HopStep
<1> QED BY <1>1, HopInit, PTL DEF Spec, NoPingPong, H!Spec

\* So it implements Hops where no last resort carries windows of its own.
THEOREM EngineNoPingPong ==
    ASSUME LastResortIsUnmeasured
    PROVE  Spec => NoPingPong
<1>1. TypeOK => SeatStays
  BY UnmeasuredStays
<1> QED BY <1>1, EngineTypeOK, EngineHops, PTL

-----------------------------------------------------------------------------
(* What is decided for an account with nothing left, and for money *)

\* An account with nothing left is past a threshold in any strategy: its room
\* is read off the windows, not off a table.
LEMMA EmptyIsSpent ==
    ASSUME NEW o, PassOK(o), NEW u, PassOK(u), o.rd = u.rd, NEW a \in Acct,
           OutOfQuota(Headroom(o, a))
    PROVE  Spent(Headroom(u, a))
<1> DEFINE r == o.rd[a]
<1>1. /\ Headroom(u, a).known = Headroom(o, a).known
      /\ Headroom(u, a).room = Headroom(o, a).room
  <2>1. CASE Kind[a] = "primary"
    BY <2>1 DEF Headroom, CreditHeadroom, Unread
  <2>2. CASE Kind[a] # "primary"
    BY <2>2 DEF Headroom, HeadroomFor, Unread
  <2> QED BY <2>1, <2>2
<1>2. /\ Headroom(u, a).min <= Headroom(u, a).room
      /\ Headroom(u, a).min \in Int /\ Headroom(u, a).room \in Int
  BY <1>1, HeadroomTyped DEF OutOfQuota
<1>3. Headroom(u, a).known /\ Headroom(u, a).room <= 0
  BY <1>1 DEF OutOfQuota
<1> QED BY <1>2, <1>3 DEF Spent

\* An account that may still serve is never behind one with nothing left,
\* except by the week it started in.
LEMMA EmptyComesLast ==
    ASSUME NEW mode \in {"headroom", "recovery"}, NEW r, NEW s, Typed(r), Typed(s),
           Less(mode, r, s), ~OutOfQuota(s.h)
    PROVE  ~OutOfQuota(r.h)
<1>1. CASE mode = "headroom"
  <2>1. HeadroomTier(r) <= HeadroomTier(s) /\ HeadroomTier(r) \in 0..4
    BY <1>1 DEF Less, LessHeadroom, HeadroomTier
  <2>2. HeadroomTier(s) # 4 /\ HeadroomTier(s) \in 0..4
    BY DEF HeadroomTier
  <2> QED BY <2>1, <2>2 DEF HeadroomTier
<1>2. CASE mode = "recovery"
  <2>1. EmptyTier(r) <= EmptyTier(s)
    BY <1>2 DEF Less, LessRecovery, EmptyTier
  <2> QED BY <2>1 DEF EmptyTier
<1> QED BY <1>1, <1>2

LEMMA NotConsumeFirst ==
    ASSUME NEW o, NEW R, o.strategy # "consume-first"
    PROVE  Mode(o, R) \in {"headroom", "recovery"}
BY DEF Mode

LEMMA NotConsumeFirstNow ==
    ASSUME strategy # "consume-first"
    PROVE  Mode(Now, Order(Now)) \in {"headroom", "recovery"}
<1>1. Now.strategy = strategy
  BY DEF Now, Pass
<1> QED BY <1>1, NotConsumeFirst

\* What the choice is, when there is one.
LEMMA ChoiceIs ==
    ASSUME TypeOK, Choice # None
    PROVE  /\ PassOK(Now)
           /\ Choice \in Wanted(Now, Observed) /\ Choice \in Now.pool
           /\ Ranked(Choice) = Measure(Now, Choice)
<1>1. PassOK(Now)
  BY NowIs
<1>2. Choice \in Wanted(Now, Observed)
  BY <1>1, DecideIs DEF Choice
<1>3. Choice \in Now.pool
  BY <1>1, <1>2, MovesLandInPool
<1> QED BY <1>1, <1>2, <1>3, FindIs DEF Ranked

LEMMA EmptyNotTaken ==
    ASSUME TypeOK
    PROVE  NoMoveOntoEmpty
<1> SUFFICES ASSUME strategy # "consume-first", Observed \in Now.pool,
                    Choice # None, Kind[Choice] # "credit"
             PROVE  ~OutOfQuota(Ranked(Choice).h)
  BY DEF NoMoveOntoEmpty
<1> DEFINE R == Order(Now)
           mode == Mode(Now, R)
           here == Measure(Now, Observed)
           best == Best(mode, R)
           paying == here \in Credit(Now)
<1>1. /\ PassOK(Now)
      /\ Choice \in Wanted(Now, Observed) /\ Choice \in Now.pool
      /\ Ranked(Choice) = Measure(Now, Choice)
  BY ChoiceIs
<1>2. mode \in {"headroom", "recovery"} /\ mode \in Modes
  BY NotConsumeFirstNow, ModeIs
<1>3. Find(R \cup Credit(Now), Observed) = here /\ here.uuid = Observed
  BY <1>1, FindIs, MeasureIs DEF PassOK
<1>4. Pool(R) /\ \A r \in R : r = Measure(Now, r.uuid)
  BY <1>1, PoolsAre
<1>5. CASE \E r \in Preemptable(Now, R, here) : Choice = r.uuid
  <2>1. PICK r \in R : Choice = r.uuid /\ CanTakeOver(Now, r)
    BY <1>5 DEF Preemptable
  <2> QED BY <1>1, <1>4, <2>1 DEF CanTakeOver
<1>6. CASE /\ R # {} /\ ~(paying /\ MainPoolExhausted(Now))
           /\ Choice = best.uuid /\ Choice # Observed
           /\ Gate(Now, mode, here, best)
  <2>1. best \in R /\ \A s \in R \ {best} : Less(mode, best, s)
    BY <1>2, <1>4, <1>6, BestIs
  <2>2. Ranked(Choice) = best
    BY <1>1, <1>4, <1>6, <2>1
  <2>3. CASE OutOfQuota(here.h)
    BY <1>6, <2>2, <2>3 DEF Gate
  <2>4. CASE ~OutOfQuota(here.h) /\ here \in R
    <3>1. Less(mode, best, here) /\ Typed(best) /\ Typed(here)
      BY <1>3, <1>4, <1>6, <2>1, <2>4 DEF Pool
    <3> QED BY <1>2, <2>2, <2>4, <3>1, EmptyComesLast
  <2>5. CASE here \notin R
    <3>1. paying
      BY <1>1, <2>5, PoolsAre DEF InMain, InLast
    <3>2. ~MainPoolExhausted(Now)
      BY <1>6, <3>1
    <3> DEFINE u == [Now EXCEPT !.strategy = "headroom"]
    <3>3. PassOK(u) /\ u.rd = Now.rd /\ u.pool = Now.pool
      BY <1>1 DEF PassOK, Now, Pass, Strategy
    <3>4. PICK q \in Order(u) : ~Spent(q.h)
      BY <3>2 DEF MainPoolExhausted
    <3>5. InMain(u, q.uuid) /\ q = Measure(u, q.uuid) /\ q.uuid \in Acct
      BY <3>3, PoolsAre DEF InMain, PassOK
    <3> DEFINE s == Measure(Now, q.uuid)
    <3>6. s \in R
      BY <1>1, <3>3, <3>5, PoolsAre DEF InMain
    <3>7. ~OutOfQuota(s.h)
      <4> HIDE DEF u
      <4>1. q.h = Headroom(u, q.uuid) /\ s.h = Headroom(Now, q.uuid)
        BY <1>1, <3>3, <3>5, MeasureIs
      <4> QED BY <1>1, <3>3, <3>4, <3>5, <4>1, EmptyIsSpent
    <3>8. s = best \/ Less(mode, best, s)
      BY <2>1, <3>6
    <3>9. Typed(best) /\ Typed(s)
      BY <1>4, <2>1, <3>6 DEF Pool
    <3> HIDE DEF s, best, mode, R
    <3> QED BY <1>2, <2>2, <3>7, <3>8, <3>9, EmptyComesLast
  <2> QED BY <2>3, <2>4, <2>5
<1>7. CASE Paid(Now) # {} /\ Choice = BestCredit(Paid(Now)).uuid
  BY <1>1, <1>7, PaidIs DEF InLast
<1> HIDE DEF R, mode, here, best, paying
<1> QED BY <1>1, <1>3, <1>5, <1>6, <1>7, WaysToMove DEF R, mode, here, best, paying

LEMMA EmptiedLeft ==
    ASSUME TypeOK
    PROVE  EmptiedIsLeft
<1> SUFFICES ASSUME Emptied
             PROVE  /\ Choice # None
                    /\ \/ Serves(Ranked(Choice))
                       \/ /\ ~Ranked(Choice).h.known
                          /\ \A r \in Order(Now) : Serves(r) => Spent(r.h) \/ r.lastPoint
  BY DEF EmptiedIsLeft
<1> DEFINE R == Order(Now)
           mode == Mode(Now, R)
           here == Measure(Now, Observed)
           best == Best(mode, R)
<1>1. /\ strategy \in {"headroom", "hover"} /\ Observed \in Now.pool
      /\ Kind[Observed] # "credit" /\ OutOfQuota(Ranked(Observed).h)
  BY DEF Emptied
<1>2. PICK r0 \in R : Serves(r0)
  BY DEF Emptied
<1>3. PassOK(Now)
  BY NowIs
<1>4. Find(R \cup Credit(Now), Observed) = here /\ here.uuid = Observed
  BY <1>1, <1>3, FindIs, MeasureIs DEF PassOK
<1>5. OutOfQuota(here.h)
  BY <1>1, <1>4 DEF Ranked
<1>6. here \in R /\ here \notin Credit(Now)
  BY <1>1, <1>3, <1>4, PoolsAre DEF InMain, InLast
<1>7. mode \in {"headroom", "recovery"} /\ mode \in Modes
  BY <1>1, NotConsumeFirstNow, ModeIs
<1>8. Pool(R) /\ R # {} /\ \A r \in R : Typed(r) /\ r = Measure(Now, r.uuid)
  BY <1>2, <1>3, PoolsAre DEF Pool
<1>9. best \in R /\ \A s \in R \ {best} : Less(mode, best, s)
  BY <1>7, <1>8, BestIs
<1>10. ~OutOfQuota(best.h)
  <2>1. best = r0 \/ Less(mode, best, r0)
    BY <1>2, <1>9
  <2> HIDE DEF best, mode, R
  <2> QED BY <1>2, <1>7, <1>8, <1>9, <2>1, EmptyComesLast DEF Serves
<1>11. best.uuid # Observed
  BY <1>4, <1>5, <1>6, <1>8, <1>9, <1>10 DEF Pool
<1>12. Gate(Now, mode, here, best)
  BY <1>5, <1>10 DEF Gate
<1>13. Wanted(Now, Observed) =
           IF Preempts(Now, R, here) THEN {PreemptTarget(Now, R, here).uuid} ELSE {best.uuid}
  BY <1>1, <1>4, <1>6, <1>8, <1>11, <1>12 DEF Wanted, Moves
<1>14. Choice \in Wanted(Now, Observed)
  <2>1. Choice = OneOf(Wanted(Now, Observed))
    BY <1>1 DEF Choice, Decide, Now, Pass
  <2> QED BY <1>13, <2>1 DEF OneOf
<1>15. Choice # None
  BY <1>3, <1>14, MovesLandInPool, NowIs
<1>16. Ranked(Choice) = Measure(Now, Choice)
  BY <1>15, ChoiceIs
<1>17. CASE Preempts(Now, R, here)
  <2>1. PreemptTarget(Now, R, here) \in Preemptable(Now, R, here)
    BY <1>8, <1>17, PreemptTargetIs
  <2>2. PICK r \in R : Choice = r.uuid /\ CanTakeOver(Now, r)
    BY <1>13, <1>14, <1>17, <2>1 DEF Preemptable
  <2>3. Serves(Ranked(Choice))
    BY <1>8, <1>16, <2>2 DEF CanTakeOver, Serves
  <2> QED BY <1>15, <2>3
<1>18. CASE ~Preempts(Now, R, here)
  <2>1. Ranked(Choice) = best
    BY <1>8, <1>9, <1>13, <1>14, <1>16, <1>18
  <2>2. CASE best.h.known
    BY <1>10, <1>15, <2>1, <2>2 DEF Serves
  <2>3. CASE ~best.h.known
    <3>1. mode = "headroom"
      BY <1>7, <1>8, <1>9, <2>3 DEF Mode, Spent
    <3>2. ASSUME NEW r \in R, Serves(r)
          PROVE  Spent(r.h) \/ r.lastPoint
      <4>1. HeadroomTier(best) >= 1
        BY <2>3 DEF HeadroomTier
      <4>2. best # r
        BY <2>3, <3>2 DEF Serves
      <4>3. Less(mode, best, r)
        BY <1>9, <4>2
      <4>4. HeadroomTier(best) <= HeadroomTier(r)
        BY <3>1, <4>3 DEF Less, LessHeadroom, HeadroomTier
      <4>5. HeadroomTier(r) # 0
        BY <4>1, <4>4 DEF HeadroomTier
      <4> QED BY <3>2, <4>5 DEF HeadroomTier, Serves
    <3> QED BY <1>15, <2>1, <2>3, <3>2
  <2> QED BY <2>2, <2>3
<1> QED BY <1>17, <1>18

\* What it takes for a subscription to be past a configured threshold.
LEMMA SpentWindow ==
    ASSUME NEW r \in Reading \cup {None}, Spent(HeadroomFor(r, Threshold))
    PROVE  /\ r # None
           /\ \E w \in Readable(r) : r.util[w] > Threshold[w] \/ r.util[w] >= 100
<1> DEFINE h == HeadroomFor(r, Threshold)
<1>1. Readable(r) # {}
  BY DEF Spent, HeadroomFor, Unread
<1>2. r \in Reading
  BY <1>1 DEF Readable
<1>3. Threshold \in [Window -> Int]
  BY RankingAssumption
<1>4. /\ \E w \in Readable(r) : h.slack = Slack(r, w, Threshold)
      /\ \E w \in Readable(r) : h.min = Room(r, w)
  BY <1>1, <1>2, <1>3, HeadroomIs
<1>5. \A w \in Readable(r) : r.util[w] \in 0..100 /\ Threshold[w] \in Int
  BY <1>2, <1>3, RankingAssumption DEF Readable, Reading
<1>6. r # None
  BY <1>1 DEF Readable
<1>7. CASE h.slack < 0
  <2>1. PICK w \in Readable(r) : Slack(r, w, Threshold) < 0
    BY <1>4, <1>7
  <2>2. r.util[w] > Threshold[w] \/ r.util[w] >= 100
    BY <1>5, <2>1 DEF Slack, Room
  <2> QED BY <1>6, <2>2
<1>8. CASE h.min <= 0
  <2>1. PICK w \in Readable(r) : Room(r, w) <= 0
    BY <1>4, <1>8
  <2>2. r.util[w] >= 100
    BY <1>5, <2>1 DEF Room
  <2> QED BY <1>6, <2>2
<1> QED BY <1>7, <1>8 DEF Spent

LEMMA PaidIsLast ==
    ASSUME TypeOK
    PROVE  PaidLast
<1> SUFFICES ASSUME Choice # None, Kind[Choice] = "credit", NEW r \in Order(Now)
             PROVE  /\ r.reading # None
                    /\ Kind[r.uuid] = "subscription" =>
                         \E w \in Readable(r.reading) :
                             r.reading.util[w] > Threshold[w] \/ r.reading.util[w] >= 100
  BY DEF PaidLast
<1> DEFINE R == Order(Now)
           u == [Now EXCEPT !.strategy = "headroom"]
           a == r.uuid
<1>1. PassOK(Now) /\ Choice \in Wanted(Now, Observed)
  BY ChoiceIs
<1>2. /\ \A s \in R : Kind[s.uuid] # "credit" /\ s.uuid \in Now.pool
      /\ r = Measure(Now, a) /\ a \in Acct
      /\ Pool(R)
  BY <1>1, PoolsAre DEF InMain, PassOK
<1>3. Best(Mode(Now, R), R) \in R
  BY <1>2, ModeIs, BestIs
<1>4. \A x : Preemptable(Now, R, x) \subseteq R
  BY DEF Preemptable
<1>5. MainPoolExhausted(Now)
  <2> HIDE DEF R
  <2> QED BY <1>1, <1>2, <1>3, <1>4, WaysToMove DEF R
<1>6. PassOK(u) /\ u.rd = Now.rd /\ u.pool = Now.pool /\ u.strategy = "headroom"
  BY <1>1 DEF PassOK, Now, Pass, Strategy
<1>7. Spent(Headroom(u, a))
  <2> HIDE DEF u
  <2>1. InMain(u, a)
    BY <1>2, <1>6 DEF InMain
  <2>2. Measure(u, a) \in Order(u) /\ Measure(u, a).h = Headroom(u, a)
    BY <1>2, <1>6, <2>1, PoolsAre, MeasureIs
  <2> QED BY <1>5, <2>2 DEF MainPoolExhausted, u
<1>8. r.reading = Now.rd[a] /\ r.reading \in Reading \cup {None}
  BY <1>1, <1>2, MeasureIs DEF PassOK
<1>9. r.reading # None
  <2> HIDE DEF u
  <2> QED BY <1>2, <1>6, <1>7, <1>8, HeadroomTyped, RankingAssumption DEF Spent
<1>10. ASSUME Kind[a] = "subscription"
       PROVE  Spent(HeadroomFor(r.reading, Threshold))
  <2>1. Headroom(u, a) = HeadroomFor(r.reading, Threshold)
    BY <1>6, <1>8, <1>10 DEF Headroom, ThresholdsFor, Hovers
  <2> QED BY <1>7, <2>1
<1> QED BY <1>8, <1>9, <1>10, SpentWindow

\* An account with nothing left is left for one that serves, for any readings.
THEOREM EngineEmptiedIsLeft == Spec => []EmptiedIsLeft
BY EngineTypeOK, EmptiedLeft, PTL

\* Nobody is moved onto an account of the main pool that has nothing left.
THEOREM EngineNoMoveOntoEmpty == Spec => []NoMoveOntoEmpty
BY EngineTypeOK, EmptyNotTaken, PTL

\* A last resort is entered only past every threshold of the main pool.
THEOREM EnginePaidLast == Spec => []PaidLast
BY EngineTypeOK, PaidIsLast, PTL

\* So the accounts left since the last news are accounts, and the live one is
\* not among them: there are fewer moves between two readings than accounts.
THEOREM EngineNeverBack ==
    ASSUME LastResortIsUnmeasured
    PROVE  Spec => []H!NeverBack
<1>1. None \notin Acct
  BY RankingAssumption
<1> DEFINE Inv == H!NeverBack /\ live \in Acct \cup {None}
<1>2. H!Init => Inv
  BY DEF H!Init, H!NeverBack
<1>3. Inv /\ [H!Next]_<<live, left>> => Inv'
  <2> SUFFICES ASSUME Inv, [H!Next]_<<live, left>> PROVE Inv'
    OBVIOUS
  <2>1. CASE H!News
    BY <1>1, <2>1 DEF H!News, H!NeverBack
  <2>2. CASE \E a \in Acct : H!Hop(a)
    BY <1>1, <2>2 DEF H!Hop, H!NeverBack
  <2>3. CASE UNCHANGED <<live, left>>
    BY <2>3 DEF H!NeverBack
  <2> QED BY <2>1, <2>2, <2>3 DEF H!Next
<1>4. H!Spec => []H!NeverBack
  BY <1>2, <1>3, PTL DEF H!Spec
<1> QED BY <1>4, EngineNoPingPong, PTL DEF NoPingPong
=============================================================================
