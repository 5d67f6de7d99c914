------------------------- MODULE CodexRefreshProofs -------------------------
(***************************************************************************)
(* What is proved of CodexRefresh for every set of pollers and requests,    *)
(* every number of logins, exchanges and faults.                            *)
(***************************************************************************)
EXTENDS CodexRefresh, TLAPS

-----------------------------------------------------------------------------
(* The inductive invariant *)

Inside   == {"flush", "read", "post", "answer", "denied", "save", "mark"}
Carrying == {"post", "answer", "denied", "save", "mark"}

\* What a job holds at each point; the mutex is its owner's; past Flush there
\* is no pending pair.
Shape ==
    \A p \in Proc :
        /\ w[p].pc \in Inside <=> holder = p
        /\ w[p].pc \in Carrying => w[p].cred # NoPair
        /\ w[p].pc \in {"answer", "save"} => w[p].next # NoPair
        /\ w[p].pc \notin {"idle", "token"} => w[p].saw # NoToken
        /\ w[p].pc \in Inside \ {"flush"} => pending = NoPair

Known(c) == c.login <= logins /\ c.ref <= issued[c.login] /\ c.acc <= issued[c.login]

\* No token is numbered past the exchanges its login was answered.
Numbered ==
    /\ store # NoPair => Known(store)
    /\ pending # NoPair => Known(pending)
    /\ \A p \in Proc :
          /\ w[p].cred # NoPair => Known(w[p].cred)
          /\ w[p].next # NoPair => Known(w[p].next)
          /\ w[p].saw # NoToken => w[p].saw.acc <= issued[w[p].saw.login]
    /\ \A g \in spent : g.login <= logins /\ g.ref <= issued[g.login]

\* Whoever asks for a refresh, and what is about to be exchanged, is worn out.
WornOut ==
    \A p \in Proc :
        /\ w[p].pc \in {"wait", "flush", "read"} => Refuses(w[p].saw)
        /\ w[p].pc = "post" => Refuses(TokenOf(w[p].cred))

\* A refusal stays true.
Deserved ==
    /\ mark # NoMark => ~Usable(mark)
    /\ \A p \in Proc : w[p].pc \in {"denied", "mark"} => ~Usable(GrantOf(w[p].cred))

Good(c) == GrantOf(c) \in spent => GrantOf(c) \in lost

Held(p) == w[p].pc \in {"answer", "save"} /\ GrantOf(w[p].cred) = GrantOf(store)

\* A spent grant is in the store only while its successor is on the way there.
Unspent ==
    /\ pending # NoPair => Good(pending)
    /\ \A p \in Proc : /\ w[p].pc \in {"answer", "save"} => Good(w[p].next)
                       /\ w[p].pc = "post" => Good(w[p].cred)
    /\ store = NoPair \/ Good(store) \/ pending # NoPair \/ \E p \in Proc : Held(p)

IInv == TypeOK /\ Shape /\ Numbered /\ WornOut /\ Deserved /\ Unspent

-----------------------------------------------------------------------------
(* Types *)

LEMMA IdleType == Idle \in Job
BY DEF Idle, Job

LEMMA PairParts ==
    ASSUME NEW c \in Pair
    PROVE  /\ TokenOf(c) \in Token /\ GrantOf(c) \in Grant
           /\ TokenOf(c) # NoToken /\ GrantOf(c) # NoMark /\ c # NoPair
           /\ TokenOf(c).login = c.login /\ TokenOf(c).acc = c.acc
           /\ GrantOf(c).login = c.login /\ GrantOf(c).ref = c.ref
BY CodexRefreshAssumption DEF Pair, Token, Grant, TokenOf, GrantOf

\* What a caller is left with when Refresh returns a credential, and without.
Left(job) ==
    /\ job \in Job /\ job.pc \in {"idle", "sent", "replay"}
    /\ job.cred = NoPair /\ job.next = NoPair
    /\ job.pc # "idle" => job.saw # NoToken

LEMMA LeftIdle == Left(Idle) /\ Idle.saw = NoToken
<1>1. /\ Idle.pc = "idle" /\ Idle.saw = NoToken /\ Idle.cred = NoPair /\ Idle.next = NoPair
  BY DEF Idle
<1> QED
  BY <1>1, IdleType DEF Left

LEMMA AfterGood ==
    ASSUME NEW p \in Proc, w[p] \in Job, w[p].saw # NoToken, NEW c \in Pair
    PROVE  /\ Left(After(p, TRUE, c))
           /\ After(p, TRUE, c).saw \in {NoToken, w[p].saw, TokenOf(c)}
<1>1. CASE w[p].then = "fetch"
  <2>1. After(p, TRUE, c) = [Idle EXCEPT !.pc = "sent", !.saw = TokenOf(c)]
    BY <1>1 DEF After
  <2> QED
    BY <2>1, PairParts, CodexRefreshAssumption, ZenonT(60) DEF Idle, Job, Left
<1>2. CASE w[p].then = "replay"
  <2>1. After(p, TRUE, c) = [Idle EXCEPT !.pc = "replay", !.saw = w[p].saw]
    BY <1>2 DEF After
  <2> QED
    BY <2>1, CodexRefreshAssumption DEF Idle, Job, Left
<1>3. CASE w[p].then \notin {"fetch", "replay"}
  <2>1. After(p, TRUE, c) = Idle
    BY <1>3 DEF After
  <2> QED
    BY <2>1, LeftIdle
<1> QED
  BY <1>1, <1>2, <1>3

LEMMA AfterNothing ==
    ASSUME NEW p \in Proc, w[p] \in Job, w[p].saw # NoToken
    PROVE  /\ Left(After(p, FALSE, NoPair))
           /\ After(p, FALSE, NoPair).saw \in {NoToken, w[p].saw}
<1>1. CASE w[p].then = "fetch"
  <2>1. After(p, FALSE, NoPair) = [Idle EXCEPT !.pc = "sent", !.saw = w[p].saw]
    BY <1>1 DEF After
  <2> QED
    BY <2>1, CodexRefreshAssumption DEF Idle, Job, Left
<1>2. CASE w[p].then # "fetch"
  <2>1. After(p, FALSE, NoPair) = Idle
    BY <1>2 DEF After
  <2> QED
    BY <2>1, LeftIdle
<1> QED
  BY <1>1, <1>2

-----------------------------------------------------------------------------
(* Steps that change one caller's job and nothing it shares *)

LEMMA InvInit == Init => IInv
<1> SUFFICES ASSUME Init PROVE IInv
  OBVIOUS
<1>1. TypeOK
  <2>1. 0 \in Login /\ 0 \in 0..MaxIssued /\ 0 \in 0..MaxFaults
    BY CodexRefreshAssumption DEF Login
  <2>2. First(0) \in Pair
    BY <2>1 DEF First, Pair
  <2> QED
    BY <2>1, <2>2, IdleType DEF Init, TypeOK
<1>2. Shape
  BY CodexRefreshAssumption DEF Init, Shape, Idle, Inside, Carrying
<1>3. Numbered
  BY CodexRefreshAssumption DEF Init, Numbered, Known, First, Idle, Login
<1>4. WornOut /\ Deserved
  BY DEF Init, WornOut, Deserved, Idle
<1>5. Unspent
  BY DEF Init, Unspent, Good, Idle
<1> QED
  BY <1>1, <1>2, <1>3, <1>4, <1>5 DEF IInv

\* Outside the mutex a caller holds no credential.
LEMMA Outside ==
    ASSUME IInv, NEW p \in Proc, w[p].pc \notin Inside,
           NEW job \in Job, job.pc \notin Inside,
           job.cred \in {NoPair, w[p].cred}, job.next \in {NoPair, w[p].next},
           job.pc \notin {"idle", "token"} => job.saw # NoToken,
           job.saw # NoToken => job.saw.acc <= issued[job.saw.login],
           job.pc = "wait" => Refuses(job.saw),
           w' = [w EXCEPT ![p] = job],
           UNCHANGED <<issuer, rows, memory, bounds, lost>>
    PROVE  IInv'
<1> USE DEF IInv
<1>1. TypeOK'
  BY DEF TypeOK, issuer, rows, memory, bounds
<1>2. w'[p] = job /\ \A q \in Proc : q # p => w'[q] = w[q]
  BY DEF TypeOK
<1>3. Shape'
  BY <1>2 DEF Shape, Inside, Carrying, memory
<1>4. Numbered'
  BY <1>2 DEF Numbered, Known, issuer, rows, memory, bounds
<1>5. WornOut'
  BY <1>2 DEF WornOut, Refuses, Inside, issuer, TokenOf
<1>6. Deserved'
  BY <1>2 DEF Deserved, Usable, Inside, issuer, rows, GrantOf
<1>7. Unspent'
  <2>1. /\ store' = store /\ pending' = pending
        /\ \A c : Good(c)' <=> Good(c)
    BY DEF Good, GrantOf, issuer, rows, memory
  <2>2. \A q \in Proc : Held(q) => Held(q)'
    BY <1>2, <2>1 DEF Held, Inside, GrantOf
  <2> QED
    BY <1>2, <2>1, <2>2 DEF Unspent, Inside
<1> QED
  BY <1>1, <1>3, <1>4, <1>5, <1>6, <1>7

LEMMA CallerInv ==
    ASSUME IInv, NEW p \in Proc,
           Dispatch(p) \/ ReadToken(p) \/ Send(p) \/ Reply(p) \/ Replay(p)
    PROVE  IInv'
<1> USE DEF At
<1>1. w[p] \in Job /\ (store # NoPair => store \in Pair /\ Known(store))
  BY DEF IInv, TypeOK, Numbered
<1>2. store # NoPair => /\ TokenOf(store) \in Token /\ TokenOf(store) # NoToken
                        /\ TokenOf(store).acc <= issued[TokenOf(store).login]
                        /\ TokenOf(store).login = store.login /\ TokenOf(store).acc = store.acc
  BY <1>1, PairParts DEF Known
<1>3. CASE Dispatch(p)
  <2> DEFINE job == [w[p] EXCEPT !.pc = "token"]
  <2>1. job \in Job /\ job.pc = "token" /\ job.cred = w[p].cred /\ job.next = w[p].next /\ job.saw = w[p].saw
    BY <1>1 DEF Job
  <2>2. w[p].pc \notin Inside /\ w' = [w EXCEPT ![p] = job]
    BY <1>3 DEF Dispatch, Goto, Inside
  <2>3. UNCHANGED <<issuer, rows, memory, bounds, lost>>
    BY <1>3 DEF Dispatch
  <2>4. job.saw # NoToken => job.saw.acc <= issued[job.saw.login]
    BY <2>1 DEF IInv, Numbered
  <2> QED
    BY <2>1, <2>2, <2>3, <2>4, Outside DEF Inside
<1>4. CASE ReadToken(p)
  <2> DEFINE job == [Idle EXCEPT
                       !.pc = IF store.acc < issued[store.login] \/ store.login \in aged
                              THEN "wait" ELSE "sent",
                       !.saw = TokenOf(store), !.then = "fetch"]
  <2>1. CASE store # NoPair /\ w' = [w EXCEPT ![p] = job]
    <3>1. job.pc = "wait" => Refuses(TokenOf(store))
      BY <1>2, <2>1 DEF Refuses, Idle
    <3>2. /\ job \in Job /\ job.pc \in {"wait", "sent"} /\ job.saw = TokenOf(store)
          /\ job.cred = NoPair /\ job.next = NoPair
      BY <1>2, <2>1 DEF Job, Idle
    <3> HIDE DEF job
    <3> QED
      BY <1>2, <1>4, <2>1, <3>1, <3>2, Outside DEF ReadToken, Inside
  <2>2. CASE Done(p)
    BY <1>4, <2>2, LeftIdle, Outside DEF ReadToken, Done, Left, Inside, Idle
  <2> QED
    BY <1>4, <2>1, <2>2 DEF ReadToken
<1>5. CASE Send(p)
  <2> DEFINE job == [Idle EXCEPT !.pc = "sent", !.saw = TokenOf(store)]
  <2>1. store # NoPair /\ w' = [w EXCEPT ![p] = job]
    BY <1>5 DEF Send
  <2>2. /\ job \in Job /\ job.pc = "sent" /\ job.saw = TokenOf(store)
        /\ job.cred = NoPair /\ job.next = NoPair
    BY <1>2, <2>1 DEF Job, Idle
  <2> HIDE DEF job
  <2> QED
    BY <1>2, <1>5, <2>1, <2>2, Outside DEF Send, Inside
<1>6. CASE Reply(p)
  <2>1. CASE Done(p)
    BY <1>6, <2>1, LeftIdle, Outside DEF Reply, Done, Left, Inside, Idle
  <2>2. CASE Refuses(w[p].saw)
             /\ w' = [w EXCEPT ![p].pc = "wait", ![p].then = IF p \in Poller THEN "end" ELSE "replay"]
    <3> DEFINE job == [w[p] EXCEPT !.pc = "wait", !.then = IF p \in Poller THEN "end" ELSE "replay"]
    <3>1. w' = [w EXCEPT ![p] = job]
      BY <1>1, <2>2 DEF IInv, TypeOK
    <3>2. /\ job \in Job /\ job.pc = "wait" /\ job.saw = w[p].saw
          /\ job.cred = w[p].cred /\ job.next = w[p].next
      BY <1>1 DEF Job
    <3>3. job.saw # NoToken /\ job.saw.acc <= issued[job.saw.login]
      BY <1>6, <3>2 DEF IInv, Numbered, Shape, Reply
    <3> HIDE DEF job
    <3> QED
      BY <1>6, <2>2, <3>1, <3>2, <3>3, Outside DEF Reply, Inside
  <2> QED
    BY <1>6, <2>1, <2>2 DEF Reply
<1>7. CASE Replay(p)
  BY <1>7, LeftIdle, Outside DEF Replay, Done, Left, Inside, Idle
<1> QED
  BY <1>3, <1>4, <1>5, <1>6, <1>7

-----------------------------------------------------------------------------
(* Returning from Refresh *)

\* What a return must say of the store, the pending pair and the mark.
LEMMA Returns ==
    ASSUME IInv, NEW p \in Proc, w[p].pc \in Inside, NEW job, Left(job),
           job.saw # NoToken => job.saw.acc <= issued[job.saw.login],
           holder' = NoProc, w' = [w EXCEPT ![p] = job],
           UNCHANGED issuer, logins' = logins,
           TypeOK', lost \subseteq lost',
           store' # NoPair => Known(store'), pending' # NoPair => Known(pending'),
           mark' # NoMark => ~Usable(mark'),
           pending' # NoPair => Good(pending)',
           store' = NoPair \/ Good(store)' \/ pending' # NoPair
    PROVE  IInv'
<1>1. /\ w'[p] = job /\ \A q \in Proc : q # p => w'[q] = w[q] /\ w[q].pc \notin Inside
      /\ job.pc \notin Inside
  BY DEF IInv, TypeOK, Shape, Left, Inside
<1>2. Shape'
  BY <1>1, CodexRefreshAssumption DEF IInv, Shape, Inside, Carrying, Left
<1>3. Numbered'
  BY <1>1 DEF IInv, Numbered, Known, issuer, Left
<1>4. WornOut'
  BY <1>1 DEF IInv, WornOut, Refuses, Inside, issuer, TokenOf, Left
<1>5. Deserved'
  BY <1>1 DEF IInv, Deserved, Usable, Inside, issuer
<1>6. Unspent'
  BY <1>1 DEF IInv, Unspent, Inside
<1> QED
  BY <1>2, <1>3, <1>4, <1>5, <1>6 DEF IInv

\* Nothing was learned of the grant: the store, the pending pair and the mark
\* are as they were, and no successor was on its way.
LEMMA ReturnsNothing ==
    ASSUME IInv, NEW p \in Proc, w[p].pc \in Inside, Returned(p),
           UNCHANGED <<issuer, rows, pending, logins>>,
           TypeOK', lost \subseteq lost',
           Held(p) => store' = NoPair \/ Good(store)'
    PROVE  IInv'
<1> DEFINE job == After(p, FALSE, NoPair)
<1>1. w[p] \in Job /\ w[p].saw # NoToken
  BY DEF IInv, TypeOK, Shape, Inside
<1>2. Left(job) /\ job.saw \in {NoToken, w[p].saw}
  BY <1>1, AfterNothing
<1>3. job.saw # NoToken => job.saw.acc <= issued[job.saw.login]
  BY <1>1, <1>2 DEF IInv, Numbered
<1>4. \A q \in Proc : q # p => ~Held(q)
  BY DEF IInv, Shape, Held, Inside
<1>5. \A c : Good(c) => Good(c)'
  BY DEF Good, issuer, GrantOf
<1>6. store' = NoPair \/ Good(store)' \/ pending' # NoPair
  BY <1>4, <1>5 DEF IInv, Unspent, rows
<1>7. /\ store' # NoPair => Known(store')
      /\ pending' # NoPair => Known(pending')
      /\ pending' # NoPair => Good(pending)'
      /\ mark' # NoMark => ~Usable(mark')
  BY <1>5 DEF IInv, Numbered, Unspent, Deserved, rows
<1> QED
  BY <1>2, <1>3, <1>6, <1>7, Returns DEF Returned, Settled

\* The pair is in the store, or in memory because the store was busy.
LEMMA ReturnsPair ==
    ASSUME IInv, NEW p \in Proc, w[p].pc \in Inside, NEW c \in Pair, Known(c), Good(c),
           Settled(p, TRUE, c), TypeOK',
           \/ store' = c /\ pending' = pending /\ pending = NoPair
           \/ pending' = c /\ store' = store,
           UNCHANGED <<issuer, mark, logins, lost>>
    PROVE  IInv'
<1> DEFINE job == After(p, TRUE, c)
<1>1. w[p] \in Job /\ w[p].saw # NoToken
  BY DEF IInv, TypeOK, Shape, Inside
<1>2. Left(job) /\ job.saw \in {NoToken, w[p].saw, TokenOf(c)}
  BY <1>1, AfterGood
<1>3. job.saw # NoToken => job.saw.acc <= issued[job.saw.login]
  BY <1>1, <1>2, PairParts DEF IInv, Numbered, Known
<1>4. \A d : Good(d) => Good(d)'
  BY DEF Good, issuer, GrantOf
<1>5. c # NoPair
  BY PairParts
<1>6. /\ store' # NoPair => Known(store')
      /\ pending' # NoPair => Known(pending')
      /\ pending' # NoPair => Good(pending)'
      /\ mark' # NoMark => ~Usable(mark')
      /\ store' = NoPair \/ Good(store)' \/ pending' # NoPair
  BY <1>4, <1>5 DEF IInv, Numbered, Unspent, Deserved
<1> QED
  BY <1>2, <1>3, <1>6, Returns DEF Settled

-----------------------------------------------------------------------------
(* Inside the mutex *)

LEMMA LockInv == ASSUME IInv, NEW p \in Proc, Lock(p) PROVE IInv'
<1> USE DEF IInv, At
<1> DEFINE job == [w[p] EXCEPT !.pc = "flush"]
<1>1. /\ job \in Job /\ job.pc = "flush" /\ job.saw = w[p].saw
      /\ job.cred = w[p].cred /\ job.next = w[p].next
  BY DEF TypeOK, Job
<1>2. w[p].pc = "wait" /\ w' = [w EXCEPT ![p] = job]
  BY DEF Lock, Goto
<1> HIDE DEF job
<1>3. w'[p] = job /\ \A q \in Proc : q # p => w'[q] = w[q]
  BY <1>2 DEF TypeOK
<1>4. TypeOK'
  BY <1>1, <1>2 DEF Lock, TypeOK, issuer, rows, bounds
<1>5. Shape'
  BY <1>1, <1>2, <1>3, CodexRefreshAssumption DEF Lock, Shape, Inside, Carrying
<1>6. Numbered'
  BY <1>1, <1>3 DEF Lock, Numbered, Known, issuer, rows, bounds
<1>7. WornOut'
  BY <1>1, <1>2, <1>3 DEF Lock, WornOut, Refuses, issuer, TokenOf
<1>8. Deserved'
  BY <1>1, <1>3 DEF Lock, Deserved, Usable, issuer, rows, GrantOf
<1>9. Unspent'
  <2>1. /\ store' = store /\ pending' = pending
        /\ \A c : Good(c)' <=> Good(c)
    BY DEF Lock, Good, GrantOf, issuer, rows
  <2>2. \A q \in Proc : Held(q) => Held(q)'
    BY <1>2, <1>3, <2>1 DEF Held, GrantOf
  <2> QED
    BY <1>1, <1>3, <2>1, <2>2 DEF Unspent
<1> QED
  BY <1>4, <1>5, <1>6, <1>7, <1>8, <1>9

\* TypeOK of a return that only cools down, records a loss or counts a fault.
LEMMA ReturnTypeOK ==
    ASSUME IInv, NEW p \in Proc, w[p].pc \in Inside, Returned(p),
           UNCHANGED <<issuer, store, pending, logins>>, mark' \in Grant \cup {NoMark},
           cooling' \in BOOLEAN, faults' \in 0..MaxFaults,
           lost' \subseteq Grant
    PROVE  TypeOK'
<1>1. After(p, FALSE, NoPair) \in Job
  BY AfterNothing DEF IInv, TypeOK, Shape, Inside, Left
<1> QED
  BY <1>1, CodexRefreshAssumption DEF IInv, TypeOK, Returned, Settled, issuer

LEMMA FlushInv == ASSUME IInv, NEW p \in Proc, Flush(p) PROVE IInv'
<1> USE DEF IInv, At
<1> DEFINE job == [w[p] EXCEPT !.pc = "read"]
<1>1. /\ job \in Job /\ job.pc = "read" /\ job.saw = w[p].saw
      /\ job.cred = w[p].cred /\ job.next = w[p].next
  BY DEF TypeOK, Job
<1>2. w[p].pc = "flush" /\ holder = p
  BY DEF Flush, Shape, Inside
<1>3. CASE /\ w' = [w EXCEPT ![p].pc = "read"] /\ pending' = NoPair /\ holder' = holder
           /\ \/ store' = store /\ pending = NoPair
              \/ store' = pending /\ pending # NoPair
  <2>1. w' = [w EXCEPT ![p] = job] /\ UNCHANGED <<issuer, mark, cooling, bounds, lost>>
    BY <1>3 DEF Flush
  <2> HIDE DEF job
  <2>2. w'[p] = job /\ \A q \in Proc : q # p => w'[q] = w[q] /\ w[q].pc \notin Inside
    BY <1>2, <2>1 DEF TypeOK, Shape
  <2>3. TypeOK'
    BY <1>1, <1>3, <2>1 DEF TypeOK, issuer, bounds
  <2>4. Shape'
    BY <1>1, <1>2, <1>3, <2>2 DEF Shape, Inside, Carrying
  <2>5. Numbered'
    BY <1>1, <1>3, <2>1, <2>2 DEF Numbered, Known, issuer, bounds
  <2>6. WornOut'
    BY <1>1, <1>2, <2>1, <2>2 DEF WornOut, Refuses, issuer, TokenOf
  <2>7. Deserved'
    BY <1>1, <2>1, <2>2 DEF Deserved, Usable, issuer, GrantOf
  <2>8. Unspent'
    <3>1. \A c : Good(c)' <=> Good(c)
      BY <2>1 DEF Good, GrantOf, issuer
    <3>2. \A q \in Proc : ~Held(q)
      BY <1>2, <2>2 DEF Held, Inside
    <3>3. store' = NoPair \/ Good(store)'
      BY <1>3, <3>1, <3>2 DEF Unspent
    <3> QED
      BY <1>1, <1>3, <2>2, <3>1, <3>3 DEF Unspent, Inside
  <2> QED
    BY <2>3, <2>4, <2>5, <2>6, <2>7, <2>8
<1>4. CASE Returned(p) /\ UNCHANGED <<store, pending>>
  <2>1. UNCHANGED <<issuer, rows, pending, cooling, bounds, lost>>
    BY <1>4 DEF Flush, rows
  <2>2. TypeOK'
    BY <1>2, <1>4, <2>1, ReturnTypeOK DEF Inside, TypeOK, rows, bounds
  <2>3. ~Held(p)
    BY <1>2 DEF Held
  <2> QED
    BY <1>2, <1>4, <2>1, <2>2, <2>3, ReturnsNothing DEF Inside, bounds
<1> HIDE DEF IInv, job
<1> QED
  BY <1>3, <1>4 DEF Flush, Goto

LEMMA ReadInv == ASSUME IInv, NEW p \in Proc, Read(p) PROVE IInv'
<1> USE DEF IInv, At
<1>1. /\ w[p].pc = "read" /\ holder = p /\ pending = NoPair
      /\ \A q \in Proc : q # p => w[q].pc \notin Inside
  BY DEF Read, Shape, Inside
<1>2. UNCHANGED <<issuer, rows, pending, cooling, bounds, lost>>
  BY DEF Read
<1>3. store # NoPair => store \in Pair /\ Known(store) /\ Good(store)
  <2>1. \A q \in Proc : ~Held(q)
    BY <1>1 DEF Held, Inside
  <2> QED
    BY <1>1, <2>1 DEF TypeOK, Numbered, Unspent
<1>4. CASE store # NoPair /\ Settled(p, TRUE, store)
  <2>1. TypeOK'
    <3>1. After(p, TRUE, store) \in Job
      BY <1>1, <1>3, <1>4, AfterGood DEF TypeOK, Shape, Left
    <3> QED
      BY <1>2, <1>4, <3>1 DEF TypeOK, Settled, issuer, rows, bounds
  <2> QED
    BY <1>1, <1>2, <1>3, <1>4, <2>1, ReturnsPair DEF Inside, rows, bounds
<1>5. CASE /\ store # NoPair /\ TokenOf(store) = w[p].saw
           /\ w' = [w EXCEPT ![p].pc = "post", ![p].cred = store] /\ UNCHANGED holder
  <2> DEFINE job == [w[p] EXCEPT !.pc = "post", !.cred = store]
  <2>1. /\ job \in Job /\ job.pc = "post" /\ job.saw = w[p].saw
        /\ job.cred = store /\ job.next = w[p].next
    BY <1>3, <1>5 DEF TypeOK, Job
  <2>2. w' = [w EXCEPT ![p] = job]
    BY <1>5 DEF TypeOK
  <2> HIDE DEF job
  <2>3. w'[p] = job /\ \A q \in Proc : q # p => w'[q] = w[q]
    BY <2>2 DEF TypeOK
  <2>4. TypeOK'
    BY <1>2, <1>5, <2>1, <2>2 DEF TypeOK, issuer, rows, bounds
  <2> holder' = holder /\ pending' = pending /\ store' = store /\ spent' = spent
    BY <1>2, <1>5 DEF rows, issuer
  <2> issued' = issued /\ logins' = logins
    BY <1>2 DEF issuer, bounds
  <2>5. Shape'
    <3>1. \A q \in Proc : q # p => w'[q] = w[q] /\ w[q].pc \notin Inside
      BY <1>1, <2>3
    <3>2. w[p].saw # NoToken
      BY <1>1 DEF Shape
    <3> HIDE DEF IInv
    <3>3. \A q \in Proc : w[q].pc \notin {"idle", "token"} => w[q].saw # NoToken
      BY DEF IInv, Shape
    <3> QED
      BY <1>1, <1>5, <2>1, <2>3, <3>1, <3>2, <3>3, ZenonT(60) DEF Shape, Inside, Carrying
  <2>6. Numbered'
    <3>1. \A c : Known(c)' <=> Known(c)
      BY DEF Known
    <3> QED
      BY <1>3, <1>5, <2>1, <2>3, <3>1, ZenonT(60) DEF Numbered
  <2>7. WornOut'
    BY <1>1, <1>2, <1>5, <2>1, <2>3, ZenonT(60) DEF WornOut, Refuses, issuer, TokenOf
  <2>8. Deserved'
    BY <1>2, <2>1, <2>3 DEF Deserved, Usable, issuer, rows, GrantOf
  <2>9. Unspent'
    <3>1. \A c : Good(c)' <=> Good(c)
      BY <1>2 DEF Good, GrantOf, issuer
    <3>2. store' = store /\ pending' = pending
      BY <1>2 DEF rows
    <3> QED
      BY <1>1, <1>3, <1>5, <2>1, <2>3, <3>1, <3>2 DEF Unspent, Inside
  <2> QED
    BY <2>4, <2>5, <2>6, <2>7, <2>8, <2>9
<1>6. CASE Returned(p)
  <2>1. TypeOK'
    BY <1>1, <1>2, <1>6, ReturnTypeOK DEF Inside, TypeOK, rows, bounds
  <2>2. ~Held(p)
    BY <1>1 DEF Held
  <2> QED
    BY <1>1, <1>2, <1>6, <2>1, <2>2, ReturnsNothing DEF Inside, bounds
<1> QED
  BY <1>4, <1>5, <1>6 DEF Read

\* The holder goes on, and nothing is learned that the store would show.
LEMMA Advances ==
    ASSUME IInv, NEW p \in Proc, NEW job \in Job, w' = [w EXCEPT ![p] = job],
           <<w[p].pc, job.pc>> \in {<<"post", "denied">>, <<"answer", "save">>, <<"denied", "mark">>},
           job.saw = w[p].saw, job.cred = w[p].cred, job.next = w[p].next,
           job.pc = "denied" => ~Usable(GrantOf(job.cred)),
           UNCHANGED <<issuer, rows, pending, holder, bounds, lost>>, cooling' \in BOOLEAN
    PROVE  IInv'
<1> USE DEF IInv
<1>1. w'[p] = job /\ \A q \in Proc : q # p => w'[q] = w[q]
  BY DEF TypeOK
<1>2. TypeOK'
  BY DEF TypeOK, issuer, rows, bounds
<1>3. Shape'
  BY <1>1 DEF Shape, Inside, Carrying
<1>4. Numbered'
  BY <1>1 DEF Numbered, Known, issuer, rows, bounds
<1>5. WornOut'
  BY <1>1 DEF WornOut, Refuses, issuer, TokenOf
<1>6. Deserved'
  BY <1>1 DEF Deserved, Usable, issuer, rows, GrantOf
<1>7. Unspent'
  <2>1. /\ store' = store /\ pending' = pending
        /\ \A c : Good(c)' <=> Good(c)
    BY DEF Good, GrantOf, issuer, rows
  <2>2. \A q \in Proc : Held(q) => Held(q)'
    BY <1>1, <2>1 DEF Held, GrantOf
  <2> QED
    BY <1>1, <2>1, <2>2 DEF Unspent
<1> QED
  BY <1>2, <1>3, <1>4, <1>5, <1>6, <1>7

LEMMA PostInv == ASSUME IInv, NEW p \in Proc, Post(p) PROVE IInv'
<1> USE DEF At
<1> DEFINE c == w[p].cred
<1>1. /\ w[p].pc = "post" /\ holder = p /\ pending = NoPair
      /\ \A q \in Proc : q # p => w[q].pc \notin Inside
  BY DEF IInv, Post, Shape, Inside
<1>2. c \in Pair /\ Known(c) /\ Good(c) /\ w[p] \in Job
  BY <1>1 DEF IInv, TypeOK, Job, Shape, Carrying, Numbered, Unspent
<1>3. UNCHANGED <<revoked, rows, pending, bounds, lost>>
  BY DEF Post
<1>4. ASSUME Usable(GrantOf(c)), issued[c.login] < MaxIssued, NEW n \in Exchanged(c),
             w' = [w EXCEPT ![p].pc = "answer", ![p].next = n],
             issued' = [issued EXCEPT ![c.login] = n.acc],
             aged' = aged \ {c.login},
             spent' = IF n.ref = c.ref THEN spent ELSE spent \cup {GrantOf(c)},
             UNCHANGED <<cooling, holder>>
      PROVE  IInv'
  <2> DEFINE job == [w[p] EXCEPT !.pc = "answer", !.next = n]
             k == issued[c.login] + 1
  <2>1. /\ c.login \in Login /\ c.ref \in 0..MaxIssued /\ issued \in [Login -> 0..MaxIssued]
        /\ k \in 0..MaxIssued /\ c.ref < k /\ c.acc < k /\ c.login <= logins
    BY <1>2, <1>4, CodexRefreshAssumption DEF IInv, TypeOK, Pair, Known
  <2>2. n \in Pair /\ n.login = c.login /\ n.acc = k /\ n.ref \in {c.ref, k}
    BY <1>2, <1>4, <2>1 DEF Exchanged, Pair
  <2>3. /\ job \in Job /\ job.pc = "answer" /\ job.saw = w[p].saw
        /\ job.cred = c /\ job.next = n
    BY <1>2, <2>2 DEF Job
  <2>4. w' = [w EXCEPT ![p] = job]
    BY <1>4 DEF IInv, TypeOK
  <2> HIDE DEF job
  <2>5. w'[p] = job /\ \A q \in Proc : q # p => w'[q] = w[q]
    BY <2>4 DEF IInv, TypeOK
  <2>6. /\ issued' \in [Login -> 0..MaxIssued] /\ issued'[c.login] = k
        /\ \A l \in Login : l # c.login => issued'[l] = issued[l]
    BY <1>4, <2>1, <2>2
  <2> HIDE DEF k
  <2>7. TypeOK'
    <3>1. spent' \subseteq Grant
      BY <1>2, <1>4, PairParts DEF IInv, TypeOK
    <3> QED
      BY <1>3, <1>4, <2>3, <2>4, <2>6, <3>1, ZenonT(60) DEF IInv, TypeOK, rows, bounds
  <2>8. Shape'
    <3>1. w[p].saw # NoToken /\ c # NoPair /\ n # NoPair
      BY <1>1, <1>2, <2>2, PairParts DEF IInv, Shape
    <3>2. \A q \in Proc : w[q].pc \notin {"idle", "token"} => w[q].saw # NoToken
      BY DEF IInv, Shape
    <3>3. holder' = p /\ pending' = NoPair
      BY <1>1, <1>3, <1>4
    <3> QED
      BY <1>1, <2>3, <2>5, <3>1, <3>2, <3>3 DEF Shape, Inside, Carrying
  <2>9. \A l \in Login : issued[l] <= issued'[l] /\ issued[l] \in Nat /\ issued'[l] \in Nat
    BY <2>1, <2>6 DEF k
  <2>10. Numbered'
    <3>1. \A d \in Pair : Known(d) => Known(d)'
      BY <1>3, <2>9, CodexRefreshAssumption DEF Known, bounds, Pair
    <3>2. Known(n)'
      BY <1>3, <2>1, <2>2, <2>6, CodexRefreshAssumption DEF Known, bounds, Pair
    <3>3. \A q \in Proc : w[q].saw # NoToken => w[q].saw.acc <= issued'[w[q].saw.login]
      <4> SUFFICES ASSUME NEW q \in Proc, w[q].saw # NoToken
                   PROVE  w[q].saw.acc <= issued'[w[q].saw.login]
        OBVIOUS
      <4>1. w[q].saw \in Token
        BY DEF IInv, TypeOK, Job
      <4>2. w[q].saw.login \in Login /\ w[q].saw.acc \in Nat /\ w[q].saw.acc <= issued[w[q].saw.login]
        BY <4>1 DEF Token, IInv, Numbered
      <4> QED
        BY <2>9, <4>2
    <3>4. \A g \in spent' : g.login <= logins /\ g.ref <= issued'[g.login]
      <4>1. \A g \in spent : g.login <= logins /\ g.ref <= issued'[g.login]
        <5> SUFFICES ASSUME NEW g \in spent PROVE g.login <= logins /\ g.ref <= issued'[g.login]
          OBVIOUS
        <5>1. g.login \in Login /\ g.ref \in Nat /\ g.login <= logins /\ g.ref <= issued[g.login]
          BY DEF IInv, TypeOK, Grant, Numbered
        <5> QED
          BY <2>9, <5>1
      <4>2. GrantOf(c).login <= logins /\ GrantOf(c).ref <= issued'[GrantOf(c).login]
        BY <1>2, <2>1, <2>6, PairParts, CodexRefreshAssumption DEF k
      <4> QED
        BY <1>4, <4>1, <4>2
    <3>5. \A q \in Proc : /\ w[q].cred # NoPair => w[q].cred \in Pair /\ Known(w[q].cred)
                          /\ w[q].next # NoPair => w[q].next \in Pair /\ Known(w[q].next)
      BY DEF IInv, TypeOK, Job, Numbered
    <3>6. store # NoPair => store \in Pair /\ Known(store)
      BY DEF IInv, TypeOK, Numbered
    <3>7. logins' = logins /\ store' = store /\ pending' = NoPair
      BY <1>1, <1>3 DEF bounds, rows
    <3> QED
      BY <1>2, <2>3, <2>5, <3>1, <3>2, <3>3, <3>4, <3>5, <3>6, <3>7 DEF Numbered
  <2>11. WornOut'
    <3> SUFFICES ASSUME NEW q \in Proc, w[q].pc \in {"wait", "flush", "read"}, q # p
                 PROVE  Refuses(w[q].saw)'
      BY <1>1, <2>3, <2>5 DEF WornOut, Inside
    <3>1. w[q].saw \in Token /\ Refuses(w[q].saw) /\ w[q].saw.acc <= issued[w[q].saw.login]
      BY DEF IInv, TypeOK, Job, Shape, WornOut, Numbered
    <3>2. w[q].saw.login \in Login /\ w[q].saw.acc \in Nat
      BY <3>1 DEF Token
    <3>3. CASE w[q].saw.login = c.login
      BY <2>1, <2>5, <2>6, <3>1, <3>2, <3>3 DEF Refuses, k
    <3>4. CASE w[q].saw.login # c.login
      <4>1. /\ w'[q] = w[q] /\ issued'[w[q].saw.login] = issued[w[q].saw.login]
            /\ w[q].saw.login \in aged \cup revoked => w[q].saw.login \in aged' \cup revoked'
        BY <1>3, <1>4, <2>5, <2>6, <3>2, <3>4
      <4> QED
        BY <3>1, <4>1 DEF Refuses
    <3> QED
      BY <3>3, <3>4
  <2>12. Deserved'
    <3>1. \A g : ~Usable(g) => ~Usable(g)'
      BY <1>3, <1>4 DEF Usable
    <3> QED
      BY <1>1, <1>3, <2>3, <2>5, <3>1 DEF IInv, Deserved, Inside, rows
  <2>13. Unspent'
    <3>1. \A d \in Pair : GrantOf(d) # GrantOf(c) => (Good(d) => Good(d)')
      BY <1>3, <1>4 DEF Good, GrantOf
    <3>2. Good(n)'
      <4>1. CASE n.ref = c.ref
        BY <1>4, <2>2, <4>1 DEF Good, GrantOf, Usable
      <4>2. CASE n.ref = k
        <5>1. GrantOf(n) \notin spent
          BY <2>1, <2>2, <4>2, PairParts DEF IInv, Numbered, k
        <5>2. GrantOf(n) # GrantOf(c)
          BY <1>2, <2>1, <2>2, <4>2, PairParts
        <5> QED
          BY <1>4, <5>1, <5>2 DEF Good, GrantOf
      <4> QED
        BY <2>2, <4>1, <4>2
    <3>3. store' = store /\ pending' = NoPair
      BY <1>1, <1>3 DEF rows
    <3>4. store = NoPair \/ Good(store)' \/ Held(p)'
      <4>1. store # NoPair => store \in Pair /\ Good(store)
        BY <1>1 DEF IInv, TypeOK, Unspent, Held, Inside
      <4> QED
        BY <2>3, <2>5, <3>1, <3>3, <4>1 DEF Held, GrantOf
    <3> QED
      BY <1>1, <2>3, <2>5, <3>2, <3>3, <3>4 DEF Unspent, Inside
  <2> QED
    BY <2>7, <2>8, <2>10, <2>11, <2>12, <2>13 DEF IInv
<1>5. ASSUME ~Usable(GrantOf(c)), Goto(p, "denied"),
             UNCHANGED <<issued, spent, aged, cooling, holder>>
      PROVE  IInv'
  <2> DEFINE job == [w[p] EXCEPT !.pc = "denied"]
  <2>1. /\ job \in Job /\ job.pc = "denied" /\ job.saw = w[p].saw
        /\ job.cred = c /\ job.next = w[p].next
    BY <1>2 DEF Job
  <2>2. w' = [w EXCEPT ![p] = job]
    BY <1>5 DEF Goto
  <2> HIDE DEF job
  <2>4. UNCHANGED <<issuer, rows, memory, bounds, lost>>
    BY <1>3, <1>5 DEF issuer, memory
  <2> QED
    BY <1>1, <1>5, <2>1, <2>2, <2>4, Advances DEF memory, IInv, TypeOK
<1>6. CASE cooling' = TRUE /\ Returned(p) /\ UNCHANGED <<issued, spent, aged>>
  <2>1. TypeOK'
    BY <1>1, <1>3, <1>6, ReturnTypeOK DEF Inside, IInv, TypeOK, issuer, rows, bounds
  <2>2. ~Held(p)
    BY <1>1 DEF Held
  <2> QED
    BY <1>1, <1>3, <1>6, <2>1, <2>2, ReturnsNothing DEF Inside, bounds, issuer
<1> QED
  BY <1>4, <1>5, <1>6 DEF Post

LEMMA LossIsRecorded ==
    ASSUME NEW c \in Pair, Lost(c), lost \subseteq Grant
    PROVE  /\ lost' \subseteq Grant /\ lost \subseteq lost'
           /\ GrantOf(c) \in spent => GrantOf(c) \in lost'
<1>1. GrantOf(c) \in Grant /\ c # NoPair
  BY PairParts, CodexRefreshAssumption
<1> QED
  BY <1>1 DEF Lost

LEMMA AnswerInv == ASSUME IInv, NEW p \in Proc, Answer(p) PROVE IInv'
<1> USE DEF At
<1>1. /\ w[p].pc = "answer" /\ w[p] \in Job /\ pending = NoPair
      /\ w[p].cred \in Pair /\ lost \subseteq Grant
  BY DEF IInv, Answer, TypeOK, Shape, Inside, Carrying, Job
<1>2. UNCHANGED <<issuer, rows, pending, logins>>
  BY DEF Answer
<1>3. CASE Goto(p, "save") /\ UNCHANGED <<cooling, holder, faults, lost>>
  <2> DEFINE job == [w[p] EXCEPT !.pc = "save"]
  <2>1. /\ job \in Job /\ job.pc = "save" /\ job.saw = w[p].saw
        /\ job.cred = w[p].cred /\ job.next = w[p].next
    BY <1>1 DEF Job
  <2>2. w' = [w EXCEPT ![p] = job]
    BY <1>3 DEF Goto
  <2> HIDE DEF job
  <2> QED
    BY <1>1, <1>2, <1>3, <2>1, <2>2, Advances DEF IInv, TypeOK, bounds
<1>4. ASSUME Lost(w[p].cred), cooling' = TRUE, Returned(p),
             faults' \in 0..MaxFaults
      PROVE  IInv'
  <2> HIDE DEF IInv
  <2>1. /\ lost' \subseteq Grant /\ lost \subseteq lost'
        /\ GrantOf(w[p].cred) \in spent => GrantOf(w[p].cred) \in lost'
    BY <1>1, <1>4, LossIsRecorded
  <2>2. TypeOK'
    BY <1>1, <1>2, <1>4, <2>1, ReturnTypeOK DEF Inside, rows, IInv, TypeOK
  <2>3. Held(p) => Good(store)'
    BY <1>2, <2>1 DEF Held, Good, GrantOf, issuer, rows
  <2> QED
    BY <1>1, <1>2, <1>4, <2>1, <2>2, <2>3, ReturnsNothing DEF Inside
<1>5. faults \in 0..MaxFaults /\ (Fault => faults' \in 0..MaxFaults)
  BY CodexRefreshAssumption DEF IInv, TypeOK, Fault
<1> QED
  BY <1>3, <1>4, <1>5 DEF Answer

LEMMA DeniedInv == ASSUME IInv, NEW p \in Proc, Denied(p) PROVE IInv'
<1> USE DEF At
<1>1. w[p].pc = "denied" /\ w[p] \in Job /\ ~Usable(GrantOf(w[p].cred))
  BY DEF IInv, Denied, TypeOK, Deserved
<1>2. UNCHANGED <<issuer, rows, pending, bounds, lost>> /\ cooling' = TRUE
  BY DEF Denied
<1>3. CASE Goto(p, "mark") /\ UNCHANGED holder
  <2> DEFINE job == [w[p] EXCEPT !.pc = "mark"]
  <2>1. /\ job \in Job /\ job.pc = "mark" /\ job.saw = w[p].saw
        /\ job.cred = w[p].cred /\ job.next = w[p].next
    BY <1>1 DEF Job
  <2>2. w' = [w EXCEPT ![p] = job]
    BY <1>3 DEF Goto
  <2> HIDE DEF job
  <2> QED
    BY <1>1, <1>2, <1>3, <2>1, <2>2, Advances
<1>4. CASE Returned(p)
  <2>1. TypeOK'
    BY <1>1, <1>2, <1>4, ReturnTypeOK DEF Inside, IInv, TypeOK, rows, bounds
  <2>2. ~Held(p)
    BY <1>1 DEF Held
  <2> QED
    BY <1>1, <1>2, <1>4, <2>1, <2>2, ReturnsNothing DEF Inside, bounds
<1> QED
  BY <1>3, <1>4 DEF Denied

LEMMA SaveInv == ASSUME IInv, NEW p \in Proc, Save(p) PROVE IInv'
<1> USE DEF At
<1> DEFINE n == w[p].next
<1>1. /\ w[p].pc = "save" /\ w[p] \in Job /\ pending = NoPair /\ w[p].saw # NoToken
      /\ w[p].cred \in Pair /\ n \in Pair /\ Known(n) /\ Good(n)
      /\ lost \subseteq Grant
  BY DEF IInv, Save, TypeOK, Shape, Inside, Carrying, Job, Numbered, Unspent
<1>2. UNCHANGED <<issuer, mark, cooling, logins>>
  BY DEF Save
<1>3. faults \in 0..MaxFaults /\ (Fault => faults' \in 0..MaxFaults)
  BY CodexRefreshAssumption DEF IInv, TypeOK, Fault
<1>4. ASSUME Settled(p, TRUE, n), UNCHANGED <<faults, lost>>,
             \/ store' = n /\ pending' = pending
             \/ pending' = n /\ store' = store
      PROVE  IInv'
  <2>1. After(p, TRUE, n) \in Job
    BY <1>1, AfterGood DEF Left
  <2>2. TypeOK'
    BY <1>1, <1>2, <1>4, <2>1 DEF IInv, TypeOK, Settled, issuer
  <2> QED
    BY <1>1, <1>2, <1>4, <2>2, ReturnsPair DEF Inside
<1>5. CASE store = NoPair /\ Returned(p) /\ UNCHANGED <<store, pending, faults, lost>>
  <2>1. TypeOK'
    BY <1>1, <1>2, <1>3, <1>5, ReturnTypeOK DEF Inside, IInv, TypeOK
  <2> QED
    BY <1>1, <1>2, <1>5, <2>1, ReturnsNothing DEF Inside, rows
<1>6. CASE Fault /\ Lost(w[p].cred) /\ Returned(p) /\ UNCHANGED <<store, pending>>
  <2>1. /\ lost' \subseteq Grant /\ lost \subseteq lost'
        /\ GrantOf(w[p].cred) \in spent => GrantOf(w[p].cred) \in lost'
    BY <1>1, <1>6, LossIsRecorded
  <2>2. TypeOK'
    BY <1>1, <1>2, <1>3, <1>6, <2>1, ReturnTypeOK DEF Inside, IInv, TypeOK
  <2>3. Held(p) => Good(store)'
    BY <1>2, <1>6, <2>1 DEF Held, Good, GrantOf, issuer
  <2> QED
    BY <1>1, <1>2, <1>6, <2>1, <2>2, <2>3, ReturnsNothing DEF Inside, rows
<1> QED
  BY <1>4, <1>5, <1>6 DEF Save

LEMMA MarkInv == ASSUME IInv, NEW p \in Proc, Mark(p) PROVE IInv'
<1> USE DEF At
<1> DEFINE job == After(p, FALSE, NoPair)
<1>1. /\ w[p].pc = "mark" /\ w[p] \in Job /\ w[p].cred \in Pair /\ w[p].saw # NoToken
      /\ ~Usable(GrantOf(w[p].cred)) /\ pending = NoPair
  BY DEF IInv, Mark, TypeOK, Shape, Inside, Carrying, Job, Deserved
<1>2. UNCHANGED <<issuer, store, pending, cooling, bounds, lost>> /\ Returned(p)
  BY DEF Mark
<1>3. mark' \in {mark, GrantOf(w[p].cred)}
  BY DEF Mark
<1>4. TypeOK'
  <2>1. mark' \in Grant \cup {NoMark}
    BY <1>1, <1>3, PairParts DEF IInv, TypeOK
  <2> QED
    BY <1>1, <1>2, <2>1, ReturnTypeOK DEF Inside, IInv, TypeOK, bounds
<1>5. Left(job) /\ job.saw \in {NoToken, w[p].saw}
  BY <1>1, AfterNothing
<1>6. job.saw # NoToken => job.saw.acc <= issued[job.saw.login]
  BY <1>5 DEF IInv, Numbered
<1>7. mark' # NoMark => ~Usable(mark')
  BY <1>1, <1>3 DEF IInv, Deserved
<1>8. store' # NoPair => Known(store')
  BY <1>2 DEF IInv, Numbered
<1>9. store' = NoPair \/ Good(store)'
  <2>1. \A q \in Proc : ~Held(q)
    BY <1>1 DEF IInv, Shape, Held, Inside
  <2> QED
    BY <1>1, <1>2, <2>1 DEF IInv, Unspent, Good, GrantOf, issuer
<1> HIDE DEF job
<1> QED
  BY <1>1, <1>2, <1>4, <1>5, <1>6, <1>7, <1>8, <1>9, Returns
     DEF Inside, bounds, Returned, Settled, job

-----------------------------------------------------------------------------
(* The user, time and faults *)

LEMMA AddCodexInv == ASSUME IInv, AddCodex PROVE IInv'
<1> USE DEF IInv
<1>1. logins \in Login /\ logins + 1 \in Login /\ logins' = logins + 1 /\ logins \in Nat
  BY CodexRefreshAssumption DEF AddCodex, TypeOK, Login
<1>2. /\ First(logins + 1) \in Pair /\ store' = First(logins + 1)
      /\ First(logins + 1).login = logins + 1 /\ First(logins + 1).ref = 0 /\ First(logins + 1).acc = 0
  BY <1>1, CodexRefreshAssumption DEF First, Pair, AddCodex
<1>3. UNCHANGED <<issuer, memory, w, faults, lost>> /\ mark' = NoMark
  BY DEF AddCodex
<1>4. TypeOK'
  BY <1>1, <1>2, <1>3 DEF TypeOK, issuer, memory
<1>5. Shape'
  BY <1>3 DEF Shape, Inside, Carrying, memory
<1>6. Numbered'
  <2>1. \A c \in Pair : Known(c) => Known(c)'
    BY <1>1, <1>3, CodexRefreshAssumption DEF Known, issuer, Pair, Login
  <2>2. Known(store)'
    <3>1. issued[logins + 1] \in Nat
      BY <1>1 DEF TypeOK
    <3> QED
      BY <1>1, <1>2, <1>3, <3>1 DEF Known, issuer
  <2>3. \A p \in Proc : w[p].cred \in Pair \cup {NoPair} /\ w[p].next \in Pair \cup {NoPair}
    BY DEF TypeOK, Job
  <2>4. pending \in Pair \cup {NoPair} /\ pending' = pending /\ w' = w
    BY <1>3 DEF TypeOK, memory
  <2>5. \A g \in spent' : g.login <= logins' /\ g.ref <= issued'[g.login]
    <3> SUFFICES ASSUME NEW g \in spent PROVE g.login <= logins + 1 /\ g.ref <= issued[g.login]
      BY <1>1, <1>3 DEF issuer
    <3>1. g.login \in Nat /\ g.login <= logins /\ g.ref <= issued[g.login]
      BY DEF TypeOK, Numbered, Grant, Login
    <3> QED
      BY <1>1, <3>1
  <2>6. \A p \in Proc : w[p].saw # NoToken => w[p].saw.acc <= issued'[w[p].saw.login]
    BY <1>3 DEF Numbered, issuer
  <2> QED
    BY <2>1, <2>2, <2>3, <2>4, <2>5, <2>6 DEF Numbered
<1>7. WornOut'
  BY <1>3 DEF WornOut, Refuses, issuer, TokenOf
<1>8. Deserved'
  BY <1>3 DEF Deserved, Usable, issuer, GrantOf
<1>9. Unspent'
  <2>1. \A c : Good(c)' <=> Good(c)
    BY <1>3 DEF Good, GrantOf, issuer
  <2>2. GrantOf(store)' \notin spent'
    BY <1>1, <1>2, <1>3, PairParts DEF Numbered, issuer, GrantOf
  <2>3. Good(store)'
    BY <2>2 DEF Good
  <2> QED
    BY <1>3, <2>1, <2>3 DEF Unspent, memory
<1> QED
  BY <1>4, <1>5, <1>6, <1>7, <1>8, <1>9

LEMMA RemoveInv == ASSUME IInv, Remove PROVE IInv'
<1> USE DEF IInv
<1>1. UNCHANGED <<issuer, memory, w, bounds, lost>> /\ mark' = NoMark /\ store' = NoPair
  BY DEF Remove
<1>2. TypeOK'
  BY <1>1 DEF TypeOK, issuer, memory, bounds
<1>3. Shape'
  BY <1>1 DEF Shape, Inside, Carrying, memory
<1>4. Numbered'
  BY <1>1 DEF Numbered, Known, issuer, memory, bounds
<1>5. WornOut'
  BY <1>1 DEF WornOut, Refuses, issuer, TokenOf
<1>6. Deserved'
  BY <1>1 DEF Deserved, Usable, issuer, GrantOf
<1>7. Unspent'
  <2>1. \A c : Good(c)' <=> Good(c)
    BY <1>1 DEF Good, GrantOf, issuer
  <2> QED
    BY <1>1, <2>1 DEF Unspent, memory
<1> QED
  BY <1>2, <1>3, <1>4, <1>5, <1>6, <1>7

\* What the issuer withdraws and what time wears out stays so.
LEMMA WearInv ==
    ASSUME IInv, revoked \subseteq revoked', aged \subseteq aged',
           revoked' \subseteq Login, aged' \subseteq Login, cooling' \in BOOLEAN,
           UNCHANGED <<issued, spent, rows, pending, holder, w, bounds, lost>>
    PROVE  IInv'
<1> USE DEF IInv
<1>1. TypeOK'
  BY DEF TypeOK, rows, bounds
<1>2. Shape'
  BY DEF Shape, Inside, Carrying
<1>3. Numbered'
  BY DEF Numbered, Known, rows, bounds
<1>4. WornOut'
  BY DEF WornOut, Refuses, TokenOf
<1>5. Deserved'
  BY DEF Deserved, Usable, rows, GrantOf
<1>6. Unspent'
  <2>1. (\A c : Good(c)' <=> Good(c)) /\ (\A p \in Proc : Held(p)' <=> Held(p))
    BY DEF Good, Held, GrantOf, rows
  <2> QED
    BY <2>1 DEF Unspent, rows
<1> QED
  BY <1>1, <1>2, <1>3, <1>4, <1>5, <1>6

LEMMA RestartInv == ASSUME IInv, Restart PROVE IInv'
<1> USE DEF IInv
<1>1. /\ UNCHANGED <<issuer, rows, logins>>
      /\ pending' = NoPair /\ cooling' = FALSE /\ holder' = NoProc
      /\ w' = [p \in Proc |-> Idle]
  BY DEF Restart
<1>2. \A p \in Proc : /\ w'[p].pc = "idle" /\ w'[p].cred = NoPair
                      /\ w'[p].next = NoPair /\ w'[p].saw = NoToken
  BY <1>1 DEF Idle
<1>3. /\ lost' \subseteq Grant /\ lost \subseteq lost'
      /\ store # NoPair /\ GrantOf(store) \in spent => GrantOf(store) \in lost'
  <2>1. CASE store # NoPair
    BY <2>1, LossIsRecorded DEF Restart, TypeOK
  <2>2. CASE store = NoPair
    BY <2>2 DEF Restart, Lost, TypeOK
  <2> QED
    BY <2>1, <2>2
<1>4. TypeOK'
  <2>1. faults' \in 0..MaxFaults
    BY CodexRefreshAssumption DEF Restart, Fault, TypeOK
  <2> QED
    BY <1>1, <1>3, <2>1, IdleType DEF TypeOK, issuer, rows
<1>5. Shape'
  BY <1>1, <1>2, CodexRefreshAssumption DEF Shape, Inside, Carrying
<1>6. Numbered'
  BY <1>1, <1>2 DEF Numbered, Known, issuer, rows
<1>7. WornOut'
  BY <1>2 DEF WornOut
<1>8. Deserved'
  BY <1>1, <1>2 DEF Deserved, Usable, issuer, rows
<1>9. Unspent'
  BY <1>1, <1>2, <1>3 DEF Unspent, Good, GrantOf, issuer, rows
<1> QED
  BY <1>4, <1>5, <1>6, <1>7, <1>8, <1>9

-----------------------------------------------------------------------------
(* The theorems *)

LEMMA InvNext == IInv /\ [Next]_vars => IInv'
<1> SUFFICES ASSUME IInv, [Next]_vars PROVE IInv'
  OBVIOUS
<1>1. ASSUME NEW p \in Proc, Dispatch(p) \/ Send(p) \/ Step(p) PROVE IInv'
  BY <1>1, CallerInv, LockInv, FlushInv, ReadInv, PostInv, AnswerInv, DeniedInv, SaveInv, MarkInv
     DEF Step, Refresher
<1>2. CASE AddCodex
  BY <1>2, AddCodexInv
<1>3. CASE Remove
  BY <1>3, RemoveInv
<1>4. CASE CoolDown
  BY <1>4, WearInv DEF CoolDown, IInv, TypeOK, issuer
<1>5. CASE Restart
  BY <1>5, RestartInv
<1>6. ASSUME NEW l \in Login, Revoke(l) PROVE IInv'
  BY <1>6, WearInv DEF Revoke, IInv, TypeOK, memory
<1>7. ASSUME NEW l \in Login, Age(l) PROVE IInv'
  BY <1>7, WearInv DEF Age, IInv, TypeOK, memory
<1>8. CASE UNCHANGED vars
  BY <1>8, WearInv DEF vars, IInv, TypeOK, memory, issuer
<1> QED
  BY <1>1, <1>2, <1>3, <1>4, <1>5, <1>6, <1>7, <1>8 DEF Next

\* The inductive invariant holds of every behaviour.
THEOREM CodexInvariant == Spec => []IInv
BY InvInit, InvNext, PTL DEF Spec

\* Type correctness of the refresher and its callers.
THEOREM CodexTypeOK == Spec => []TypeOK
<1>1. IInv => TypeOK
  BY DEF IInv
<1> QED
  BY <1>1, CodexInvariant, PTL

\* Reuse detection is never met except after a loss: Refresh presents no spent
\* refresh token, whoever calls it and whatever the user does meanwhile.
THEOREM CodexNeverReused == Spec => []NeverReused
<1>1. IInv => NeverReused
  BY DEF IInv, Unspent, Good, NeverReused, At
<1> QED
  BY <1>1, CodexInvariant, PTL

\* Callers that met the same 401 spend one grant between them.
THEOREM CodexNoNeedlessExchange == Spec => []NoNeedlessExchange
<1>1. IInv => NoNeedlessExchange
  BY DEF IInv, WornOut, NoNeedlessExchange, At
<1> QED
  BY <1>1, CodexInvariant, PTL

\* A late refusal never marks an account whose grant is usable.
THEOREM CodexMarkIsDeserved == Spec => []MarkIsDeserved
<1>1. IInv => MarkIsDeserved
  <2> SUFFICES ASSUME IInv, NeedsRelogin PROVE ~Usable(GrantOf(store))
    BY DEF MarkIsDeserved
  <2>1. store \in Pair /\ mark = GrantOf(store)
    BY DEF NeedsRelogin, IInv, TypeOK
  <2> QED
    BY <2>1, PairParts DEF IInv, Deserved
<1> QED
  BY <1>1, CodexInvariant, PTL
=============================================================================
