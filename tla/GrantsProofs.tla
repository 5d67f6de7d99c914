---------------------------- MODULE GrantsProofs ----------------------------
(***************************************************************************)
(* What is proved of Grants for every number of accounts, processes,       *)
(* generations, logins and faults.                                         *)
(***************************************************************************)
EXTENDS Grants, TLAPS

-----------------------------------------------------------------------------
(* Types *)

\* What each stop of a job has in hand.
Shape(j) ==
    /\ j.pc # "idle" => j.acct \in Acct
    /\ j.pc \in {"check", "post", "save", "lock", "adopt"} => j.rec \in Grant
    /\ j.pc \in {"adopt", "livepost", "livewrite", "livesave"} => j.cur \in Grant
    /\ j.pc \in {"save", "livewrite", "livesave"} => j.new \in Grant
    /\ j.pc \in {"oracle", "oracleadopt"} => j.seen \in Grant
    /\ j.pc = "oracleadopt" => j.seen.acct \in Acct
    /\ j.pc = "install" => j.creds \in Grant

ShapedJob == {j \in Job : Shape(j)}

Types == TypeOK /\ \A p \in Proc : Shape(w[p])

\* A switch's job as it moves on.
LEMMA SwitchMoves ==
    ASSUME NEW j \in Job, j.acct \in Acct
    PROVE  /\ [j EXCEPT !.pc = "creds", !.seen = NoGrant, !.foreign = TRUE] \in ShapedJob
           /\ \A a \in Acct :
                [j EXCEPT !.pc = "creds", !.seen = NoGrant, !.believed = a] \in ShapedJob
           /\ [j EXCEPT !.pc = "sync", !.creds = NoGrant] \in ShapedJob
           /\ [j EXCEPT !.pc = "sync"] \in ShapedJob
<1>1. [j EXCEPT !.pc = "creds", !.seen = NoGrant, !.foreign = TRUE] \in ShapedJob
  BY ZenonT(60) DEF Job, Steps, Pair, Shape, ShapedJob
<1>2. ASSUME NEW a \in Acct
      PROVE  [j EXCEPT !.pc = "creds", !.seen = NoGrant, !.believed = a] \in ShapedJob
  BY ZenonT(60) DEF Job, Steps, Pair, Shape, ShapedJob
<1>3. [j EXCEPT !.pc = "sync", !.creds = NoGrant] \in ShapedJob
  <2> DEFINE k == [j EXCEPT !.pc = "sync", !.creds = NoGrant]
  <2>1. k \in Job
    BY DEF Job, Steps, Pair
  <2>2. k.pc = "sync" /\ k.acct \in Acct
    BY DEF Job
  <2> QED
    BY <2>1, <2>2 DEF Shape, ShapedJob
<1>4. [j EXCEPT !.pc = "sync"] \in ShapedJob
  BY DEF Job, Steps, Shape, ShapedJob
<1> QED
  BY <1>1, <1>2, <1>3, <1>4

LEMMA IdleShaped == Idle \in ShapedJob
BY DEF Idle, Job, Steps, Pair, ShapedJob, Shape

LEMMA FreshType ==
    ASSUME TypeOK, NEW a \in Owner, minted[a] < MaxGen
    PROVE  Fresh(a) \in Grant /\ Fresh(a).acct = a /\ minted[a] + 1 \in 0..MaxGen
<1>1. minted[a] + 1 \in 0..MaxGen
  BY GrantsAssumption DEF TypeOK
<1> QED
  BY <1>1 DEF Fresh, Grant

LEMMA MintType ==
    ASSUME TypeOK, NEW g \in Grant, Mint(g)
    PROVE  /\ valid' \subseteq Grant /\ minted' \in [Owner -> 0..MaxGen]
           /\ Fresh(g.acct) \in Grant /\ Fresh(g.acct).acct = g.acct
<1>1. g.acct \in Owner /\ minted[g.acct] < MaxGen
  BY DEF Grant, Mint
<1> QED
  BY <1>1, FreshType DEF Mint, TypeOK

LEMMA ServedShaped ==
    ASSUME Types, NEW p \in Proc, ~At(p, "idle")
    PROVE  Served(p) \in ShapedJob
<1>1. w[p] \in Job /\ w[p].acct \in Acct
  BY DEF Types, TypeOK, Shape, At
<1>2. [w[p] EXCEPT !.pc = "reread", !.rec = NoGrant, !.cur = NoGrant, !.new = NoGrant] \in ShapedJob
  BY <1>1 DEF Job, Steps, Pair, ShapedJob, Shape
<1> QED
  BY <1>2, IdleShaped DEF Served

LEMMA BeyondShaped ==
    ASSUME Types, NEW p \in Proc, ~At(p, "idle"), NEW g \in Grant
    PROVE  Beyond(p, g) \in ShapedJob
<1>1. w[p] \in Job /\ w[p].acct \in Acct
  BY DEF Types, TypeOK, Shape, At
<1>2. [w[p] EXCEPT !.pc = "livepost", !.cur = g] \in ShapedJob
  BY <1>1, ZenonT(60) DEF Job, Steps, Pair, ShapedJob, Shape
<1> QED
  BY <1>2, ServedShaped, IdleShaped DEF Beyond

\* A step of p replaces its job by one with the right things in hand.
LEMMA JobStep ==
    ASSUME Types, NEW p \in Proc, NEW j \in ShapedJob, w' = [w EXCEPT ![p] = j]
    PROVE  /\ w' \in [Proc -> Job] /\ \A q \in Proc : Shape(w'[q])
           /\ w'[p] = j /\ \A q \in Proc \ {p} : w'[q] = w[q]
BY DEF Types, TypeOK, ShapedJob

LEMMA PollTypes ==
    ASSUME Types, NEW p \in Proc,
           \/ \E a \in Acct : StartPoll(p, a)
           \/ ReadStored(p) \/ CheckLive(p) \/ Post(p)
    PROVE  Types'
<1> USE GrantsAssumption
<1>0. w[p] \in Job /\ Shape(w[p]) /\ w \in [Proc -> Job]
  BY DEF Types, TypeOK
<1>1. ASSUME NEW a \in Acct, StartPoll(p, a)
      PROVE  Types'
  <2> DEFINE j == [Idle EXCEPT !.pc = "read", !.kind = "poll", !.acct = a]
  <2>1. j \in ShapedJob
    BY DEF Idle, Job, Steps, Pair, ShapedJob, Shape
  <2>2. w' = [w EXCEPT ![p] = j]
    BY <1>1 DEF StartPoll
  <2> HIDE DEF j
  <2> QED
    BY <1>1, <2>1, <2>2, JobStep DEF StartPoll, Types, TypeOK, server, files, engine, bounds, history
<1>2. CASE ReadStored(p)
  <2> DEFINE j == [w[p] EXCEPT !.pc = "check", !.rec = store[w[p].acct]]
  <2>0. w[p].acct \in Acct /\ store[w[p].acct] \in Grant
    BY <1>0, <1>2 DEF ReadStored, At, Types, TypeOK, Shape
  <2>1. j \in ShapedJob
    BY <1>0, <2>0, ZenonT(60) DEF Job, Steps, Pair, ShapedJob, Shape
  <2>2. w' = [w EXCEPT ![p] = j]
    BY <1>0, <1>2 DEF ReadStored
  <2> HIDE DEF j
  <2> QED
    BY <1>2, <2>1, <2>2, JobStep DEF ReadStored, Types, TypeOK, server, files, engine, bounds, history
<1>3. CASE CheckLive(p)
  <2>1. \A s \in {"lock", "post"} : [w[p] EXCEPT !.pc = s] \in ShapedJob
    BY <1>0, <1>3 DEF CheckLive, At, Job, Steps, ShapedJob, Shape
  <2>2. \E j \in ShapedJob : w' = [w EXCEPT ![p] = j]
    BY <1>0, <1>3, <2>1, ServedShaped, IdleShaped DEF CheckLive, At, Goto
  <2> QED
    BY <1>3, <2>2, JobStep DEF CheckLive, Types, TypeOK, server, files, engine, bounds, history
<1>4. CASE Post(p)
  <2>1. w[p].rec \in Grant /\ w[p].acct \in Acct
    BY <1>0, <1>4 DEF Post, At, Shape
  <2>2. \A g \in Grant : [w[p] EXCEPT !.pc = "save", !.new = g] \in ShapedJob
    BY <1>0, <2>1 DEF Job, Steps, Pair, ShapedJob, Shape
  <2>3. \E j \in ShapedJob : w' = [w EXCEPT ![p] = j]
    BY <1>0, <1>4, <2>1, <2>2, MintType, IdleShaped DEF Post, Done, Types
  <2>4. valid' \subseteq Grant /\ minted' \in [Owner -> 0..MaxGen]
    BY <1>4, <2>1, MintType DEF Post, Types, TypeOK
  <2>5. faults' \in 0..MaxFaults /\ quarantined' \subseteq Acct /\ forfeit' \subseteq Owner
    BY <1>4, <2>1 DEF Post, Types, TypeOK, Fault, Grant
  <2> QED
    BY <1>4, <2>3, <2>4, <2>5, JobStep DEF Post, Types, TypeOK, files
<1> QED
  BY <1>1, <1>2, <1>3, <1>4

LEMMA OvertakenType ==
    ASSUME Types, NEW x
    PROVE  Overtaken(x) \subseteq Acct /\ Reading \subseteq Acct
BY DEF Overtaken, Reading, Types, TypeOK, Shape

LEMMA RecordType ==
    ASSUME Types, NEW a \in Acct, NEW e, NEW g \in Grant,
           store' = WriteRecord(a, e, g) \/ store' = store
    PROVE  store' \in [Acct -> Grant]
BY DEF WriteRecord, Types, TypeOK

LEMMA SaveTypes ==
    ASSUME Types, NEW p \in Proc, Save(p) \/ LockRead(p) \/ Adopt(p)
    PROVE  Types'
<1> USE GrantsAssumption
<1>0. w[p] \in Job /\ Shape(w[p]) /\ w \in [Proc -> Job]
  BY DEF Types, TypeOK
<1>2. \A x : Overtaken(x) \subseteq Acct
  BY OvertakenType
<1>3. CASE Save(p)
  <2>1. w[p].rec \in Grant /\ w[p].new \in Grant /\ w[p].acct \in Acct
    BY <1>0, <1>3 DEF Save, At, Shape
  <2>2. \E j \in ShapedJob : w' = [w EXCEPT ![p] = j]
    BY <1>0, <1>3, ServedShaped, IdleShaped DEF Save, At, Done
  <2>3. store' \in [Acct -> Grant]
    <3>1. store' = WriteRecord(w[p].acct, w[p].rec, w[p].new) \/ store' = store
      BY <1>3 DEF Save
    <3> QED
      BY <2>1, <3>1, RecordType
  <2>4. raced' \subseteq Acct
    BY <1>2, <1>3 DEF Save, Types, TypeOK
  <2>5. faults' \in 0..MaxFaults /\ forfeit' \subseteq Owner
    BY <1>3, <2>1 DEF Save, Types, TypeOK, Fault, Grant
  <2> QED
    BY <1>3, <2>2, <2>3, <2>4, <2>5, JobStep DEF Save, Types, TypeOK, server, engine
<1>4. CASE LockRead(p)
  <2>1. \A g \in Grant : [w[p] EXCEPT !.pc = "adopt", !.cur = g] \in ShapedJob
    BY <1>0, <1>4 DEF LockRead, At, Job, Steps, Pair, ShapedJob, Shape
  <2>2. \E j \in ShapedJob : w' = [w EXCEPT ![p] = j]
    BY <1>0, <1>4, <2>1, BeyondShaped, IdleShaped DEF LockRead, At, Done, Shape
  <2> QED
    BY <1>4, <2>2, JobStep DEF LockRead, Types, TypeOK, server, files, engine, bounds, history
<1>5. CASE Adopt(p)
  <2>1. w[p].rec \in Grant /\ w[p].cur \in Grant /\ w[p].acct \in Acct
    BY <1>0, <1>5 DEF Adopt, At, Shape
  <2>2. \E j \in ShapedJob : w' = [w EXCEPT ![p] = j]
    BY <1>0, <1>5, <2>1, BeyondShaped, IdleShaped DEF Adopt, At, Done
  <2>3. store' \in [Acct -> Grant]
    <3>1. store' = WriteRecord(w[p].acct, w[p].rec, w[p].cur) \/ store' = store
      BY <1>5 DEF Adopt
    <3> QED
      BY <2>1, <3>1, RecordType
  <2>4. raced' \subseteq Acct
    BY <1>2, <1>5 DEF Adopt, history, Types, TypeOK
  <2>5. forfeit' \subseteq Owner
    BY <1>5, <2>1 DEF Adopt, history, Types, TypeOK, Grant
  <2> QED
    BY <1>5, <2>2, <2>3, <2>4, <2>5, JobStep DEF Adopt, Types, TypeOK, server, engine, bounds
<1> QED
  BY <1>3, <1>4, <1>5

LEMMA LiveTypes ==
    ASSUME Types, NEW p \in Proc, LivePost(p) \/ LiveWrite(p) \/ LiveSave(p)
    PROVE  Types'
<1> USE GrantsAssumption
<1>0. w[p] \in Job /\ Shape(w[p]) /\ w \in [Proc -> Job]
  BY DEF Types, TypeOK
<1>2. \A x : Overtaken(x) \subseteq Acct
  BY OvertakenType
<1>3. w[p].cur \in Grant /\ w[p].acct \in Acct
  BY <1>0 DEF LivePost, LiveWrite, LiveSave, At, Shape
<1>4. CASE LivePost(p)
  <2>1. \A g \in Grant : [w[p] EXCEPT !.pc = "livewrite", !.new = g] \in ShapedJob
    BY <1>0, <1>3 DEF Job, Steps, Pair, ShapedJob, Shape
  <2>2. \E j \in ShapedJob : w' = [w EXCEPT ![p] = j]
    BY <1>0, <1>3, <1>4, <2>1, MintType, ServedShaped DEF LivePost, At, Types
  <2>3. valid' \subseteq Grant /\ minted' \in [Owner -> 0..MaxGen]
    BY <1>3, <1>4, MintType DEF LivePost, Types, TypeOK
  <2>4. faults' \in 0..MaxFaults /\ forfeit' \subseteq Owner
    BY <1>3, <1>4 DEF LivePost, Types, TypeOK, Fault, Grant
  <2> QED
    BY <1>4, <2>2, <2>3, <2>4, JobStep DEF LivePost, Types, TypeOK, files, engine
<1>5. CASE LiveWrite(p)
  <2>1. w[p].new \in Grant /\ [w[p] EXCEPT !.pc = "livesave"] \in ShapedJob
    BY <1>0, <1>5 DEF LiveWrite, At, Job, Steps, ShapedJob, Shape
  <2>2. \E j \in ShapedJob : w' = [w EXCEPT ![p] = j]
    BY <1>0, <1>5, <2>1 DEF LiveWrite, Goto
  <2>3. live' \in Grant \cup {NoLogin, Blank}
    BY <1>5, <2>1 DEF LiveWrite, Types, TypeOK
  <2>4. faults' \in 0..MaxFaults /\ forfeit' \subseteq Owner /\ raced' \subseteq Acct
    BY <1>2, <1>5, <2>1 DEF LiveWrite, Types, TypeOK, Fault, Grant
  <2> QED
    BY <1>5, <2>2, <2>3, <2>4, JobStep DEF LiveWrite, Types, TypeOK, server, engine
<1>6. CASE LiveSave(p)
  <2>1. w[p].new \in Grant
    BY <1>0, <1>6 DEF LiveSave, At, Shape
  <2>2. \E j \in ShapedJob : w' = [w EXCEPT ![p] = j]
    BY <1>6, ServedShaped DEF LiveSave, At
  <2>3. store' \in [Acct -> Grant]
    <3>1. store' = WriteRecord(w[p].acct, w[p].cur, w[p].new) \/ store' = store
      BY <1>6 DEF LiveSave
    <3> QED
      BY <1>3, <2>1, <3>1, RecordType
  <2>4. faults' \in 0..MaxFaults /\ forfeit' \subseteq Owner /\ raced' \subseteq Acct
    BY <1>2, <1>6, <2>1 DEF LiveSave, Types, TypeOK, Fault, Grant
  <2> QED
    BY <1>6, <2>2, <2>3, <2>4, JobStep DEF LiveSave, Types, TypeOK, server, engine
<1> QED
  BY <1>4, <1>5, <1>6

LEMMA StartTypes ==
    ASSUME Types, NEW p \in Proc, NEW t \in Acct, StartAuto(p, t) \/ StartSwitch(p, t)
    PROVE  Types'
<1>1. ASSUME NEW s \in {"resolve", "creds"}, NEW k \in {"auto", "switch"},
             NEW o \in Acct \cup {NoAcct}, NEW force \in BOOLEAN
      PROVE  [Idle EXCEPT !.pc = s, !.kind = k, !.acct = t, !.believed = o, !.force = force] \in ShapedJob
  BY DEF Idle, Job, Steps, Pair, ShapedJob, Shape
<1>2. LiveOwner(live) \subseteq Acct \cup {NoAcct}
  BY DEF LiveOwner, StoredBy
<1>3. CASE StartAuto(p, t)
  <2>1. PICK o \in LiveOwner(live), s \in {"resolve", "creds"} :
          w' = [w EXCEPT ![p] = [Idle EXCEPT !.pc = s, !.kind = "auto", !.acct = t, !.believed = o]]
    BY <1>3 DEF StartAuto
  <2>2. [Idle EXCEPT !.pc = s, !.kind = "auto", !.acct = t, !.believed = o] \in ShapedJob
    BY <1>2 DEF Idle, Job, Steps, Pair, ShapedJob, Shape
  <2> QED
    BY <1>3, <2>1, <2>2, JobStep DEF StartAuto, Types, TypeOK, server, files, engine, bounds, history
<1>4. CASE StartSwitch(p, t)
  <2>1. PICK force \in BOOLEAN, o \in LiveOwner(live) :
          w' = [w EXCEPT ![p] = [Idle EXCEPT !.pc = "creds", !.kind = "switch", !.acct = t,
                                             !.believed = o, !.force = force]]
    BY <1>4 DEF StartSwitch
  <2>2. [Idle EXCEPT !.pc = "creds", !.kind = "switch", !.acct = t,
                     !.believed = o, !.force = force] \in ShapedJob
    BY <1>1, <1>2
  <2> QED
    BY <1>4, <2>1, <2>2, JobStep DEF StartSwitch, Types, TypeOK, server, files, engine, bounds, history
<1> QED
  BY <1>3, <1>4

LEMMA ResolveTypes ==
    ASSUME Types, NEW p \in Proc,
           ResolveLoad(p) \/ ResolveOwner(p) \/ ResolveAdopt(p) \/ ReadCreds(p) \/ ReRead(p)
    PROVE  Types'
<1>0. w[p] \in Job /\ Shape(w[p]) /\ w \in [Proc -> Job] /\ w[p].acct \in Acct
  BY DEF Types, TypeOK, Shape, ResolveLoad, ResolveOwner, ResolveAdopt, ReadCreds, ReRead, At
<1>1. CASE ResolveLoad(p)
  <2>1. \A g \in Grant : [w[p] EXCEPT !.pc = "oracle", !.seen = g] \in ShapedJob
    BY <1>0 DEF Job, Steps, Pair, ShapedJob, Shape
  <2>2. \E j \in ShapedJob : w' = [w EXCEPT ![p] = j]
    BY <1>0, <1>1, <2>1, IdleShaped DEF ResolveLoad, Done
  <2> QED
    BY <1>1, <2>2, JobStep DEF ResolveLoad, Types, TypeOK, server, files, engine, bounds, history
<1>2. CASE ResolveOwner(p)
  <2>1. w[p].pc = "oracle" /\ w[p].seen \in Grant
    BY <1>0, <1>2 DEF ResolveOwner, At, Shape
  <2>2. w[p].seen.acct \in Acct => [w[p] EXCEPT !.pc = "oracleadopt"] \in ShapedJob
    BY <1>0, <2>1 DEF Job, Steps, ShapedJob, Shape
  <2>3. [w[p] EXCEPT !.pc = "creds", !.seen = NoGrant, !.foreign = TRUE] \in ShapedJob
    BY <1>0, SwitchMoves
  <2>4. \E j \in ShapedJob : w' = [w EXCEPT ![p] = j]
    BY <1>0, <1>2, <2>2, <2>3, IdleShaped DEF ResolveOwner, Done, Goto
  <2> QED
    BY <1>2, <2>4, JobStep DEF ResolveOwner, Types, TypeOK, server, files, engine, bounds, history
<1>3. CASE ResolveAdopt(p)
  <2>1. w[p].seen \in Grant /\ w[p].seen.acct \in Acct
    BY <1>0, <1>3 DEF ResolveAdopt, At, Shape
  <2>2. [w[p] EXCEPT !.pc = "creds", !.seen = NoGrant, !.believed = w[p].seen.acct] \in ShapedJob
    BY <1>0, <2>1, SwitchMoves
  <2>3. \E j \in ShapedJob : w' = [w EXCEPT ![p] = j]
    BY <1>0, <1>3, <2>2, IdleShaped DEF ResolveAdopt, Resolved, Done
  <2>4. store' \in [Acct -> Grant]
    BY <1>3, <2>1 DEF ResolveAdopt, Resolved, Types, TypeOK
  <2>5. forfeit' \subseteq Owner
    BY <1>3, <2>1 DEF ResolveAdopt, Resolved, history, Types, TypeOK, Owner
  <2>6. raced' \subseteq Acct
    BY <1>3, OvertakenType DEF ResolveAdopt, history, Types, TypeOK
  <2> QED
    BY <1>3, <2>3, <2>4, <2>5, <2>6, JobStep DEF ResolveAdopt, Types, TypeOK, server, engine, bounds
<1>4. CASE ReadCreds(p) \/ ReRead(p)
  <2>1. \A g \in Grant : [w[p] EXCEPT !.pc = "install", !.creds = g] \in ShapedJob
    BY <1>0 DEF Job, Steps, Pair, ShapedJob, Shape
  <2>2. [w[p] EXCEPT !.pc = "read"] \in ShapedJob /\ store[w[p].acct] \in Grant
    BY <1>0 DEF Job, Steps, ShapedJob, Shape, Types, TypeOK
  <2>3. CASE ReadCreds(p)
    <3>1. w' = [w EXCEPT ![p] = [w[p] EXCEPT !.pc = "read"]]
          \/ w' = [w EXCEPT ![p] = [w[p] EXCEPT !.pc = "install", !.creds = store[w[p].acct]]]
      BY <1>0, <2>3 DEF ReadCreds
    <3> QED
      BY <1>4, <2>1, <2>2, <2>3, <3>1, JobStep
         DEF ReadCreds, Types, TypeOK, server, files, engine, bounds, history
  <2>4. CASE ReRead(p)
    <3>1. w' = [w EXCEPT ![p] = Idle]
          \/ w' = [w EXCEPT ![p] = [w[p] EXCEPT !.pc = "install", !.creds = store[w[p].acct]]]
      BY <1>0, <2>4 DEF ReRead
    <3> QED
      BY <1>4, <2>1, <2>2, <2>4, <3>1, IdleShaped, JobStep
         DEF ReRead, Types, TypeOK, server, files, engine, bounds, history
  <2> QED
    BY <1>4, <2>3, <2>4
<1> QED
  BY <1>1, <1>2, <1>3, <1>4

LEMMA InstallTypes ==
    ASSUME Types, NEW p \in Proc, Install(p) \/ Sync(p)
    PROVE  Types'
<1> USE GrantsAssumption
<1>0. w[p] \in Job /\ Shape(w[p]) /\ w \in [Proc -> Job] /\ w[p].acct \in Acct
  BY DEF Types, TypeOK, Shape, Install, Sync, At
<1>1. CASE Install(p)
  <2>1. w[p].creds \in Grant
    BY <1>0, <1>1 DEF Install, At, Shape
  <2>2. [w[p] EXCEPT !.pc = "sync", !.creds = NoGrant] \in ShapedJob /\ [w[p] EXCEPT !.pc = "sync"] \in ShapedJob
    BY <1>0, SwitchMoves
  <2>3. \E j \in ShapedJob : w' = [w EXCEPT ![p] = j]
    BY <1>0, <1>1, <2>2, IdleShaped DEF Install, Done, Goto
  <2>4. live' \in Grant \cup {NoLogin, Blank}
    BY <1>1, <2>1 DEF Install, Types, TypeOK
  <2>5. Unstored \subseteq Owner /\ Outdated(p) \subseteq Owner
    BY <1>0 DEF Unstored, Outdated, Owner
  <2>6. forfeit' \subseteq Owner /\ raced' \subseteq Acct
    BY <1>1, <2>5, OvertakenType DEF Install, history, Types, TypeOK
  <2> QED
    BY <1>1, <2>3, <2>4, <2>6, JobStep DEF Install, Types, TypeOK, server, engine, bounds
<1>2. CASE Sync(p)
  <2>1. cfg' \in Owner \cup {NoAcct} /\ faults' \in 0..MaxFaults
    BY <1>0, <1>2 DEF Sync, Owner, Fault, Types, TypeOK
  <2>3. cooling' \in BOOLEAN
    <3>1. cooling' = (cooling \/ w[p].creds # NoGrant) \/ cooling' = cooling
      BY <1>2 DEF Sync
    <3>2. cooling \in BOOLEAN
      BY DEF Types, TypeOK
    <3> QED
      BY <3>1, <3>2, Zenon
  <2>2. w' = [w EXCEPT ![p] = Idle]
    BY <1>2 DEF Sync, Done
  <2> QED
    BY <1>2, <2>1, <2>2, <2>3, IdleShaped, JobStep DEF Sync, Types, TypeOK, server, history
<1> QED
  BY <1>1, <1>2

LEMMA OutsideTypes ==
    ASSUME Types,
           \/ ClaudeRefresh \/ \E x \in Owner : Login(x)
           \/ \E a \in Acct : AddAgain(a)
           \/ \E g \in Grant : Age(g)
           \/ CoolDown
           \/ \E P \in SUBSET Proc : Crash(P)
    PROVE  Types'
<1> USE GrantsAssumption
<1>1. CASE ClaudeRefresh
  <2>1. live \in Grant
    BY <1>1 DEF ClaudeRefresh
  <2>2. valid' \subseteq Grant /\ minted' \in [Owner -> 0..MaxGen] /\ live' \in Grant \cup {NoLogin, Blank}
    BY <1>1, <2>1, MintType DEF ClaudeRefresh, Types, TypeOK
  <2>3. raced' \subseteq Acct
    BY <1>1, OvertakenType DEF ClaudeRefresh, Types, TypeOK
  <2> QED
    BY <1>1, <2>2, <2>3 DEF ClaudeRefresh, Types, TypeOK, engine, bounds
<1>2. ASSUME NEW x \in Owner, Issue(x)
      PROVE  Fresh(x) \in Grant /\ valid' \subseteq Grant /\ minted' \in [Owner -> 0..MaxGen]
  BY <1>2, FreshType DEF Issue, Types, TypeOK
<1>3. ASSUME NEW x \in Owner, Login(x)
      PROVE  Types'
  <2>1. Fresh(x) \in Grant /\ valid' \subseteq Grant /\ minted' \in [Owner -> 0..MaxGen]
    BY <1>2, <1>3 DEF Login
  <2>2. raced' \subseteq Acct /\ forfeit' \subseteq Owner /\ logins' \in 0..MaxLogins
    BY <1>3, OvertakenType DEF Login, ByHand, Unstored, Owner, Types, TypeOK
  <2> QED
    BY <1>3, <2>1, <2>2 DEF Login, Types, TypeOK, engine
<1>4. ASSUME NEW a \in Acct, AddAgain(a)
      PROVE  Types'
  <2>1. Fresh(a) \in Grant /\ valid' \subseteq Grant /\ minted' \in [Owner -> 0..MaxGen]
    BY <1>2, <1>4 DEF AddAgain, Owner
  <2>2. raced' \subseteq Acct /\ logins' \in 0..MaxLogins
    BY <1>4, OvertakenType DEF AddAgain, ByHand, Types, TypeOK
  <2> QED
    BY <1>4, <2>1, <2>2 DEF AddAgain, Types, TypeOK
<1>5. ASSUME NEW g \in Grant, Age(g)
      PROVE  Types'
  BY <1>5 DEF Age, Zone, files, engine, bounds, history, Types, TypeOK
<1>6. CASE CoolDown
  BY <1>6 DEF CoolDown, server, files, bounds, history, Types, TypeOK
<1>7. ASSUME NEW P \in SUBSET Proc, Crash(P)
      PROVE  Types'
  <2>1. w' \in [Proc -> Job] /\ \A q \in Proc : Shape(w'[q])
    BY <1>7, IdleShaped DEF Crash, ShapedJob, Types, TypeOK
  <2>2. {w[q].new.acct : q \in {q \in P : w[q].new # NoGrant}} \subseteq Owner
    BY DEF Types, TypeOK, Job, Pair, Grant
  <2>3. forfeit' \subseteq Owner /\ faults' \in 0..MaxFaults
    BY <1>7, <2>2 DEF Crash, Fault, Types, TypeOK
  <2> QED
    BY <1>7, <2>1, <2>3 DEF Crash, server, files, engine, Types, TypeOK
<1> QED
  BY <1>1, <1>3, <1>4, <1>5, <1>6, <1>7

LEMMA InitTypes == Init => Types
<1> SUFFICES ASSUME Init PROVE Types
  OBVIOUS
<1> USE GrantsAssumption DEF Init
<1>1. \A a \in Owner : First(a) \in Grant
  BY DEF First, Grant
<1>2. valid \subseteq Grant /\ store \in [Acct -> Grant] /\ live \in Grant \cup {NoLogin, Blank}
  BY <1>1 DEF Owner
<1>3. cfg \in Owner \cup {NoAcct}
  BY DEF First, Owner
<1>4. w \in [Proc -> Job] /\ \A p \in Proc : Shape(w[p])
  BY IdleShaped DEF ShapedJob
<1>5. valid \subseteq Grant /\ minted \in [Owner -> 0..MaxGen] /\ zone \in [Grant -> Zone]
  BY <1>1 DEF Zone
<1>6. logins \in 0..MaxLogins /\ faults \in 0..MaxFaults
  OBVIOUS
<1>7. /\ quarantined \subseteq Acct /\ cooling \in BOOLEAN
      /\ forfeit \subseteq Owner /\ raced \subseteq Acct
  OBVIOUS
<1> HIDE DEF Init
<1>8. TypeOK
  BY <1>2, <1>3, <1>4, <1>5, <1>6, <1>7 DEF TypeOK
<1> QED
  BY <1>4, <1>8 DEF Types

LEMMA TypesStep == Types /\ [Next]_vars => Types'
<1> SUFFICES ASSUME Types, [Next]_vars PROVE Types'
  OBVIOUS
<1>1. CASE UNCHANGED vars
  BY <1>1 DEF vars, server, files, engine, bounds, history, Types, TypeOK
<1>2. Daemon \subseteq Proc /\ \A p \in Cli \cup Human : {p} \subseteq Proc
  BY DEF Daemon, Proc
<1> QED
  BY <1>1, <1>2, PollTypes, SaveTypes, LiveTypes, StartTypes, ResolveTypes, InstallTypes, OutsideTypes
     DEF Next, AccessToken, Switch

-----------------------------------------------------------------------------
(* No cross-filing *)

\* What job j has in hand is its own account's, unless that account is raced;
\* between the identity check and the adoption, a login of another account is
\* one that account still stores, which is what adopt asks.
Kept(j) ==
    j.acct \notin raced =>
        /\ j.pc \in {"check", "post", "save", "lock", "adopt"} => j.rec.acct = j.acct
        /\ j.pc = "lock" /\ live \in Grant => live.acct = j.acct \/ StoredBy(live) \ {j.acct} # {}
        /\ j.pc = "adopt" => j.cur.acct = j.acct \/ StoredBy(j.cur) \ {j.acct} # {}
        /\ j.pc \in {"livepost", "livewrite", "livesave"} => j.cur.acct = j.acct
        /\ j.pc = "install" => j.creds.acct = j.acct

\* A minted pair is the account's whose grant was spent.
Minted(j) ==
    /\ j.pc = "save" => j.new.acct = j.rec.acct
    /\ j.pc \in {"livewrite", "livesave"} => j.new.acct = j.cur.acct

CustodyInv == Types /\ NeverCrossFiled /\ \A p \in Proc : Kept(w[p]) /\ Minted(w[p])

\* What a step may do beside a job that is between its check and its adoption.
Undisturbed(j) ==
    (j.pc \in {"lock", "adopt"} /\ j.acct \notin raced') =>
        /\ \A b \in Acct \ {j.acct} : store'[b] = store[b]
        /\ \/ live' = live \/ live' \notin Grant
           \/ live'.acct = j.acct \/ \E b \in Acct \ {j.acct} : store'[b] = live'

LEMMA KeptBeside ==
    ASSUME NEW q \in Proc, Kept(w[q]), Minted(w[q]), w'[q] = w[q], raced \subseteq raced',
           Undisturbed(w[q])
    PROVE  Kept(w[q])' /\ Minted(w[q])'
BY DEF Kept, Minted, Undisturbed, StoredBy

\* A step of p: its own job, the snapshots, and the jobs it runs beside.
LEMMA CustodyOf ==
    ASSUME CustodyInv, Types', NEW p \in Proc, \A q \in Proc \ {p} : w'[q] = w[q],
           raced \subseteq raced', NeverCrossFiled',
           Kept(w[p])', Minted(w[p])', \A q \in Proc \ {p} : Undisturbed(w[q])
    PROVE  CustodyInv'
BY KeptBeside DEF CustodyInv

\* One that leaves the snapshots and the file alone.
LEMMA CustodyQuietly ==
    ASSUME CustodyInv, Types', NEW p \in Proc, \A q \in Proc \ {p} : w'[q] = w[q],
           UNCHANGED <<store, live, raced>>, Kept(w[p])', Minted(w[p])'
    PROVE  CustodyInv'
<1>1. NeverCrossFiled'
  BY DEF CustodyInv, NeverCrossFiled
<1>2. \A q \in Proc : Undisturbed(w[q])
  BY DEF Undisturbed
<1> QED
  BY <1>1, <1>2, CustodyOf

\* Nothing has to be shown of a job at one of its other stops.
Elsewhere == {"idle", "read", "reread", "resolve", "oracle", "oracleadopt", "creds", "sync"}

LEMMA KeptElsewhere ==
    ASSUME NEW p \in Proc, w[p].pc' \in Elsewhere
    PROVE  Kept(w[p])' /\ Minted(w[p])'
BY DEF Kept, Minted, Elsewhere

LEMMA ElsewherePc ==
    ASSUME NEW j \in Job
    PROVE  /\ Idle.pc \in Elsewhere
           /\ \A g : [j EXCEPT !.pc = "oracle", !.seen = g].pc \in Elsewhere
           /\ [j EXCEPT !.pc = "oracleadopt"].pc \in Elsewhere
           /\ [j EXCEPT !.pc = "creds", !.seen = NoGrant, !.foreign = TRUE].pc \in Elsewhere
           /\ \A a : [j EXCEPT !.pc = "creds", !.seen = NoGrant, !.believed = a].pc \in Elsewhere
           /\ [j EXCEPT !.pc = "sync", !.creds = NoGrant].pc \in Elsewhere
           /\ [j EXCEPT !.pc = "sync"].pc \in Elsewhere
<1>1. Idle.pc \in Elsewhere
  BY DEF Idle, Elsewhere
<1>2. /\ \A g : [j EXCEPT !.pc = "oracle", !.seen = g].pc = "oracle"
      /\ [j EXCEPT !.pc = "oracleadopt"].pc = "oracleadopt"
      /\ [j EXCEPT !.pc = "creds", !.seen = NoGrant, !.foreign = TRUE].pc = "creds"
      /\ \A a : [j EXCEPT !.pc = "creds", !.seen = NoGrant, !.believed = a].pc = "creds"
      /\ [j EXCEPT !.pc = "sync", !.creds = NoGrant].pc = "sync"
      /\ [j EXCEPT !.pc = "sync"].pc = "sync"
  BY DEF Job
<1> QED
  BY <1>1, <1>2 DEF Elsewhere

LEMMA ServedElsewhere ==
    ASSUME Types, NEW p \in Proc
    PROVE  Served(p).pc \in Elsewhere
BY DEF Served, Idle, Elsewhere, Types, TypeOK, Job

LEMMA BeyondKept ==
    ASSUME Types, NEW p \in Proc, NEW g, w'[p] = Beyond(p, g), raced \subseteq raced',
           w[p].acct \notin raced => g.acct = w[p].acct
    PROVE  Kept(w[p])' /\ Minted(w[p])'
<1>1. w[p] \in Job
  BY DEF Types, TypeOK
<1>2. CASE w'[p] = Idle \/ w'[p] = Served(p)
  BY <1>2, ServedElsewhere, KeptElsewhere DEF Idle, Elsewhere
<1>3. CASE w'[p] = [w[p] EXCEPT !.pc = "livepost", !.cur = g]
  <2>1. w'[p].pc = "livepost" /\ w'[p].cur = g /\ w'[p].acct = w[p].acct
    BY <1>1, <1>3 DEF Job
  <2> QED
    BY <2>1 DEF Kept, Minted
<1> QED
  BY <1>2, <1>3 DEF Beyond

LEMMA OvertakenUndisturbed ==
    ASSUME NEW q \in Proc, NEW a, raced' = raced \cup Overtaken(a),
           \A b \in Acct \ {a} : store'[b] = store[b],
           \/ live' = live \/ live' \notin Grant
           \/ w[q].acct = a /\ a \notin raced' => live'.acct = a
    PROVE  Undisturbed(w[q])
<1>1. (w[q].pc \in {"lock", "adopt"} /\ w[q].acct \notin raced') => w[q].acct = a
  BY DEF Overtaken, Reading
<1> QED
  BY <1>1 DEF Undisturbed

LEMMA QuietCustody ==
    ASSUME CustodyInv, Types', NEW p \in Proc,
           \/ \E a \in Acct : StartPoll(p, a) \/ StartAuto(p, a) \/ StartSwitch(p, a)
           \/ ReadStored(p) \/ CheckLive(p) \/ Post(p) \/ LockRead(p) \/ LivePost(p)
           \/ ResolveLoad(p) \/ ResolveOwner(p) \/ ReadCreds(p) \/ ReRead(p) \/ Sync(p)
    PROVE  CustodyInv'
<1>0. w \in [Proc -> Job] /\ w[p] \in Job /\ Shape(w[p]) /\ Kept(w[p]) /\ Minted(w[p])
  BY DEF CustodyInv, Types, TypeOK
<1>1. Types /\ (w[p].acct \in Acct \ raced => store[w[p].acct].acct = w[p].acct)
  BY DEF CustodyInv, NeverCrossFiled
<1>2. UNCHANGED <<store, live, raced>>
  BY DEF StartPoll, StartAuto, StartSwitch, ReadStored, CheckLive, Post, LockRead, LivePost,
         ResolveLoad, ResolveOwner, ReadCreds, ReRead, Sync, files, history
<1>3. \A q \in Proc \ {p} : w'[q] = w[q]
  BY <1>0 DEF StartPoll, StartAuto, StartSwitch, ReadStored, CheckLive, Post, LockRead, LivePost,
              ResolveLoad, ResolveOwner, ReadCreds, ReRead, Sync, Done, Goto
<1>4. Kept(w[p])' /\ Minted(w[p])'
  <2>1. CASE (\E a \in Acct : StartPoll(p, a) \/ StartAuto(p, a) \/ StartSwitch(p, a))
             \/ ResolveLoad(p) \/ ResolveOwner(p) \/ Sync(p)
    <3>1. ASSUME NEW a \in Acct, StartPoll(p, a)
          PROVE  w'[p].pc \in Elsewhere
      BY <1>0, <3>1 DEF StartPoll, Idle, Elsewhere
    <3>2. ASSUME NEW a \in Acct, StartAuto(p, a)
          PROVE  w'[p].pc \in Elsewhere
      <4> DEFINE s == IF p \in Ticker /\ LiveState(live) = "unattributed" THEN "resolve" ELSE "creds"
      <4>1. s \in Elsewhere
        BY DEF Elsewhere
      <4> HIDE DEF s
      <4>2. PICK o \in LiveOwner(live) :
              w' = [w EXCEPT ![p] = [Idle EXCEPT !.pc = s, !.kind = "auto", !.acct = a, !.believed = o]]
        BY <3>2 DEF StartAuto, s
      <4>3. w'[p] = [Idle EXCEPT !.pc = s, !.kind = "auto", !.acct = a, !.believed = o]
        BY <1>0, <4>2
      <4> QED
        BY <4>1, <4>3 DEF Idle
    <3>3. ASSUME NEW a \in Acct, StartSwitch(p, a)
          PROVE  w'[p].pc \in Elsewhere
      BY <1>0, <3>3 DEF StartSwitch, Idle, Elsewhere
    <3>4. CASE ResolveLoad(p) \/ ResolveOwner(p)
      <4>1. \/ w'[p] = Idle
            \/ w'[p] = [w[p] EXCEPT !.pc = "oracle", !.seen = live]
            \/ w'[p] = [w[p] EXCEPT !.pc = "oracleadopt"]
            \/ w'[p] = [w[p] EXCEPT !.pc = "creds", !.seen = NoGrant, !.foreign = TRUE]
        BY <1>0, <3>4 DEF ResolveLoad, ResolveOwner, Done, Goto
      <4>2. /\ Idle.pc \in Elsewhere /\ [w[p] EXCEPT !.pc = "oracleadopt"].pc \in Elsewhere
            /\ [w[p] EXCEPT !.pc = "oracle", !.seen = live].pc \in Elsewhere
            /\ [w[p] EXCEPT !.pc = "creds", !.seen = NoGrant, !.foreign = TRUE].pc \in Elsewhere
        BY <1>0, ElsewherePc
      <4>3. w'[p].pc \in Elsewhere
        BY <4>1, <4>2
      <4> QED
        BY <4>3, KeptElsewhere
    <3>5. CASE Sync(p)
      <4>1. w' = [w EXCEPT ![p] = Idle]
        BY <3>5 DEF Sync, Done
      <4>2. w'[p].pc \in Elsewhere
        BY <1>0, <4>1, ElsewherePc
      <4> QED
        BY <4>2, KeptElsewhere
    <3> QED
      BY <2>1, <3>1, <3>2, <3>3, <3>4, <3>5, KeptElsewhere
  <2>2. CASE ReadStored(p)
    <3>1. w'[p].pc = "check" /\ w'[p].acct = w[p].acct /\ w'[p].rec = store[w[p].acct] /\ w[p].acct \in Acct
      BY <1>0, <2>2 DEF ReadStored, At, Shape, Job
    <3> QED
      BY <1>1, <1>2, <3>1 DEF Kept, Minted
  <2>3. CASE CheckLive(p)
    <3>1. \/ w'[p] = Idle \/ w'[p] = Served(p)
          \/ w'[p] = [w[p] EXCEPT !.pc = "lock"] /\ w[p].rec = live
          \/ w'[p] = [w[p] EXCEPT !.pc = "post"]
      BY <1>0, <2>3 DEF CheckLive, Goto
    <3>2. CASE w'[p] = Idle \/ w'[p] = Served(p)
      BY <1>1, <3>2, ServedElsewhere, KeptElsewhere DEF Idle, Elsewhere
    <3>3. CASE w'[p] = [w[p] EXCEPT !.pc = "lock"] /\ w[p].rec = live
      <4>1. w'[p].pc = "lock" /\ w'[p].acct = w[p].acct /\ w'[p].rec = live
        BY <1>0, <3>3 DEF Job
      <4>2. w[p].acct \notin raced => live.acct = w[p].acct
        BY <1>0, <2>3, <3>3 DEF CheckLive, At, Kept
      <4> QED
        BY <1>2, <4>1, <4>2 DEF Kept, Minted
    <3>4. CASE w'[p] = [w[p] EXCEPT !.pc = "post"]
      <4>1. w'[p].pc = "post" /\ w'[p].acct = w[p].acct /\ w'[p].rec = w[p].rec
        BY <1>0, <3>4 DEF Job
      <4> QED
        BY <1>0, <1>2, <2>3, <4>1 DEF CheckLive, At, Kept, Minted
    <3> QED
      BY <3>1, <3>2, <3>3, <3>4
  <2>4. CASE Post(p)
    <3>1. w[p].rec \in Grant
      BY <1>0, <2>4 DEF Post, At, Shape
    <3>2. \/ w'[p] = Idle
          \/ w'[p] = [w[p] EXCEPT !.pc = "save", !.new = Fresh(w[p].rec.acct)]
      BY <1>0, <2>4 DEF Post, Done
    <3>3. CASE w'[p] = [w[p] EXCEPT !.pc = "save", !.new = Fresh(w[p].rec.acct)]
      <4>1. /\ w'[p].pc = "save" /\ w'[p].acct = w[p].acct /\ w'[p].rec = w[p].rec
            /\ w'[p].new = Fresh(w[p].rec.acct)
        BY <1>0, <3>3 DEF Job
      <4>2. w'[p].new.acct = w[p].rec.acct
        BY <4>1 DEF Fresh
      <4> QED
        BY <1>0, <1>2, <2>4, <4>1, <4>2 DEF Post, At, Kept, Minted
    <3> QED
      BY <3>2, <3>3, KeptElsewhere DEF Idle, Elsewhere
  <2>5. CASE LockRead(p)
    <3>1. \/ w'[p] = Idle
          \/ w'[p] = Beyond(p, live) /\ live = w[p].rec
          \/ w'[p] = [w[p] EXCEPT !.pc = "adopt", !.cur = live] /\ live \in Grant
      BY <1>0, <2>5 DEF LockRead, Done
    <3>2. w[p].pc = "lock"
      BY <2>5 DEF LockRead, At
    <3>3. CASE w'[p] = Beyond(p, live) /\ live = w[p].rec
      BY <1>0, <1>1, <1>2, <3>2, <3>3, BeyondKept DEF Kept
    <3>4. CASE w'[p] = [w[p] EXCEPT !.pc = "adopt", !.cur = live] /\ live \in Grant
      <4>1. /\ w'[p].pc = "adopt" /\ w'[p].acct = w[p].acct /\ w'[p].rec = w[p].rec
            /\ w'[p].cur = live
        BY <1>0, <3>4 DEF Job
      <4> QED
        BY <1>0, <1>2, <3>2, <3>4, <4>1 DEF Kept, Minted, StoredBy
    <3> QED
      BY <3>1, <3>3, <3>4, KeptElsewhere DEF Idle, Elsewhere
  <2>6. CASE LivePost(p)
    <3>1. \/ w'[p] = Served(p)
          \/ w'[p] = [w[p] EXCEPT !.pc = "livewrite", !.new = Fresh(w[p].cur.acct)]
      BY <1>0, <2>6 DEF LivePost
    <3>2. CASE w'[p] = [w[p] EXCEPT !.pc = "livewrite", !.new = Fresh(w[p].cur.acct)]
      <4>1. /\ w'[p].pc = "livewrite" /\ w'[p].acct = w[p].acct /\ w'[p].cur = w[p].cur
            /\ w'[p].new = Fresh(w[p].cur.acct)
        BY <1>0, <3>2 DEF Job
      <4>2. w'[p].new.acct = w[p].cur.acct
        BY <4>1 DEF Fresh
      <4> QED
        BY <1>0, <1>2, <2>6, <4>1, <4>2 DEF LivePost, At, Kept, Minted
    <3> QED
      BY <1>1, <3>1, <3>2, ServedElsewhere, KeptElsewhere
  <2>7. CASE ReadCreds(p) \/ ReRead(p)
    <3>1. w[p].acct \in Acct
      BY <1>0, <2>7 DEF ReadCreds, ReRead, At, Shape
    <3>2. \/ w'[p] = Idle \/ w'[p] = [w[p] EXCEPT !.pc = "read"]
          \/ w'[p] = [w[p] EXCEPT !.pc = "install", !.creds = store[w[p].acct]]
      BY <1>0, <2>7 DEF ReadCreds, ReRead
    <3>3. CASE w'[p] = [w[p] EXCEPT !.pc = "install", !.creds = store[w[p].acct]]
      <4>1. w'[p].pc = "install" /\ w'[p].acct = w[p].acct /\ w'[p].creds = store[w[p].acct]
        BY <1>0, <3>3 DEF Job
      <4> QED
        BY <1>1, <1>2, <3>1, <4>1 DEF Kept, Minted
    <3>4. CASE w'[p] = Idle \/ w'[p] = [w[p] EXCEPT !.pc = "read"]
      <4>1. w'[p].pc \in Elsewhere
        BY <1>0, <3>4 DEF Idle, Elsewhere, Job
      <4> QED
        BY <4>1, KeptElsewhere
    <3> QED
      BY <3>2, <3>3, <3>4
  <2> QED
    BY <2>1, <2>2, <2>3, <2>4, <2>5, <2>6, <2>7
<1> QED
  BY <1>2, <1>3, <1>4, CustodyQuietly

\* The conditional write: only over the record the job compared.
LEMMA RecordKept ==
    ASSUME CustodyInv, NEW a \in Acct, NEW e, NEW g \in Grant,
           a \in raced \/ g.acct = a, raced \subseteq raced', store' = WriteRecord(a, e, g)
    PROVE  NeverCrossFiled' /\ \A b \in Acct \ {a} : store'[b] = store[b]
<1>1. store \in [Acct -> Grant] /\ \A b \in Acct \ raced : store[b].acct = b
  BY DEF CustodyInv, Types, TypeOK, NeverCrossFiled
<1>2. \A b \in Acct : store'[b] = IF b = a /\ store[a] = e THEN g ELSE store[b]
  BY <1>1 DEF WriteRecord
<1> QED
  BY <1>1, <1>2 DEF NeverCrossFiled

LEMMA WriteCustody ==
    ASSUME CustodyInv, Types', NEW p \in Proc,
           Save(p) \/ Adopt(p) \/ LiveSave(p)
    PROVE  CustodyInv'
<1>0. w \in [Proc -> Job] /\ w[p] \in Job /\ Shape(w[p]) /\ Kept(w[p]) /\ Minted(w[p]) /\ Types
  BY DEF CustodyInv, Types, TypeOK
<1>1. live' = live
  BY DEF Save, Adopt, LiveSave
<1>2. \A q \in Proc \ {p} : w'[q] = w[q]
  BY <1>0 DEF Save, Adopt, LiveSave, Done
<1>3. w[p].acct \in Acct
  BY <1>0 DEF Save, Adopt, LiveSave, At, Shape
<1>4. ASSUME UNCHANGED <<store, raced>>, w'[p].pc \in Elsewhere
      PROVE  CustodyInv'
  BY <1>1, <1>2, <1>4, KeptElsewhere, CustodyQuietly
<1>5. ASSUME raced' = raced \cup Overtaken(w[p].acct), NEW e, NEW g \in Grant,
             store' = WriteRecord(w[p].acct, e, g), w[p].acct \in raced \/ g.acct = w[p].acct,
             Kept(w[p])', Minted(w[p])'
      PROVE  CustodyInv'
  <2>1. raced \subseteq raced' /\ NeverCrossFiled' /\ \A b \in Acct \ {w[p].acct} : store'[b] = store[b]
    BY <1>3, <1>5, RecordKept
  <2>2. \A q \in Proc : Undisturbed(w[q])
    BY <1>1, <1>5, <2>1, OvertakenUndisturbed
  <2> QED
    BY <1>2, <1>5, <2>1, <2>2, CustodyOf
<1>6. CASE Save(p)
  <2>1. w[p].new \in Grant /\ (w[p].acct \in raced \/ w[p].new.acct = w[p].acct)
    BY <1>0, <1>6 DEF Save, At, Shape, Kept, Minted
  <2>2. w'[p] = Served(p) \/ w'[p] = Idle
    BY <1>0, <1>6 DEF Save, Done
  <2>3. w'[p].pc \in Elsewhere
    BY <1>0, <2>2, ServedElsewhere DEF Idle, Elsewhere
  <2>4. CASE UNCHANGED <<store, raced>>
    BY <1>4, <2>3, <2>4
  <2>5. CASE raced' = raced \cup Overtaken(w[p].acct) /\ store' = WriteRecord(w[p].acct, w[p].rec, w[p].new)
    BY <1>5, <2>1, <2>3, <2>5, KeptElsewhere
  <2> QED
    BY <1>6, <2>4, <2>5 DEF Save
<1>7. CASE Adopt(p)
  <2>1. CASE Done(p) /\ UNCHANGED <<store, history>>
    BY <1>0, <1>4, <2>1 DEF Done, Idle, Elsewhere, history
  <2>2. CASE ~(Done(p) /\ UNCHANGED <<store, history>>)
    <3>1. /\ StoredBy(w[p].cur) \ {w[p].acct} = {}
          /\ store' = WriteRecord(w[p].acct, w[p].rec, w[p].cur)
          /\ w'[p] = Beyond(p, w[p].cur)
          /\ raced' = raced \cup Overtaken(w[p].acct)
      BY <1>0, <1>7, <2>2 DEF Adopt
    <3>2. w[p].cur \in Grant /\ (w[p].acct \in raced \/ w[p].cur.acct = w[p].acct)
      BY <1>0, <1>7, <3>1 DEF Adopt, At, Shape, Kept
    <3>3. Kept(w[p])' /\ Minted(w[p])'
      BY <1>0, <3>1, <3>2, BeyondKept
    <3> QED
      BY <1>5, <3>1, <3>2, <3>3
  <2> QED
    BY <2>1, <2>2
<1>8. CASE LiveSave(p)
  <2>1. w[p].new \in Grant /\ (w[p].acct \in raced \/ w[p].new.acct = w[p].acct)
    BY <1>0, <1>8 DEF LiveSave, At, Shape, Kept, Minted
  <2>2. w'[p] = Served(p) /\ raced' = raced \cup Overtaken(w[p].acct)
    BY <1>0, <1>8 DEF LiveSave
  <2>3. Kept(w[p])' /\ Minted(w[p])'
    BY <1>0, <2>2, ServedElsewhere, KeptElsewhere
  <2>4. CASE store' = WriteRecord(w[p].acct, w[p].cur, w[p].new)
    BY <1>5, <2>1, <2>2, <2>3, <2>4
  <2>5. CASE store' = store
    <3>1. raced \subseteq raced' /\ NeverCrossFiled'
      BY <2>2, <2>5 DEF CustodyInv, NeverCrossFiled
    <3>2. \A q \in Proc : Undisturbed(w[q])
      BY <1>1, <2>2, <2>5, OvertakenUndisturbed
    <3> QED
      BY <1>2, <2>3, <3>1, <3>2, CustodyOf
  <2> QED
    BY <1>8, <2>4, <2>5 DEF LiveSave
<1> QED
  BY <1>6, <1>7, <1>8

LEMMA LiveWriteCustody ==
    ASSUME CustodyInv, Types', NEW p \in Proc, LiveWrite(p)
    PROVE  CustodyInv'
<1>0. w \in [Proc -> Job] /\ w[p] \in Job /\ Kept(w[p]) /\ Minted(w[p])
  BY DEF CustodyInv, Types, TypeOK
<1>1. /\ w[p].pc = "livewrite" /\ w' = [w EXCEPT ![p] = [w[p] EXCEPT !.pc = "livesave"]]
      /\ store' = store /\ raced' = raced \cup Overtaken(w[p].acct)
      /\ live' = w[p].new \/ live' = live
  BY <1>0 DEF LiveWrite, At, Goto
<1>2. w[p].acct \in raced \/ (w[p].new.acct = w[p].acct /\ w[p].cur.acct = w[p].acct)
  BY <1>0, <1>1 DEF Kept, Minted
<1>3. w'[p].pc = "livesave" /\ w'[p].acct = w[p].acct /\ w'[p].cur = w[p].cur /\ w'[p].new = w[p].new
  BY <1>0, <1>1 DEF Job
<1>4. Kept(w[p])' /\ Minted(w[p])'
  BY <1>0, <1>1, <1>2, <1>3 DEF Kept, Minted
<1>5. \A q \in Proc : Undisturbed(w[q])
  BY <1>1, <1>2, OvertakenUndisturbed
<1>6. NeverCrossFiled' /\ raced \subseteq raced' /\ \A q \in Proc \ {p} : w'[q] = w[q]
  BY <1>0, <1>1 DEF CustodyInv, NeverCrossFiled
<1> QED
  BY <1>4, <1>5, <1>6, CustodyOf

LEMMA ResolveCustody ==
    ASSUME CustodyInv, Types', NEW p \in Proc, ResolveAdopt(p)
    PROVE  CustodyInv'
<1>0. w \in [Proc -> Job] /\ w[p] \in Job /\ Shape(w[p]) /\ live' = live
  BY DEF CustodyInv, Types, TypeOK, ResolveAdopt
<1>1. \A q \in Proc \ {p} : w'[q] = w[q]
  BY <1>0 DEF ResolveAdopt, Done
<1>2. w'[p] = Idle \/ w'[p] = [w[p] EXCEPT !.pc = "creds", !.seen = NoGrant, !.believed = w[p].seen.acct]
  BY <1>0 DEF ResolveAdopt, Resolved, Done
<1>3. Kept(w[p])' /\ Minted(w[p])'
  <2>1. w'[p].pc \in Elsewhere
    BY <1>0, <1>2, ElsewherePc
  <2> QED
    BY <2>1, KeptElsewhere
<1>4. CASE UNCHANGED <<store, history>>
  BY <1>0, <1>1, <1>3, <1>4, CustodyQuietly DEF history
<1>5. CASE ~UNCHANGED <<store, history>>
  <2> DEFINE x == w[p].seen.acct
  <2>1. store' = [store EXCEPT ![x] = w[p].seen] /\ raced' = raced \cup Overtaken(x)
    BY <1>5 DEF ResolveAdopt, Resolved
  <2>2. NeverCrossFiled' /\ (\A b \in Acct \ {x} : store'[b] = store[b]) /\ raced \subseteq raced'
    BY <2>1 DEF CustodyInv, NeverCrossFiled, Types, TypeOK
  <2>3. \A q \in Proc : Undisturbed(w[q])
    BY <1>0, <2>1, <2>2, OvertakenUndisturbed
  <2> QED
    BY <1>1, <1>3, <2>2, <2>3, CustodyOf
<1> QED
  BY <1>4, <1>5

\* A switch installs a login some account stores, or one that marks every other
\* live read under way.
LEMMA InstallCustody ==
    ASSUME CustodyInv, Types', NEW p \in Proc, Install(p)
    PROVE  CustodyInv'
<1>0. w \in [Proc -> Job] /\ w[p] \in Job /\ Shape(w[p]) /\ Kept(w[p]) /\ store' = store
  BY DEF CustodyInv, Types, TypeOK, Install
<1>1. \A q \in Proc \ {p} : w'[q] = w[q]
  BY <1>0 DEF Install, Done, Goto
<1>2. \/ w'[p] = Idle \/ w'[p] = [w[p] EXCEPT !.pc = "sync", !.creds = NoGrant]
      \/ w'[p] = [w[p] EXCEPT !.pc = "sync"]
  BY <1>0 DEF Install, Done, Goto
<1>3. Kept(w[p])' /\ Minted(w[p])'
  <2>1. w'[p].pc \in Elsewhere
    BY <1>0, <1>2, ElsewherePc
  <2> QED
    BY <2>1, KeptElsewhere
<1>4. CASE UNCHANGED <<live, raced>>
  BY <1>0, <1>1, <1>3, <1>4, CustodyQuietly
<1>5. CASE ~UNCHANGED <<live, raced>>
  <2> DEFINE g == w[p].creds
             t == w[p].acct
  <2>1. /\ w[p].pc = "install" /\ live' = g
        /\ raced' = IF StoredBy(g) = {} THEN raced \cup Overtaken(t) ELSE raced
    BY <1>5 DEF Install, At, history
  <2>2. g \in Grant /\ (t \in raced \/ g.acct = t)
    BY <1>0, <2>1 DEF Shape, Kept
  <2>3. NeverCrossFiled' /\ raced \subseteq raced'
    BY <1>0, <2>1 DEF CustodyInv, NeverCrossFiled
  <2>4. ASSUME NEW q \in Proc
        PROVE  Undisturbed(w[q])
    <3>1. CASE StoredBy(g) = {}
      <4>1. raced' = raced \cup Overtaken(t)
        BY <2>1, <3>1
      <4>2. w[q].acct = t /\ t \notin raced' => live'.acct = t
        BY <2>1, <2>2, <2>3
      <4> QED
        BY <1>0, <4>1, <4>2, OvertakenUndisturbed
    <3>2. CASE StoredBy(g) # {}
      <4>1. PICK b \in Acct : store[b] = g
        BY <3>2 DEF StoredBy
      <4>2. raced' = raced
        BY <2>1, <3>2
      <4>3. b \in raced \/ g.acct = b
        BY <4>1 DEF CustodyInv, NeverCrossFiled
      <4> QED
        BY <1>0, <2>1, <4>1, <4>2, <4>3 DEF Undisturbed
    <3> QED
      BY <3>1, <3>2
  <2> QED
    BY <1>1, <1>3, <2>3, <2>4, CustodyOf
<1> QED
  BY <1>4, <1>5

LEMMA OutsideCustody ==
    ASSUME CustodyInv, Types',
           \/ ClaudeRefresh \/ \E x \in Owner : Login(x)
           \/ \E a \in Acct : AddAgain(a)
           \/ \E g \in Grant : Age(g)
           \/ CoolDown
           \/ \E P \in SUBSET Proc : Crash(P)
    PROVE  CustodyInv'
<1>0. \A q \in Proc : Kept(w[q]) /\ Minted(w[q])
  BY DEF CustodyInv
<1>1. ASSUME w' = w, raced \subseteq raced', NeverCrossFiled', \A q \in Proc : Undisturbed(w[q])
      PROVE  CustodyInv'
  BY <1>0, <1>1, KeptBeside DEF CustodyInv
<1>2. ASSUME w' = w, NEW a, raced' = raced \cup Overtaken(a), store' = store,
             live' \notin Grant \/ live'.acct = a
      PROVE  CustodyInv'
  <2>1. NeverCrossFiled' /\ raced \subseteq raced'
    BY <1>2 DEF CustodyInv, NeverCrossFiled
  <2>2. \A q \in Proc : Undisturbed(w[q])
    BY <1>2, OvertakenUndisturbed
  <2> QED
    BY <1>1, <1>2, <2>1, <2>2
<1>3. CASE ClaudeRefresh
  <2>1. live' \notin Grant \/ live'.acct = live.acct
    BY <1>3, GrantsAssumption DEF ClaudeRefresh, Fresh
  <2> QED
    BY <1>2, <1>3, <2>1 DEF ClaudeRefresh
<1>4. ASSUME NEW x \in Owner, Login(x)
      PROVE  CustodyInv'
  BY <1>2, <1>4 DEF Login, Fresh
<1>5. ASSUME NEW a \in Acct, AddAgain(a)
      PROVE  CustodyInv'
  <2>1. store' = [store EXCEPT ![a] = Fresh(a)] /\ raced' = raced \cup Overtaken(a) /\ w' = w /\ live' = live
    BY <1>5 DEF AddAgain
  <2>2. NeverCrossFiled' /\ raced \subseteq raced' /\ \A b \in Acct \ {a} : store'[b] = store[b]
    BY <2>1 DEF CustodyInv, Types, TypeOK, NeverCrossFiled, Fresh
  <2>3. \A q \in Proc : Undisturbed(w[q])
    BY <2>1, <2>2, OvertakenUndisturbed
  <2> QED
    BY <1>1, <2>1, <2>2, <2>3
<1>6. CASE CoolDown \/ \E g \in Grant : Age(g)
  <2>1. w' = w /\ store' = store /\ live' = live /\ raced' = raced
    BY <1>6 DEF CoolDown, Age, files, history
  <2>2. NeverCrossFiled' /\ \A q \in Proc : Undisturbed(w[q])
    BY <2>1 DEF CustodyInv, NeverCrossFiled, Undisturbed
  <2> QED
    BY <1>1, <2>1, <2>2
<1>7. ASSUME NEW P \in SUBSET Proc, Crash(P)
      PROVE  CustodyInv'
  <2>1. store' = store /\ live' = live /\ raced' = raced /\ \A q \in Proc : w'[q] = Idle \/ w'[q] = w[q]
    BY <1>7 DEF Crash, files
  <2>2. NeverCrossFiled' /\ \A q \in Proc : Undisturbed(w[q])
    BY <2>1 DEF CustodyInv, NeverCrossFiled, Undisturbed
  <2>3. ASSUME NEW q \in Proc
        PROVE  Kept(w[q])' /\ Minted(w[q])'
    <3>1. CASE w'[q] = w[q]
      BY <1>0, <2>1, <2>2, <3>1, KeptBeside
    <3>2. CASE w'[q] = Idle
      BY <3>2, KeptElsewhere DEF Idle, Elsewhere
    <3> QED
      BY <2>1, <3>1, <3>2
  <2> QED
    BY <2>2, <2>3 DEF CustodyInv
<1> QED
  BY <1>3, <1>4, <1>5, <1>6, <1>7

LEMMA CustodyStep == CustodyInv /\ [Next]_vars => CustodyInv'
<1> SUFFICES ASSUME CustodyInv, [Next]_vars PROVE CustodyInv'
  OBVIOUS
<1>1. Types'
  BY TypesStep DEF CustodyInv
<1>2. CASE UNCHANGED vars
  BY <1>1, <1>2 DEF vars, files, history, CustodyInv, NeverCrossFiled, Kept, Minted, StoredBy
<1>3. Daemon \subseteq Proc /\ \A p \in Cli \cup Human : {p} \subseteq Proc
  BY DEF Daemon, Proc
<1> QED
  BY <1>1, <1>2, <1>3, QuietCustody, WriteCustody, LiveWriteCustody, ResolveCustody, InstallCustody,
     OutsideCustody DEF Next, AccessToken, Switch

LEMMA InitCustody == Init => CustodyInv
<1> SUFFICES ASSUME Init PROVE CustodyInv
  OBVIOUS
<1>1. Types
  BY InitTypes
<1>2. NeverCrossFiled
  BY DEF Init, NeverCrossFiled, First
<1>3. \A p \in Proc : Kept(w[p]) /\ Minted(w[p])
  BY DEF Init, Idle, Kept, Minted
<1> QED
  BY <1>1, <1>2, <1>3 DEF CustodyInv

LEMMA Custody == Spec => []CustodyInv
BY InitCustody, CustodyStep, PTL DEF Spec

-----------------------------------------------------------------------------
(* What a switch hands over *)

PollSteps == {"idle", "read", "check", "post", "save", "lock", "adopt",
              "livepost", "livewrite", "livesave"}

\* A job keeps to the steps of its kind, an unattended switch is never forced,
\* and one that is not onto the login believed live has in hand a login Claude
\* Code would not refresh on sight.
Routed(j) ==
    /\ j.pc # "idle" => j.kind # "none"
    /\ j.kind = "poll" => j.pc \in PollSteps
    /\ j.kind = "auto" => ~j.force
    /\ j.pc = "install" /\ j.kind = "auto" /\ j.believed # j.acct => zone[j.creds] # "stale"

Handed == Types /\ \A p \in Proc : Routed(w[p]) /\ (w[p].kind = "switch" => p \in Human)

LEMMA HandedOf ==
    ASSUME Handed, Types', NEW p \in Proc, zone' = zone, \A q \in Proc \ {p} : w'[q] = w[q],
           Routed(w[p])', w'[p].kind = "switch" => p \in Human
    PROVE  Handed'
BY DEF Handed, Routed

\* A job that goes on, to a step of its kind.
LEMMA RoutedOn ==
    ASSUME Handed, NEW p \in Proc, ~At(p, "idle"), w'[p].kind = w[p].kind, w'[p].force = w[p].force,
           w'[p].pc # "install", w[p].kind = "poll" => w'[p].pc \in PollSteps
    PROVE  Routed(w[p])' /\ (w'[p].kind = "switch" => p \in Human)
BY DEF Handed, Routed, At

LEMMA RoutedRest ==
    ASSUME Handed, NEW p \in Proc, ~At(p, "idle"), w'[p] = Idle \/ w'[p] = Served(p)
    PROVE  Routed(w[p])' /\ (w'[p].kind = "switch" => p \in Human)
<1>1. w[p] \in Job
  BY DEF Handed, Types, TypeOK
<1>2. CASE w'[p] = Idle
  BY <1>2 DEF Idle, Routed, PollSteps
<1>3. CASE /\ w'[p] = [w[p] EXCEPT !.pc = "reread", !.rec = NoGrant, !.cur = NoGrant, !.new = NoGrant]
           /\ w[p].kind # "poll"
  <2>1. w'[p].pc = "reread" /\ w'[p].kind = w[p].kind /\ w'[p].force = w[p].force
    BY <1>1, <1>3 DEF Job
  <2> QED
    BY <1>3, <2>1, RoutedOn
<1> QED
  BY <1>2, <1>3 DEF Served

LEMMA RoutedBeyond ==
    ASSUME Handed, NEW p \in Proc, ~At(p, "idle"), NEW g, w'[p] = Beyond(p, g)
    PROVE  Routed(w[p])' /\ (w'[p].kind = "switch" => p \in Human)
<1>1. w[p] \in Job
  BY DEF Handed, Types, TypeOK
<1>2. CASE w'[p] = [w[p] EXCEPT !.pc = "livepost", !.cur = g]
  <2>1. w'[p].pc = "livepost" /\ w'[p].kind = w[p].kind /\ w'[p].force = w[p].force
    BY <1>1, <1>2 DEF Job
  <2> QED
    BY <2>1, RoutedOn DEF PollSteps
<1> QED
  BY <1>2, RoutedRest DEF Beyond

LEMMA AccessRouted ==
    ASSUME Handed, NEW p \in Proc, AccessToken(p)
    PROVE  Routed(w[p])' /\ (w'[p].kind = "switch" => p \in Human)
<1>0. w \in [Proc -> Job] /\ w[p] \in Job
  BY DEF Handed, Types, TypeOK
<1>1. ~At(p, "idle")
  BY DEF AccessToken, ReadStored, CheckLive, Post, Save, LockRead, Adopt, LivePost, LiveWrite, LiveSave, At
<1>2. ASSUME NEW s \in PollSteps, w'[p] = [w[p] EXCEPT !.pc = s]
      PROVE  Routed(w[p])' /\ (w'[p].kind = "switch" => p \in Human)
  <2>1. w'[p].pc = s /\ w'[p].kind = w[p].kind /\ w'[p].force = w[p].force
    BY <1>0, <1>2 DEF Job
  <2> QED
    BY <1>1, <2>1, RoutedOn DEF PollSteps
<1>3. ASSUME NEW s \in PollSteps, NEW g, w'[p] = [w[p] EXCEPT !.pc = s, !.new = g]
      PROVE  Routed(w[p])' /\ (w'[p].kind = "switch" => p \in Human)
  <2>1. w'[p].pc = s /\ w'[p].kind = w[p].kind /\ w'[p].force = w[p].force
    BY <1>0, <1>3 DEF Job
  <2> QED
    BY <1>1, <2>1, RoutedOn DEF PollSteps
<1>4. CASE ReadStored(p)
  <2>1. w'[p] = [w[p] EXCEPT !.pc = "check", !.rec = store[w[p].acct]]
    BY <1>0, <1>4 DEF ReadStored
  <2>2. w'[p].pc = "check" /\ w'[p].kind = w[p].kind /\ w'[p].force = w[p].force
    BY <1>0, <2>1 DEF Job
  <2> QED
    BY <1>1, <2>2, RoutedOn DEF PollSteps
<1>5. CASE CheckLive(p)
  <2>1. \/ w'[p] = Idle \/ w'[p] = Served(p)
        \/ \E s \in PollSteps : w'[p] = [w[p] EXCEPT !.pc = s]
    BY <1>0, <1>5 DEF CheckLive, Goto, PollSteps
  <2> QED
    BY <1>1, <1>2, <2>1, RoutedRest
<1>6. CASE Post(p) \/ LivePost(p)
  <2>1. \/ w'[p] = Idle \/ w'[p] = Served(p)
        \/ \E s \in PollSteps : w'[p] = [w[p] EXCEPT !.pc = s, !.new = Fresh(w[p].rec.acct)]
        \/ \E s \in PollSteps : w'[p] = [w[p] EXCEPT !.pc = s, !.new = Fresh(w[p].cur.acct)]
    BY <1>0, <1>6 DEF Post, LivePost, Done, PollSteps
  <2> QED
    BY <1>1, <1>3, <2>1, RoutedRest
<1>7. CASE Save(p) \/ LiveSave(p)
  <2>1. w'[p] = Idle \/ w'[p] = Served(p)
    BY <1>0, <1>7 DEF Save, LiveSave, Done
  <2> QED
    BY <1>1, <2>1, RoutedRest
<1>8. CASE LockRead(p)
  <2>1. CASE w'[p] = Idle \/ w'[p] = Beyond(p, live)
    BY <1>1, <2>1, RoutedRest, RoutedBeyond
  <2>2. CASE w'[p] = [w[p] EXCEPT !.pc = "adopt", !.cur = live]
    <3>1. w'[p].pc = "adopt" /\ w'[p].kind = w[p].kind /\ w'[p].force = w[p].force
      BY <1>0, <2>2 DEF Job
    <3> QED
      BY <1>1, <3>1, RoutedOn DEF PollSteps
  <2> QED
    BY <1>0, <1>8, <2>1, <2>2 DEF LockRead, Done
<1>9. CASE Adopt(p)
  <2>1. w'[p] = Idle \/ w'[p] = Beyond(p, w[p].cur)
    BY <1>0, <1>9 DEF Adopt, Done
  <2> QED
    BY <1>1, <2>1, RoutedRest, RoutedBeyond
<1>10. CASE LiveWrite(p)
  <2>1. w'[p] = [w[p] EXCEPT !.pc = "livesave"]
    BY <1>0, <1>10 DEF LiveWrite, Goto
  <2> QED
    BY <1>2, <2>1 DEF PollSteps
<1> QED
  BY <1>4, <1>5, <1>6, <1>7, <1>8, <1>9, <1>10 DEF AccessToken

LEMMA SwitchRouted ==
    ASSUME Handed, NEW p \in Proc, Switch(p)
    PROVE  Routed(w[p])' /\ (w'[p].kind = "switch" => p \in Human)
<1>0. w \in [Proc -> Job] /\ w[p] \in Job /\ Routed(w[p]) /\ zone' = zone
  BY DEF Handed, Types, TypeOK, Switch, ResolveLoad, ResolveOwner, ResolveAdopt, ReadCreds, ReRead,
         Install, Sync, server
<1>1. w[p].pc \in {"resolve", "oracle", "oracleadopt", "creds", "reread", "install", "sync"}
  BY DEF Switch, ResolveLoad, ResolveOwner, ResolveAdopt, ReadCreds, ReRead, Install, Sync, At
<1>2. w[p].kind # "poll" /\ ~At(p, "idle")
  BY <1>0, <1>1 DEF Routed, PollSteps, At
<1> DEFINE t == w[p].acct
<1>3. \/ w'[p] = Idle
      \/ w'[p] = [w[p] EXCEPT !.pc = "oracle", !.seen = live]
      \/ w'[p] = [w[p] EXCEPT !.pc = "oracleadopt"]
      \/ w'[p] = [w[p] EXCEPT !.pc = "creds", !.seen = NoGrant, !.foreign = TRUE]
      \/ w'[p] = [w[p] EXCEPT !.pc = "creds", !.seen = NoGrant, !.believed = Resolved(p)]
      \/ w'[p] = [w[p] EXCEPT !.pc = "read"]
      \/ /\ w'[p] = [w[p] EXCEPT !.pc = "install", !.creds = store[t]]
         /\ w[p].believed = t \/ zone[store[t]] # "stale"
      \/ w'[p] = [w[p] EXCEPT !.pc = "sync", !.creds = NoGrant]
      \/ w'[p] = [w[p] EXCEPT !.pc = "sync"]
  BY <1>0 DEF Switch, ResolveLoad, ResolveOwner, ResolveAdopt, ReadCreds, ReRead, Install, Sync, Goto, Done
<1>4. CASE w'[p] = Idle
  BY <1>2, <1>4, RoutedRest
<1>5. CASE /\ w'[p] = [w[p] EXCEPT !.pc = "install", !.creds = store[t]]
           /\ w[p].believed = t \/ zone[store[t]] # "stale"
  <2>1. /\ w'[p].pc = "install" /\ w'[p].kind = w[p].kind /\ w'[p].force = w[p].force
        /\ w'[p].creds = store[t] /\ w'[p].believed = w[p].believed /\ w'[p].acct = t
    BY <1>0, <1>5 DEF Job
  <2> QED
    BY <1>0, <1>2, <1>5, <2>1 DEF Routed, Handed, At
<1>6. CASE w'[p] # Idle /\ w'[p].pc # "install"
  <2>1. w'[p].kind = w[p].kind /\ w'[p].force = w[p].force
    BY <1>0, <1>3, <1>6 DEF Job
  <2> QED
    BY <1>2, <1>6, <2>1, RoutedOn
<1>7. CASE w'[p].pc = "install"
  <2>1. CASE w'[p] = Idle
    BY <1>4, <2>1
  <2>2. CASE w'[p] # Idle
    <3>1. /\ w'[p] = [w[p] EXCEPT !.pc = "install", !.creds = store[t]]
          /\ w[p].believed = t \/ zone[store[t]] # "stale"
      BY <1>0, <1>3, <1>7, <2>2 DEF Job
    <3> QED
      BY <1>5, <3>1
  <2> QED
    BY <2>1, <2>2
<1> QED
  BY <1>4, <1>6, <1>7

LEMMA StartRouted ==
    ASSUME Handed, NEW p \in Proc, NEW a \in Acct,
           StartPoll(p, a) \/ StartAuto(p, a) \/ StartSwitch(p, a)
    PROVE  Routed(w[p])' /\ (w'[p].kind = "switch" => p \in Human)
<1>0. w \in [Proc -> Job]
  BY DEF Handed, Types, TypeOK
<1>1. CASE StartPoll(p, a)
  <2>1. w'[p] = [Idle EXCEPT !.pc = "read", !.kind = "poll", !.acct = a]
    BY <1>0, <1>1 DEF StartPoll
  <2> QED
    BY <2>1 DEF Idle, Routed, PollSteps
<1>2. CASE StartAuto(p, a)
  <2> DEFINE s == IF p \in Ticker /\ LiveState(live) = "unattributed" THEN "resolve" ELSE "creds"
  <2>1. PICK o \in LiveOwner(live) :
          w' = [w EXCEPT ![p] = [Idle EXCEPT !.pc = s, !.kind = "auto", !.acct = a, !.believed = o]]
    BY <1>2 DEF StartAuto
  <2>2. s \in {"resolve", "creds"}
    OBVIOUS
  <2> HIDE DEF s
  <2>3. w'[p] = [Idle EXCEPT !.pc = s, !.kind = "auto", !.acct = a, !.believed = o]
    BY <1>0, <2>1
  <2> QED
    BY <2>2, <2>3 DEF Idle, Routed, PollSteps
<1>3. CASE StartSwitch(p, a)
  <2>1. PICK force \in BOOLEAN, o \in LiveOwner(live) :
          w'[p] = [Idle EXCEPT !.pc = "creds", !.kind = "switch", !.acct = a, !.believed = o, !.force = force]
    BY <1>0, <1>3 DEF StartSwitch
  <2>2. p \in Human
    BY <1>3 DEF StartSwitch
  <2> QED
    BY <2>1, <2>2 DEF Idle, Routed, PollSteps
<1> QED
  BY <1>1, <1>2, <1>3

LEMMA HandedStep == Prompt /\ Handed /\ [Next]_vars => Handed'
<1> SUFFICES ASSUME Prompt, Handed, [Next]_vars PROVE Handed'
  OBVIOUS
<1>1. Types' /\ w \in [Proc -> Job]
  BY TypesStep DEF Handed, Types, TypeOK
<1>2. CASE zone' = zone /\ w' = w
  BY <1>1, <1>2 DEF Handed, Routed
<1>3. ASSUME NEW p \in Proc, AccessToken(p) PROVE Handed'
  <2>1. zone' = zone /\ \A q \in Proc \ {p} : w'[q] = w[q]
    BY <1>1, <1>3 DEF AccessToken, ReadStored, CheckLive, Post, Save, LockRead, Adopt, LivePost, LiveWrite,
                      LiveSave, Goto, Done, server
  <2> QED
    BY <1>1, <1>3, <2>1, AccessRouted, HandedOf
<1>4. ASSUME NEW p \in Proc, Switch(p) PROVE Handed'
  <2>1. zone' = zone /\ \A q \in Proc \ {p} : w'[q] = w[q]
    BY <1>1, <1>4 DEF Switch, ResolveLoad, ResolveOwner, ResolveAdopt, ReadCreds, ReRead, Install, Sync,
                      Goto, Done, server
  <2> QED
    BY <1>1, <1>4, <2>1, SwitchRouted, HandedOf
<1>5. ASSUME NEW p \in Proc, NEW a \in Acct, StartPoll(p, a) \/ StartAuto(p, a) \/ StartSwitch(p, a)
      PROVE  Handed'
  <2>1. zone' = zone /\ \A q \in Proc \ {p} : w'[q] = w[q]
    BY <1>1, <1>5 DEF StartPoll, StartAuto, StartSwitch, server
  <2> QED
    BY <1>1, <1>5, <2>1, StartRouted, HandedOf
<1>6. CASE ClaudeRefresh \/ (\E x \in Owner : Login(x)) \/ (\E a \in Acct : AddAgain(a)) \/ CoolDown
  BY <1>2, <1>6 DEF ClaudeRefresh, Login, AddAgain, CoolDown, server
<1>7. ASSUME NEW g \in Grant, Age(g) PROVE Handed'
  <2>1. w' = w /\ \A p \in Proc : w[p].pc = "idle"
    BY <1>7 DEF Age, At
  <2> QED
    BY <1>1, <2>1 DEF Handed, Routed
<1>8. ASSUME NEW P \in SUBSET Proc, Crash(P) PROVE Handed'
  <2>1. zone' = zone /\ \A q \in Proc : w'[q] = w[q] \/ w'[q] = Idle
    BY <1>8 DEF Crash, server
  <2> QED
    BY <1>1, <2>1 DEF Handed, Routed, Idle, PollSteps
<1>9. Daemon \subseteq Proc /\ \A p \in Cli \cup Human : {p} \subseteq Proc
  BY DEF Daemon, Proc
<1> QED
  BY <1>2, <1>3, <1>4, <1>5, <1>6, <1>7, <1>8, <1>9 DEF Next, vars, server

LEMMA InitHanded == Init => Handed
<1> SUFFICES ASSUME Init PROVE Handed
  OBVIOUS
<1>1. \A p \in Proc : w[p] = Idle
  BY DEF Init
<1> QED
  BY <1>1, InitTypes DEF Handed, Routed, Idle, PollSteps

LEMMA HandedHolds == ASSUME Prompt PROVE Spec => []Handed
BY InitHanded, HandedStep, PTL DEF Spec

\* What an unattended switch writes.
LEMMA WrittenUnattended ==
    ASSUME Handed, NEW p \in Proc, Install(p), Unattended(p), live' # live
    PROVE  live' = w[p].creds /\ zone[w[p].creds] # "stale"
<1>1. PICK o \in LiveOwner(live) : (o # w[p].acct \/ w[p].force) /\ MayInstall(p, o)
  BY DEF Install
<1>2. w[p].believed # w[p].acct /\ live' = w[p].creds /\ w[p].pc = "install"
  BY <1>1 DEF Install, MayInstall, Unattended, Handed, Routed, At
<1> QED
  BY <1>2 DEF Handed, Routed, Unattended

-----------------------------------------------------------------------------
(* Theorems *)

\* Every variable keeps its type, whatever the processes, the user and Claude
\* Code do.
THEOREM GrantsTypeOK == Spec => []TypeOK
<1>1. CustodyInv => TypeOK
  BY DEF CustodyInv, Types
<1> QED
  BY <1>1, Custody, PTL

\* No snapshot comes to hold another account's login, for any number of
\* pollers, commands and switches, except in the window liveOwner's comment
\* concedes (raced).
THEOREM GrantsNeverCrossFiled == Spec => []NeverCrossFiled
<1>1. CustodyInv => NeverCrossFiled
  BY DEF CustodyInv
<1> QED
  BY <1>1, Custody, PTL

\* No unattended switch overwrites a live login of a managed account that no
\* snapshot holds.
THEOREM GrantsNoUnattendedLoss == Spec => NoUnattendedLoss
<1>1. ASSUME TypeOK, NEW p \in Proc,
             Install(p), Unattended(p), ~w[p].foreign, live \in valid, live' # live
      PROVE  StoredBy(live) # {}
  <2>1. \E o \in LiveOwner(live) : MayInstall(p, o)
    BY <1>1 DEF Install
  <2>2. LiveState(live) # "unattributed"
    BY <1>1, <2>1 DEF MayInstall
  <2> QED
    BY <1>1, <2>2 DEF LiveState, TypeOK
<1>2. TypeOK =>
        [\A p \in Proc :
           (Install(p) /\ Unattended(p) /\ ~w[p].foreign /\ live \in valid /\ live' # live)
              => StoredBy(live) # {} \/ live.acct \notin Acct]_vars
  BY <1>1
<1> QED
  BY <1>2, GrantsTypeOK, PTL DEF NoUnattendedLoss

\* No unattended switch puts a login in the file that Claude Code would rotate on
\* sight: what it installs was read, or refreshed and read back, outside that
\* window (switcher's Freshen), and its steps are short beside a token's life.
THEOREM GrantsNoRotationHandedOver == ASSUME Prompt PROVE Spec => NoRotationHandedOver
<1>1. ASSUME Handed, [Next]_vars
      PROVE  \A p \in Proc : (Install(p) /\ Unattended(p) /\ live' # live) => zone[live'] # "stale"
  BY <1>1, WrittenUnattended
<1> QED
  BY <1>1, HandedHolds, PTL DEF Spec, NoRotationHandedOver

-----------------------------------------------------------------------------
(* No account loses its last grant.  Who has which pair in hand: *)

Spending == {"save", "livewrite", "livesave"}

\* A copy of g is on disk, or in the hands of a job that found it there.
Placed(g) ==
    \/ g = live
    \/ \E x \in Acct : store[x] = g
    \/ \E p \in Proc : g \in {w[p].rec, w[p].cur, w[p].seen, w[p].creds}

\* A pair in hand, on its way to disk.
InHand(g) == \E p \in Proc : w[p].new = g

Issued(g) == g.gen <= minted[g.acct]

\* Only what was issued is anywhere; what is fresh has not been spent; what was
\* not issued has not aged.
Books ==
    \A g \in Grant :
        /\ g \in valid \/ Placed(g) \/ InHand(g) => Issued(g)
        /\ Issued(g) /\ zone[g] = "fresh" => g \in valid
        /\ ~Issued(g) => zone[g] = "fresh"

\* A pair is in hand only between the POST and the last write, fresh, and
\* nowhere else until it is first written; a grant is spent in the window its
\* branch is for.
Hand(j) ==
    /\ j.pc \notin Spending => j.new = NoGrant
    /\ j.pc \in Spending => zone[j.new] = "fresh"
    /\ j.pc \in {"save", "livewrite"} => ~Placed(j.new)
    /\ j.pc = "post" => zone[j.rec] = "stale"
    /\ j.pc \in {"livepost", "livewrite", "livesave"} => zone[j.cur] = "band"
    /\ j.pc \in {"livewrite", "livesave"} => j.cur \notin valid

\* Two jobs do not hold one pair, nor have two rotated one login.
Apart(j, k) ==
    /\ j.pc \in Spending /\ k.pc \in Spending => j.new # k.new
    /\ j.pc \in {"livewrite", "livesave"} /\ k.pc \in {"livewrite", "livesave"} => j.cur # k.cur

\* What is filed under another account, or in the hands of its jobs, is a login
\* of an account that may have lost one.
Honest(j) ==
    /\ j.pc \in {"check", "post", "save", "lock", "adopt"} => j.rec.acct \in forfeit \cup {j.acct}
    /\ j.pc \in {"livepost", "livewrite", "livesave"} => j.cur.acct \in forfeit \cup {j.acct}
    /\ j.pc = "install" => j.creds.acct \in forfeit \cup {j.acct}

FiledHonestly == \A x \in Acct : store[x].acct \in forfeit \cup {x}

Ledger ==
    /\ CustodyInv /\ Books /\ FiledHonestly
    /\ \A p \in Proc : Hand(w[p]) /\ Honest(w[p])
    /\ \A p, q \in Proc : p # q => Apart(w[p], w[q])

LEMMA FreshIs ==
    ASSUME NEW g \in Grant, g.gen = minted[g.acct] + 1
    PROVE  g = Fresh(g.acct)
BY DEF Grant, Fresh

\* The books beside a step of no consequence for them.
LEMMA BooksKept ==
    ASSUME Books, UNCHANGED server,
           \A g \in Grant : Placed(g)' \/ InHand(g)' => Placed(g) \/ InHand(g)
    PROVE  Books'
BY DEF Books, Issued, server

LEMMA BooksIssue ==
    ASSUME Types, Books, NEW a \in Owner, NEW g0, minted[a] < MaxGen, zone' = zone,
           valid' = (valid \ {g0}) \cup {Fresh(a)}, minted' = [minted EXCEPT ![a] = @ + 1],
           g0 \in Grant => zone[g0] # "fresh",
           \A g \in Grant : Placed(g)' \/ InHand(g)' => Placed(g) \/ InHand(g) \/ g = Fresh(a)
    PROVE  Books'
<1>1. /\ minted \in [Owner -> 0..MaxGen] /\ MaxGen \in Nat
      /\ minted'[a] = minted[a] + 1 /\ \A b \in Owner \ {a} : minted'[b] = minted[b]
  BY GrantsAssumption DEF Types, TypeOK
<1>2. Fresh(a) \in Grant /\ Fresh(a).acct = a /\ Fresh(a).gen = minted[a] + 1
  BY <1>1, FreshType DEF Types, Fresh
<1>3. ASSUME NEW g \in Grant PROVE Issued(g)' <=> Issued(g) \/ g = Fresh(a)
  <2>1. g.acct \in Owner /\ g.gen \in 0..MaxGen
    BY DEF Grant
  <2>2. CASE g.acct # a
    BY <1>1, <1>2, <2>1, <2>2 DEF Issued
  <2>3. CASE g.acct = a
    <3>1. Issued(g)' <=> g.gen <= minted[a] + 1
      BY <1>1, <2>3 DEF Issued
    <3>2. g.gen = minted[a] + 1 <=> g = Fresh(a)
      BY <1>2, <2>3, FreshIs
    <3> QED
      BY <1>1, <2>1, <2>3, <3>1, <3>2 DEF Issued
  <2> QED
    BY <2>2, <2>3
<1>4. ~Issued(Fresh(a))
  BY <1>1, <1>2 DEF Issued
<1>5. ASSUME NEW g \in Grant
      PROVE  /\ g \in valid' \/ Placed(g)' \/ InHand(g)' => Issued(g)'
             /\ Issued(g)' /\ zone'[g] = "fresh" => g \in valid'
             /\ ~Issued(g)' => zone'[g] = "fresh"
  BY <1>3, <1>4 DEF Books
<1> QED
  BY <1>5 DEF Books

\* What a step of p may newly put somewhere.
LEMMA PlacedBy ==
    ASSUME NEW p \in Proc, NEW x, \A q \in Proc \ {p} : w'[q] = w[q],
           \A g \in {w'[p].rec, w'[p].cur, w'[p].seen, w'[p].creds} : g = NoGrant \/ Placed(g) \/ g = x,
           live' \notin Grant \/ Placed(live') \/ live' = x,
           \A y \in Acct : Placed(store'[y]) \/ store'[y] = x
    PROVE  \A g \in Grant : Placed(g)' => Placed(g) \/ g = x
<1> SUFFICES ASSUME NEW g \in Grant, Placed(g)' PROVE Placed(g) \/ g = x
  OBVIOUS
<1>0. g # NoGrant
  BY GrantsAssumption
<1>1. CASE g = live'
  BY <1>1
<1>2. CASE \E y \in Acct : store'[y] = g
  BY <1>2
<1>3. CASE \E q \in Proc : g \in {w'[q].rec, w'[q].cur, w'[q].seen, w'[q].creds}
  <2>1. PICK q \in Proc : g \in {w'[q].rec, w'[q].cur, w'[q].seen, w'[q].creds}
    BY <1>3
  <2>2. CASE q = p
    BY <1>0, <2>1, <2>2
  <2>3. CASE q # p
    BY <2>1, <2>3 DEF Placed
  <2> QED
    BY <2>2, <2>3
<1> QED
  BY <1>1, <1>2, <1>3 DEF Placed

\* What a job that a step leaves alone has in hand.
LEMMA HandBeside ==
    ASSUME Ledger, NEW q \in Proc, w'[q] = w[q], NEW x, zone' = zone, forfeit \subseteq forfeit',
           \A g \in Grant : Placed(g)' => Placed(g) \/ g = x,
           w[q].pc \in Spending => w[q].new # x,
           \A g \in Grant : g \in valid' => g \in valid \/ ~Issued(g)
    PROVE  Hand(w[q])' /\ Honest(w[q])'
<1>1. Hand(w[q]) /\ Honest(w[q]) /\ Shape(w[q])
  BY DEF Ledger, CustodyInv, Types
<1>2. w[q].pc \in {"save", "livewrite"} => ~Placed(w[q].new)'
  BY <1>1 DEF Hand, Shape, Spending
<1>3. w[q].pc \in {"livewrite", "livesave"} => w[q].cur \notin valid'
  <2>1. w[q].pc \in {"livewrite", "livesave"} => w[q].cur \in Grant /\ Placed(w[q].cur)
    BY <1>1 DEF Shape, Placed
  <2> QED
    BY <1>1, <2>1 DEF Ledger, Books, Hand
<1> QED
  BY <1>1, <1>2, <1>3 DEF Hand, Honest

\* A step of p: its own job, and what the others have in hand.
LEMMA LedgerOf ==
    ASSUME Ledger, CustodyInv', Books', FiledHonestly', NEW p \in Proc, NEW x,
           zone' = zone, forfeit \subseteq forfeit',
           \A q \in Proc \ {p} : w'[q] = w[q],
           \A g \in Grant : Placed(g)' => Placed(g) \/ g = x,
           \A q \in Proc \ {p} : w[q].pc \in Spending => w[q].new # x,
           \A g \in Grant : g \in valid' => g \in valid \/ ~Issued(g),
           Hand(w[p])', Honest(w[p])', \A q \in Proc \ {p} : Apart(w[p], w[q])'
    PROVE  Ledger'
<1>1. \A q \in Proc \ {p} : Hand(w[q])' /\ Honest(w[q])'
  BY HandBeside
<1>2. \A q, r \in Proc : q # r => Apart(w[q], w[r])'
  <2>1. \A q \in Proc \ {p} : Apart(w[q], w[p])'
    BY DEF Apart
  <2>2. \A q, r \in Proc \ {p} : q # r => Apart(w[q], w[r])'
    BY DEF Ledger, Apart
  <2> QED
    BY <2>1, <2>2
<1> QED
  BY <1>1, <1>2 DEF Ledger

-----------------------------------------------------------------------------
(* Steps that move one job on and neither a file nor the token endpoint *)

\* What a job takes with it when it has no pair in hand.
Settled(p) ==
    /\ w'[p].pc \notin Spending /\ w'[p].new = NoGrant
    /\ \A g \in {w'[p].rec, w'[p].cur, w'[p].seen, w'[p].creds} : g = NoGrant \/ Placed(g)
    /\ w'[p].pc = "post" => zone[w'[p].rec] = "stale"
    /\ w'[p].pc = "livepost" => zone[w'[p].cur] = "band"
    /\ Honest(w[p])'

LEMMA SettledPart ==
    ASSUME Ledger, CustodyInv', NEW p \in Proc, Settled(p), zone' = zone
    PROVE  Hand(w[p])' /\ \A q \in Proc \ {p} : Apart(w[p], w[q])'
BY DEF Settled, Hand, Apart, Spending

LEMMA LedgerQuiet ==
    ASSUME Ledger, CustodyInv', NEW p \in Proc, UNCHANGED <<server, store, live>>, forfeit \subseteq forfeit',
           \A q \in Proc \ {p} : w'[q] = w[q], Settled(p)
    PROVE  Ledger'
<1>1. \A g \in Grant : Placed(g)' => Placed(g) \/ g = NoGrant
  <2>1. \A g \in {w'[p].rec, w'[p].cur, w'[p].seen, w'[p].creds} : g = NoGrant \/ Placed(g) \/ g = NoGrant
    BY DEF Settled
  <2>2. Placed(live') /\ \A y \in Acct : Placed(store'[y])
    BY DEF Placed
  <2> QED
    BY <2>1, <2>2, PlacedBy
<1>2. Books'
  <2>1. \A g \in Grant : InHand(g)' => InHand(g)
    BY GrantsAssumption DEF InHand, Settled
  <2> QED
    BY <1>1, <2>1, GrantsAssumption, BooksKept DEF Ledger
<1>3. FiledHonestly'
  BY DEF Ledger, FiledHonestly
<1>4. \A q \in Proc \ {p} : w[q].pc \in Spending => w[q].new # NoGrant
  BY GrantsAssumption DEF Ledger, CustodyInv, Types, Shape, Spending
<1>5. zone' = zone /\ valid' = valid
  BY DEF server
<1> QED
  BY <1>1, <1>2, <1>3, <1>4, <1>5, SettledPart, LedgerOf DEF Settled

\* A job that ends, and one whose token is served.
LEMMA RestSettled ==
    ASSUME Types, NEW p \in Proc, w'[p] = Idle \/ w'[p] = Served(p)
    PROVE  Settled(p)
<1>1. w[p] \in Job
  BY DEF Types, TypeOK
<1>2. CASE w'[p] = Idle
  BY <1>2 DEF Idle, Settled, Spending, Honest
<1>3. CASE w'[p] = [w[p] EXCEPT !.pc = "reread", !.rec = NoGrant, !.cur = NoGrant, !.new = NoGrant]
  <2>1. /\ w'[p].pc = "reread" /\ w'[p].new = NoGrant /\ w'[p].rec = NoGrant /\ w'[p].cur = NoGrant
        /\ w'[p].seen = w[p].seen /\ w'[p].creds = w[p].creds
    BY <1>1, <1>3 DEF Job
  <2>2. Placed(w[p].seen) /\ Placed(w[p].creds)
    BY DEF Placed
  <2> QED
    BY <2>1, <2>2 DEF Settled, Spending, Honest
<1> QED
  BY <1>2, <1>3 DEF Served

\* A login read under the lock: left alone, rotated or served.
LEMMA BeyondSettled ==
    ASSUME Types, NEW p \in Proc, NEW g, w'[p] = Beyond(p, g), w[p].new = NoGrant, Placed(g),
           g.acct \in forfeit' \cup {w[p].acct}
    PROVE  Settled(p)
<1>1. w[p] \in Job
  BY DEF Types, TypeOK
<1>2. CASE w'[p] = [w[p] EXCEPT !.pc = "livepost", !.cur = g] /\ zone[g] = "band"
  <2>1. /\ w'[p].pc = "livepost" /\ w'[p].new = NoGrant /\ w'[p].rec = w[p].rec /\ w'[p].cur = g
        /\ w'[p].seen = w[p].seen /\ w'[p].creds = w[p].creds /\ w'[p].acct = w[p].acct
    BY <1>1, <1>2 DEF Job
  <2>2. Placed(w[p].seen) /\ Placed(w[p].creds) /\ Placed(w[p].rec)
    BY DEF Placed
  <2> QED
    BY <1>2, <2>1, <2>2 DEF Settled, Spending, Honest
<1> QED
  BY <1>2, RestSettled DEF Beyond

\* Moves that change where a job is and at most one thing it holds.
LEMMA MoveSettled ==
    ASSUME Types, NEW p \in Proc, w'[p] \in Job, w[p].new = NoGrant,
           w'[p].pc \notin Spending \cup {"post", "livepost"}, w'[p].new = w[p].new,
           w'[p].rec = w[p].rec \/ w'[p].rec = NoGrant \/ Placed(w'[p].rec),
           w'[p].cur = w[p].cur \/ w'[p].cur = NoGrant \/ Placed(w'[p].cur),
           w'[p].seen = w[p].seen \/ w'[p].seen = NoGrant \/ Placed(w'[p].seen),
           w'[p].creds = w[p].creds \/ w'[p].creds = NoGrant \/ Placed(w'[p].creds),
           w'[p].pc \in {"check", "lock", "adopt"} => w'[p].rec.acct \in forfeit' \cup {w'[p].acct},
           w'[p].pc = "install" => w'[p].creds.acct \in forfeit' \cup {w'[p].acct}
    PROVE  Settled(p)
<1>1. Placed(w[p].seen) /\ Placed(w[p].creds) /\ Placed(w[p].rec) /\ Placed(w[p].cur)
  BY DEF Placed
<1> QED
  BY <1>1 DEF Settled, Spending, Honest

\* Where a job starts: with nothing in hand.
LEMMA StartDoes ==
    ASSUME Types, NEW p \in Proc, NEW a \in Acct, StartPoll(p, a) \/ StartAuto(p, a) \/ StartSwitch(p, a)
    PROVE  /\ w'[p].pc \in {"read", "resolve", "creds"} /\ w'[p].new = NoGrant /\ w'[p].rec = NoGrant
           /\ w'[p].cur = NoGrant /\ w'[p].seen = NoGrant /\ w'[p].creds = NoGrant
<1>0. w \in [Proc -> Job]
  BY DEF Types, TypeOK
<1>1. CASE StartPoll(p, a)
  <2>1. w'[p] = [Idle EXCEPT !.pc = "read", !.kind = "poll", !.acct = a]
    BY <1>0, <1>1 DEF StartPoll
  <2> QED
    BY <2>1 DEF Idle
<1>2. CASE StartAuto(p, a)
  <2> DEFINE s == IF p \in Ticker /\ LiveState(live) = "unattributed" THEN "resolve" ELSE "creds"
  <2>1. PICK o \in LiveOwner(live) :
          w' = [w EXCEPT ![p] = [Idle EXCEPT !.pc = s, !.kind = "auto", !.acct = a, !.believed = o]]
    BY <1>2 DEF StartAuto
  <2>2. s \in {"read", "resolve", "creds"}
    OBVIOUS
  <2> HIDE DEF s
  <2>3. w'[p] = [Idle EXCEPT !.pc = s, !.kind = "auto", !.acct = a, !.believed = o]
    BY <1>0, <2>1
  <2> QED
    BY <2>2, <2>3 DEF Idle
<1>3. CASE StartSwitch(p, a)
  <2>1. PICK force \in BOOLEAN, o \in LiveOwner(live) :
          w'[p] = [Idle EXCEPT !.pc = "creds", !.kind = "switch", !.acct = a, !.believed = o, !.force = force]
    BY <1>0, <1>3 DEF StartSwitch
  <2> QED
    BY <2>1 DEF Idle
<1> QED
  BY <1>1, <1>2, <1>3

LEMMA StartSettled ==
    ASSUME Ledger, NEW p \in Proc, NEW a \in Acct, StartPoll(p, a) \/ StartAuto(p, a) \/ StartSwitch(p, a)
    PROVE  Settled(p)
<1>1. Types
  BY DEF Ledger, CustodyInv
<1>2. /\ w'[p].pc \in {"read", "resolve", "creds"} /\ w'[p].new = NoGrant /\ w'[p].rec = NoGrant
      /\ w'[p].cur = NoGrant /\ w'[p].seen = NoGrant /\ w'[p].creds = NoGrant
  BY <1>1, StartDoes
<1> QED
  BY <1>2 DEF Settled, Spending, Honest

LEMMA PollSettled ==
    ASSUME Ledger, Types', NEW p \in Proc, ReadStored(p) \/ CheckLive(p) \/ LockRead(p)
    PROVE  Settled(p)
<1>0. /\ w \in [Proc -> Job] /\ w[p] \in Job /\ w'[p] \in Job /\ Shape(w[p]) /\ Types
      /\ Hand(w[p]) /\ Honest(w[p]) /\ FiledHonestly
  BY DEF Ledger, CustodyInv, Types, TypeOK
<1>1. w[p].new = NoGrant /\ w[p].acct \in Acct /\ forfeit' = forfeit
  BY <1>0 DEF ReadStored, CheckLive, LockRead, At, Hand, Spending, Shape, history
<1>2. CASE ReadStored(p)
  <2>1. /\ w'[p].pc = "check" /\ w'[p].rec = store[w[p].acct] /\ w'[p].acct = w[p].acct
        /\ w'[p].cur = w[p].cur /\ w'[p].seen = w[p].seen /\ w'[p].creds = w[p].creds
        /\ w'[p].new = w[p].new
    BY <1>0, <1>2 DEF ReadStored, Job
  <2>2. Placed(w'[p].rec) /\ w'[p].rec.acct \in forfeit \cup {w[p].acct}
    BY <1>0, <1>1, <2>1 DEF Placed, FiledHonestly
  <2> QED
    BY <1>0, <1>1, <2>1, <2>2, MoveSettled DEF Spending
<1>3. CASE CheckLive(p)
  <2>1. \/ w'[p] = Idle \/ w'[p] = Served(p)
        \/ w'[p] = [w[p] EXCEPT !.pc = "lock"]
        \/ w'[p] = [w[p] EXCEPT !.pc = "post"] /\ zone[w[p].rec] = "stale"
    BY <1>0, <1>3 DEF CheckLive, Goto
  <2>2. w[p].rec.acct \in forfeit \cup {w[p].acct}
    BY <1>0, <1>3 DEF CheckLive, At, Honest
  <2>3. ASSUME NEW s \in {"lock", "post"}, w'[p] = [w[p] EXCEPT !.pc = s], s = "post" => zone[w[p].rec] = "stale"
        PROVE  Settled(p)
    <3>1. /\ w'[p].pc = s /\ w'[p].rec = w[p].rec /\ w'[p].acct = w[p].acct
          /\ w'[p].cur = w[p].cur /\ w'[p].seen = w[p].seen /\ w'[p].creds = w[p].creds
          /\ w'[p].new = w[p].new
      BY <1>0, <2>3 DEF Job
    <3>2. Placed(w[p].seen) /\ Placed(w[p].creds) /\ Placed(w[p].rec) /\ Placed(w[p].cur)
      BY DEF Placed
    <3> QED
      BY <1>1, <2>2, <2>3, <3>1, <3>2 DEF Settled, Spending, Honest
  <2> QED
    BY <1>0, <2>1, <2>3, RestSettled
<1>4. CASE LockRead(p)
  <2>1. w[p].rec.acct \in forfeit \cup {w[p].acct}
    BY <1>0, <1>4 DEF LockRead, At, Honest
  <2>2. \/ w'[p] = Idle
        \/ w'[p] = Beyond(p, live) /\ live = w[p].rec
        \/ w'[p] = [w[p] EXCEPT !.pc = "adopt", !.cur = live]
    BY <1>0, <1>4 DEF LockRead, Done
  <2>3. CASE w'[p] = [w[p] EXCEPT !.pc = "adopt", !.cur = live]
    <3>1. /\ w'[p].pc = "adopt" /\ w'[p].rec = w[p].rec /\ w'[p].acct = w[p].acct
          /\ w'[p].cur = live /\ w'[p].seen = w[p].seen /\ w'[p].creds = w[p].creds
          /\ w'[p].new = w[p].new
      BY <1>0, <2>3 DEF Job
    <3>2. Placed(live)
      BY DEF Placed
    <3> QED
      BY <1>0, <1>1, <2>1, <3>1, <3>2, MoveSettled DEF Spending
  <2>4. CASE w'[p] = Beyond(p, live) /\ live = w[p].rec
    <3>1. Placed(live)
      BY DEF Placed
    <3> QED
      BY <1>0, <1>1, <2>1, <2>4, <3>1, BeyondSettled
  <2> QED
    BY <1>0, <2>2, <2>3, <2>4, RestSettled
<1> QED
  BY <1>2, <1>3, <1>4

LEMMA SwitchSettled ==
    ASSUME Ledger, Types', NEW p \in Proc,
           ResolveLoad(p) \/ ResolveOwner(p) \/ ReadCreds(p) \/ ReRead(p) \/ Sync(p)
    PROVE  Settled(p)
<1>0. /\ w \in [Proc -> Job] /\ w[p] \in Job /\ w'[p] \in Job /\ Shape(w[p]) /\ Types
      /\ Hand(w[p]) /\ FiledHonestly
  BY DEF Ledger, CustodyInv, Types, TypeOK
<1>1. w[p].new = NoGrant /\ w[p].acct \in Acct /\ forfeit' = forfeit
  BY <1>0 DEF ResolveLoad, ResolveOwner, ReadCreds, ReRead, Sync, At, Hand, Spending, Shape, history
<1>2. \/ w'[p] = Idle
      \/ w'[p] = [w[p] EXCEPT !.pc = "oracle", !.seen = live]
      \/ w'[p] = [w[p] EXCEPT !.pc = "oracleadopt"]
      \/ w'[p] = [w[p] EXCEPT !.pc = "creds", !.seen = NoGrant, !.foreign = TRUE]
      \/ w'[p] = [w[p] EXCEPT !.pc = "read"]
      \/ w'[p] = [w[p] EXCEPT !.pc = "install", !.creds = store[w[p].acct]]
  BY <1>0 DEF ResolveLoad, ResolveOwner, ReadCreds, ReRead, Sync, Goto, Done
<1>3. Placed(live) /\ Placed(store[w[p].acct]) /\ store[w[p].acct].acct \in forfeit \cup {w[p].acct}
  BY <1>0, <1>1 DEF Placed, FiledHonestly
<1>4. CASE w'[p] = [w[p] EXCEPT !.pc = "oracle", !.seen = live]
  <2>1. /\ w'[p].pc = "oracle" /\ w'[p].rec = w[p].rec /\ w'[p].cur = w[p].cur /\ w'[p].seen = live
        /\ w'[p].creds = w[p].creds /\ w'[p].new = w[p].new
    BY <1>0, <1>4 DEF Job
  <2> QED
    BY <1>0, <1>1, <1>3, <2>1, MoveSettled DEF Spending
<1>5. CASE w'[p] = [w[p] EXCEPT !.pc = "oracleadopt"] \/ w'[p] = [w[p] EXCEPT !.pc = "read"]
  <2>1. /\ w'[p].pc \in {"oracleadopt", "read"} /\ w'[p].rec = w[p].rec /\ w'[p].cur = w[p].cur
        /\ w'[p].seen = w[p].seen /\ w'[p].creds = w[p].creds /\ w'[p].new = w[p].new
    BY <1>0, <1>5 DEF Job
  <2> QED
    BY <1>0, <1>1, <2>1, MoveSettled DEF Spending
<1>6. CASE w'[p] = [w[p] EXCEPT !.pc = "creds", !.seen = NoGrant, !.foreign = TRUE]
  <2>1. /\ w'[p].pc = "creds" /\ w'[p].rec = w[p].rec /\ w'[p].cur = w[p].cur
        /\ w'[p].seen = NoGrant /\ w'[p].creds = w[p].creds /\ w'[p].new = w[p].new
    BY <1>0, <1>6 DEF Job
  <2> QED
    BY <1>0, <1>1, <2>1, MoveSettled DEF Spending
<1>7. CASE w'[p] = [w[p] EXCEPT !.pc = "install", !.creds = store[w[p].acct]]
  <2>1. /\ w'[p].pc = "install" /\ w'[p].rec = w[p].rec /\ w'[p].cur = w[p].cur /\ w'[p].acct = w[p].acct
        /\ w'[p].seen = w[p].seen /\ w'[p].creds = store[w[p].acct] /\ w'[p].new = w[p].new
    BY <1>0, <1>7 DEF Job
  <2> QED
    BY <1>0, <1>1, <1>3, <2>1, MoveSettled DEF Spending
<1> QED
  BY <1>0, <1>2, <1>4, <1>5, <1>6, <1>7, RestSettled

\* The moves of a job that reads.
Moves(p) ==
    \/ \E a \in Acct : StartPoll(p, a) \/ StartAuto(p, a) \/ StartSwitch(p, a)
    \/ ReadStored(p) \/ CheckLive(p) \/ LockRead(p)
    \/ ResolveLoad(p) \/ ResolveOwner(p) \/ ReadCreds(p) \/ ReRead(p) \/ Sync(p)

LEMMA MovesQuietly ==
    ASSUME Ledger, Types', NEW p \in Proc, Moves(p)
    PROVE  /\ UNCHANGED <<server, store, live, history>> /\ Settled(p)
           /\ \A q \in Proc \ {p} : w'[q] = w[q]
<1>1. UNCHANGED <<server, store, live, history>>
  BY DEF Moves, StartPoll, StartAuto, StartSwitch, ReadStored, CheckLive, LockRead,
         ResolveLoad, ResolveOwner, ReadCreds, ReRead, Sync, files
<1>2. w \in [Proc -> Job]
  BY DEF Ledger, CustodyInv, Types, TypeOK
<1>3. \A q \in Proc \ {p} : w'[q] = w[q]
  BY <1>2 DEF Moves, StartPoll, StartAuto, StartSwitch, ReadStored, CheckLive, LockRead,
              ResolveLoad, ResolveOwner, ReadCreds, ReRead, Sync, Done, Goto
<1> QED
  BY <1>1, <1>3, StartSettled, PollSettled, SwitchSettled DEF Moves

-----------------------------------------------------------------------------
(* Steps at the token endpoint, and writes *)

\* A POST that mints: the pair is in p's hand now, or its answer was lost.
LEMMA LedgerMint ==
    ASSUME Ledger, CustodyInv', NEW p \in Proc, NEW g \in Grant, Mint(g), zone[g] # "fresh",
           UNCHANGED <<zone, store, live>>, forfeit \subseteq forfeit',
           \A q \in Proc \ {p} : w'[q] = w[q],
           \/ Settled(p)
           \/ /\ w'[p].pc \in {"save", "livewrite"} /\ w'[p].new = Fresh(g.acct)
              /\ w'[p].rec = w[p].rec /\ w'[p].cur = w[p].cur
              /\ w'[p].seen = w[p].seen /\ w'[p].creds = w[p].creds
              /\ w'[p].pc = "livewrite" => w[p].cur = g /\ zone[g] = "band"
              /\ Honest(w[p])'
    PROVE  Ledger'
<1> DEFINE f == Fresh(g.acct)
<1>1. g.acct \in Owner /\ Types /\ Books /\ f \in Grant /\ minted[g.acct] < MaxGen /\ g \in valid
  BY MintType DEF Ledger, CustodyInv, Types, Mint, Grant
<1>2. ~Issued(f) /\ f # g
  <2>1. minted[g.acct] \in Nat /\ f.acct = g.acct /\ f.gen = minted[g.acct] + 1
    BY <1>1, GrantsAssumption DEF Types, TypeOK, Fresh
  <2> QED
    BY <1>1, <2>1 DEF Issued, Books
<1>3. zone[f] = "fresh" /\ ~Placed(f) /\ ~InHand(f) /\ f \notin valid
  BY <1>1, <1>2 DEF Books
<1>4. valid' = (valid \ {g}) \cup {f} /\ minted' = [minted EXCEPT ![g.acct] = @ + 1]
  BY DEF Mint
<1> HIDE DEF f
<1>5. \A h \in Grant : Placed(h)' => Placed(h) \/ h = NoGrant
  <2>1. \A h \in {w'[p].rec, w'[p].cur, w'[p].seen, w'[p].creds} : h = NoGrant \/ Placed(h) \/ h = NoGrant
    BY DEF Settled, Placed
  <2>2. Placed(live') /\ \A y \in Acct : Placed(store'[y])
    BY DEF Placed
  <2> QED
    BY <2>1, <2>2, PlacedBy
<1>6. \A h \in Grant : InHand(h)' => InHand(h) \/ h = f
  BY GrantsAssumption DEF InHand, Settled, f
<1>7. Books'
  <2>1. \A h \in Grant : Placed(h)' \/ InHand(h)' => Placed(h) \/ InHand(h) \/ h = Fresh(g.acct)
    BY <1>5, <1>6, GrantsAssumption DEF f
  <2> QED
    BY <1>1, <1>4, <2>1, BooksIssue DEF f
<1>8. FiledHonestly'
  BY DEF Ledger, FiledHonestly
<1>9. \A q \in Proc \ {p} : w[q].pc \in Spending => w[q].new # NoGrant /\ w[q].new # f
  BY <1>3, GrantsAssumption DEF Ledger, CustodyInv, Types, Shape, Spending, InHand
<1>10. \A h \in Grant : h \in valid' => h \in valid \/ ~Issued(h)
  BY <1>2, <1>4
<1>11. Hand(w[p])' /\ Honest(w[p])' /\ \A q \in Proc \ {p} : Apart(w[p], w[q])'
  <2>1. CASE Settled(p)
    BY <2>1, SettledPart DEF Settled
  <2>2. CASE ~Settled(p)
    <3>1. ~Placed(w[p].new)'
      <4>1. w'[p].new \in Grant /\ ~Placed(w'[p].new)
        BY <1>1, <1>3, <2>2 DEF f
      <4> QED
        BY <1>5, <4>1, GrantsAssumption
    <3>2. Hand(w[p])'
      BY <1>2, <1>3, <1>4, <2>2, <3>1 DEF Hand, Spending, f
    <3>3. ASSUME NEW q \in Proc \ {p} PROVE Apart(w[p], w[q])'
      <4>1. w[q].pc \in {"livewrite", "livesave"} => w[q].cur # g
        BY <1>1 DEF Ledger, Hand
      <4> QED
        BY <1>9, <2>2, <4>1 DEF Apart, Spending, f
    <3> QED
      BY <2>2, <3>2, <3>3
  <2> QED
    BY <2>1, <2>2
<1> QED
  BY <1>5, <1>7, <1>8, <1>9, <1>10, <1>11, LedgerOf

\* A write: what p has in hand goes where it belongs, or what is placed already
\* is copied.
LEMMA LedgerWrite ==
    ASSUME Ledger, CustodyInv', NEW p \in Proc, UNCHANGED server, forfeit \subseteq forfeit',
           FiledHonestly', \A q \in Proc \ {p} : w'[q] = w[q],
           live' \notin Grant \/ Placed(live') \/ live' = w[p].new,
           \A y \in Acct : Placed(store'[y]) \/ store'[y] = w[p].new,
           \/ Settled(p)
           \/ /\ w[p].pc = "livewrite" /\ w'[p].pc = "livesave" /\ w'[p].new = w[p].new
              /\ w'[p].rec = w[p].rec /\ w'[p].cur = w[p].cur /\ w'[p].acct = w[p].acct
              /\ w'[p].seen = w[p].seen /\ w'[p].creds = w[p].creds
    PROVE  Ledger'
<1>0. Hand(w[p]) /\ Honest(w[p]) /\ \A q \in Proc \ {p} : Apart(w[p], w[q]) /\ Shape(w[q])
  BY DEF Ledger, CustodyInv, Types
<1>1. \A g \in Grant : Placed(g)' => Placed(g) \/ g = w[p].new
  <2>1. \A g \in {w'[p].rec, w'[p].cur, w'[p].seen, w'[p].creds} : g = NoGrant \/ Placed(g) \/ g = w[p].new
    BY DEF Settled, Placed
  <2> QED
    BY <2>1, PlacedBy
<1>2. Books'
  <2>1. \A g \in Grant : InHand(g)' => InHand(g)
    BY GrantsAssumption DEF InHand, Settled
  <2>2. \A g \in Grant : g = w[p].new => InHand(g)
    BY DEF InHand
  <2> QED
    BY <1>1, <2>1, <2>2, BooksKept DEF Ledger
<1>3. \A q \in Proc \ {p} : w[q].pc \in Spending => w[q].new # w[p].new
  BY <1>0, GrantsAssumption DEF Hand, Apart, Shape, Spending
<1>4. Hand(w[p])' /\ Honest(w[p])' /\ \A q \in Proc \ {p} : Apart(w[p], w[q])'
  <2>1. CASE Settled(p)
    BY <2>1, SettledPart DEF Settled, server
  <2>2. CASE ~Settled(p)
    BY <1>0, <2>2 DEF Hand, Honest, Apart, Spending, server
  <2> QED
    BY <2>1, <2>2
<1>5. zone' = zone /\ valid' = valid
  BY DEF server
<1> QED
  BY <1>1, <1>2, <1>3, <1>4, <1>5, LedgerOf

\* The job of p now holds the pair minted from g, and what it held.
Takes(p, s, g) ==
    /\ w'[p].pc = s /\ w'[p].new = Fresh(g.acct)
    /\ w'[p].rec = w[p].rec /\ w'[p].cur = w[p].cur /\ w'[p].acct = w[p].acct
    /\ w'[p].seen = w[p].seen /\ w'[p].creds = w[p].creds

\* What a POST of the stored grant comes to.
LEMMA PostDoes ==
    ASSUME Ledger, NEW p \in Proc, Post(p)
    PROVE  /\ At(p, "post") /\ w[p].rec \in Grant /\ zone[w[p].rec] = "stale"
           /\ w[p].rec.acct \in forfeit \cup {w[p].acct}
           /\ UNCHANGED <<zone, store, live, raced>> /\ forfeit \subseteq forfeit'
           /\ \A q \in Proc \ {p} : w'[q] = w[q]
           /\ \/ Mint(w[p].rec) /\ Takes(p, "save", w[p].rec)
              \/ Mint(w[p].rec) /\ w'[p] = Idle /\ w[p].rec.acct \in forfeit'
              \/ w'[p] = Idle /\ UNCHANGED server
<1>0. w \in [Proc -> Job] /\ w[p] \in Job /\ Shape(w[p]) /\ Hand(w[p]) /\ Honest(w[p])
  BY DEF Ledger, CustodyInv, Types, TypeOK
<1>1. /\ At(p, "post") /\ w[p].rec \in Grant /\ zone[w[p].rec] = "stale"
      /\ w[p].rec.acct \in forfeit \cup {w[p].acct}
  BY <1>0 DEF Post, At, Shape, Hand, Honest
<1>2. /\ UNCHANGED <<zone, store, live, raced>> /\ forfeit \subseteq forfeit'
      /\ \A q \in Proc \ {p} : w'[q] = w[q]
  BY <1>0 DEF Post, Done, files
<1>3. \/ Mint(w[p].rec) /\ w'[p] = [w[p] EXCEPT !.pc = "save", !.new = Fresh(w[p].rec.acct)]
      \/ Mint(w[p].rec) /\ w'[p] = Idle /\ w[p].rec.acct \in forfeit'
      \/ w'[p] = Idle /\ UNCHANGED server
  BY <1>0 DEF Post, Done, server
<1>4. w'[p] = [w[p] EXCEPT !.pc = "save", !.new = Fresh(w[p].rec.acct)] => Takes(p, "save", w[p].rec)
  BY <1>0 DEF Job, Takes
<1> QED
  BY <1>1, <1>2, <1>3, <1>4

\* What a POST of the live grant comes to.
LEMMA LivePostDoes ==
    ASSUME Ledger, NEW p \in Proc, LivePost(p)
    PROVE  /\ At(p, "livepost") /\ w[p].cur \in Grant /\ zone[w[p].cur] = "band"
           /\ w[p].cur.acct \in forfeit \cup {w[p].acct}
           /\ UNCHANGED <<zone, store, live, raced>> /\ forfeit \subseteq forfeit'
           /\ \A q \in Proc \ {p} : w'[q] = w[q]
           /\ \/ Mint(w[p].cur) /\ Takes(p, "livewrite", w[p].cur)
              \/ Mint(w[p].cur) /\ w'[p] = Served(p) /\ w[p].cur.acct \in forfeit'
              \/ w'[p] = Served(p) /\ UNCHANGED server
<1>0. w \in [Proc -> Job] /\ w[p] \in Job /\ Shape(w[p]) /\ Hand(w[p]) /\ Honest(w[p])
  BY DEF Ledger, CustodyInv, Types, TypeOK
<1>1. /\ At(p, "livepost") /\ w[p].cur \in Grant /\ zone[w[p].cur] = "band"
      /\ w[p].cur.acct \in forfeit \cup {w[p].acct}
  BY <1>0 DEF LivePost, At, Shape, Hand, Honest
<1>2. /\ UNCHANGED <<zone, store, live, raced>> /\ forfeit \subseteq forfeit'
      /\ \A q \in Proc \ {p} : w'[q] = w[q]
  BY <1>0 DEF LivePost, files
<1>3. \/ Mint(w[p].cur) /\ w'[p] = [w[p] EXCEPT !.pc = "livewrite", !.new = Fresh(w[p].cur.acct)]
      \/ Mint(w[p].cur) /\ w'[p] = Served(p) /\ w[p].cur.acct \in forfeit'
      \/ w'[p] = Served(p) /\ UNCHANGED server
  BY <1>0 DEF LivePost, server
<1>4. w'[p] = [w[p] EXCEPT !.pc = "livewrite", !.new = Fresh(w[p].cur.acct)] => Takes(p, "livewrite", w[p].cur)
  BY <1>0 DEF Job, Takes
<1> QED
  BY <1>1, <1>2, <1>3, <1>4

LEMMA PostLedger ==
    ASSUME Ledger, CustodyInv', NEW p \in Proc, Post(p) \/ LivePost(p)
    PROVE  Ledger'
<1>0. Types
  BY DEF Ledger, CustodyInv
<1>1. CASE Post(p)
  <2>1. CASE Mint(w[p].rec) /\ Takes(p, "save", w[p].rec)
    <3>1. Honest(w[p])'
      BY <1>1, <2>1, PostDoes DEF Takes, Honest
    <3> QED
      BY <1>1, <2>1, <3>1, PostDoes, LedgerMint DEF Takes
  <2>2. CASE Mint(w[p].rec) /\ w'[p] = Idle
    BY <1>0, <1>1, <2>2, PostDoes, RestSettled, LedgerMint
  <2>3. CASE w'[p] = Idle /\ UNCHANGED server
    BY <1>0, <1>1, <2>3, PostDoes, RestSettled, LedgerQuiet
  <2> QED
    BY <1>1, <2>1, <2>2, <2>3, PostDoes
<1>2. CASE LivePost(p)
  <2>1. CASE Mint(w[p].cur) /\ Takes(p, "livewrite", w[p].cur)
    <3>1. Honest(w[p])'
      BY <1>2, <2>1, LivePostDoes DEF Takes, Honest
    <3> QED
      BY <1>2, <2>1, <3>1, LivePostDoes, LedgerMint DEF Takes
  <2>2. CASE Mint(w[p].cur) /\ w'[p] = Served(p)
    BY <1>0, <1>2, <2>2, LivePostDoes, RestSettled, LedgerMint
  <2>3. CASE w'[p] = Served(p) /\ UNCHANGED server
    BY <1>0, <1>2, <2>3, LivePostDoes, RestSettled, LedgerQuiet
  <2> QED
    BY <1>2, <2>1, <2>2, <2>3, LivePostDoes
<1> QED
  BY <1>1, <1>2

LEMMA ForfeitGrows ==
    ASSUME NEW p \in Proc, Save(p) \/ Adopt(p) \/ LiveWrite(p) \/ LiveSave(p) \/ ResolveAdopt(p) \/ Install(p)
    PROVE  forfeit \subseteq forfeit' /\ raced \subseteq raced'
<1>1. CASE Save(p) \/ LiveWrite(p) \/ LiveSave(p)
  BY <1>1 DEF Save, LiveWrite, LiveSave
<1>2. CASE Adopt(p) \/ ResolveAdopt(p)
  BY <1>2 DEF Adopt, ResolveAdopt, history
<1>3. CASE Install(p)
  BY <1>3 DEF Install, history
<1> QED
  BY <1>1, <1>2, <1>3

\* What the last write of a refresh comes to: the pair is stored over the grant
\* it was minted from, left out, or lost to a fault.
LEMMA SaveDoes ==
    ASSUME Ledger, NEW p \in Proc, Save(p)
    PROVE  /\ At(p, "save") /\ w[p].new \in Grant /\ w[p].acct \in Acct
           /\ UNCHANGED <<server, live>> /\ \A q \in Proc \ {p} : w'[q] = w[q]
           /\ w'[p] = Idle \/ w'[p] = Served(p)
           /\ \/ store' = WriteRecord(w[p].acct, w[p].rec, w[p].new)
              \/ store' = store /\ w[p].new.acct \in forfeit'
<1>0. w \in [Proc -> Job] /\ Shape(w[p])
  BY DEF Ledger, CustodyInv, Types, TypeOK
<1> QED
  BY <1>0 DEF Save, At, Done, Shape

LEMMA LiveSaveDoes ==
    ASSUME Ledger, NEW p \in Proc, LiveSave(p)
    PROVE  /\ At(p, "livesave") /\ w[p].new \in Grant /\ w[p].cur \in Grant /\ w[p].acct \in Acct
           /\ UNCHANGED <<server, live>> /\ \A q \in Proc \ {p} : w'[q] = w[q]
           /\ w'[p] = Served(p)
           /\ \/ store' = WriteRecord(w[p].acct, w[p].cur, w[p].new)
              \/ store' = store /\ w[p].new.acct \in forfeit'
<1>0. w \in [Proc -> Job] /\ Shape(w[p])
  BY DEF Ledger, CustodyInv, Types, TypeOK
<1> QED
  BY <1>0 DEF LiveSave, At, Shape

LEMMA LiveWriteDoes ==
    ASSUME Ledger, NEW p \in Proc, LiveWrite(p)
    PROVE  /\ At(p, "livewrite") /\ w[p].new \in Grant /\ w[p].cur \in Grant /\ w[p].acct \in Acct
           /\ UNCHANGED <<server, store>> /\ \A q \in Proc \ {p} : w'[q] = w[q]
           /\ w'[p].pc = "livesave" /\ w'[p].new = w[p].new
           /\ w'[p].rec = w[p].rec /\ w'[p].cur = w[p].cur /\ w'[p].acct = w[p].acct
           /\ w'[p].seen = w[p].seen /\ w'[p].creds = w[p].creds
           /\ \/ live' = IF StillOurs(p) THEN w[p].new ELSE live
              \/ live' = live /\ w[p].new.acct \in forfeit'
<1>0. w \in [Proc -> Job] /\ w[p] \in Job /\ Shape(w[p])
  BY DEF Ledger, CustodyInv, Types, TypeOK
<1>1. w'[p] = [w[p] EXCEPT !.pc = "livesave"]
  BY <1>0 DEF LiveWrite, Goto
<1>2. /\ w'[p].pc = "livesave" /\ w'[p].new = w[p].new
      /\ w'[p].rec = w[p].rec /\ w'[p].cur = w[p].cur /\ w'[p].acct = w[p].acct
      /\ w'[p].seen = w[p].seen /\ w'[p].creds = w[p].creds
  BY <1>0, <1>1 DEF Job
<1>3. At(p, "livewrite") /\ UNCHANGED <<server, store>> /\ \A q \in Proc \ {p} : w'[q] = w[q]
  BY <1>0 DEF LiveWrite, Goto
<1>4. \/ live' = IF StillOurs(p) THEN w[p].new ELSE live
      \/ live' = live /\ w[p].new.acct \in forfeit'
  BY DEF LiveWrite
<1> QED
  BY <1>0, <1>2, <1>3, <1>4 DEF At, Shape

\* A snapshot is overwritten by a login of its account, or of one that may have
\* lost a pair.
LEMMA RecordHonest ==
    ASSUME Ledger, NEW a \in Acct, NEW e, NEW g, forfeit \subseteq forfeit',
           g.acct \in forfeit' \cup {a}, store' = WriteRecord(a, e, g) \/ store' = store
    PROVE  FiledHonestly' /\ \A y \in Acct : Placed(store'[y]) \/ store'[y] = g
<1>1. store \in [Acct -> Grant] /\ FiledHonestly
  BY DEF Ledger, CustodyInv, Types, TypeOK
<1>2. \A y \in Acct : store'[y] = store[y] \/ (y = a /\ store'[y] = g)
  BY <1>1 DEF WriteRecord
<1> QED
  BY <1>1, <1>2 DEF FiledHonestly, Placed

LEMMA PairHonest ==
    ASSUME Ledger, NEW p \in Proc, w[p].pc \in Spending
    PROVE  w[p].new.acct \in forfeit \cup {w[p].acct}
BY DEF Ledger, CustodyInv, Minted, Honest, Spending

LEMMA SaveLedger ==
    ASSUME Ledger, CustodyInv', NEW p \in Proc, Save(p) \/ LiveSave(p) \/ LiveWrite(p)
    PROVE  Ledger'
<1>0. Types /\ forfeit \subseteq forfeit' /\ FiledHonestly
  BY ForfeitGrows DEF Ledger, CustodyInv
<1>1. w[p].new.acct \in forfeit' \cup {w[p].acct}
  BY <1>0, PairHonest DEF Save, LiveSave, LiveWrite, At, Spending
<1>2. CASE Save(p) \/ LiveSave(p)
  <2>1. /\ w[p].acct \in Acct /\ UNCHANGED <<server, live>> /\ \A q \in Proc \ {p} : w'[q] = w[q]
        /\ w'[p] = Idle \/ w'[p] = Served(p)
    BY <1>2, SaveDoes, LiveSaveDoes
  <2>2. \/ store' = WriteRecord(w[p].acct, w[p].rec, w[p].new)
        \/ store' = WriteRecord(w[p].acct, w[p].cur, w[p].new)
        \/ store' = store
    BY <1>2, SaveDoes, LiveSaveDoes
  <2>3. FiledHonestly' /\ \A y \in Acct : Placed(store'[y]) \/ store'[y] = w[p].new
    BY <1>0, <1>1, <2>1, <2>2, RecordHonest
  <2>4. Placed(live')
    BY <2>1 DEF Placed
  <2> QED
    BY <1>0, <2>1, <2>3, <2>4, RestSettled, LedgerWrite
<1>3. CASE LiveWrite(p)
  <2>1. FiledHonestly' /\ \A y \in Acct : Placed(store'[y])
    BY <1>0, <1>3, LiveWriteDoes DEF FiledHonestly, Placed
  <2>2. Placed(live') \/ live' = w[p].new
    BY <1>3, LiveWriteDoes DEF Placed
  <2> QED
    BY <1>0, <1>3, <2>1, <2>2, LiveWriteDoes, LedgerWrite DEF At
<1> QED
  BY <1>2, <1>3

\* What an adoption under the store lock comes to.
LEMMA AdoptDoes ==
    ASSUME Ledger, NEW p \in Proc, Adopt(p)
    PROVE  /\ At(p, "adopt") /\ w[p].cur \in Grant /\ w[p].rec \in Grant /\ w[p].acct \in Acct
           /\ UNCHANGED <<server, live>> /\ (\A q \in Proc \ {p} : w'[q] = w[q]) /\ Settled(p)
           /\ w[p].new = NoGrant
           /\ \/ /\ StoredBy(w[p].cur) \ {w[p].acct} = {}
                 /\ store' = WriteRecord(w[p].acct, w[p].rec, w[p].cur)
                 /\ w'[p] = Beyond(p, w[p].cur)
                 /\ w[p].cur.acct \in forfeit' \cup {w[p].acct}
              \/ w'[p] = Idle /\ UNCHANGED <<store, history>>
<1>0. w \in [Proc -> Job] /\ Shape(w[p]) /\ Hand(w[p]) /\ Types
  BY DEF Ledger, CustodyInv, Types, TypeOK
<1>1. /\ At(p, "adopt") /\ w[p].cur \in Grant /\ w[p].rec \in Grant /\ w[p].acct \in Acct
      /\ w[p].new = NoGrant
  BY <1>0 DEF Adopt, At, Shape, Hand, Spending
<1>2. UNCHANGED <<server, live>> /\ \A q \in Proc \ {p} : w'[q] = w[q]
  BY <1>0 DEF Adopt, Done
<1>3. \/ /\ StoredBy(w[p].cur) \ {w[p].acct} = {}
         /\ store' = WriteRecord(w[p].acct, w[p].rec, w[p].cur)
         /\ w'[p] = Beyond(p, w[p].cur)
         /\ w[p].cur.acct \in forfeit' \cup {w[p].acct}
      \/ w'[p] = Idle /\ UNCHANGED <<store, history>>
  BY <1>0 DEF Adopt, Done
<1>4. Settled(p)
  <2>1. CASE w'[p] = Idle
    BY <1>0, <2>1, RestSettled
  <2>2. CASE w'[p] = Beyond(p, w[p].cur) /\ w[p].cur.acct \in forfeit' \cup {w[p].acct}
    <3>1. Placed(w[p].cur)
      BY DEF Placed
    <3> QED
      BY <1>0, <1>1, <2>2, <3>1, BeyondSettled
  <2> QED
    BY <1>3, <2>1, <2>2
<1> QED
  BY <1>1, <1>2, <1>3, <1>4

\* What resolveLive's overlay comes to.
LEMMA ResolveDoes ==
    ASSUME Ledger, Types', NEW p \in Proc, ResolveAdopt(p)
    PROVE  /\ At(p, "oracleadopt") /\ w[p].seen \in Grant /\ w[p].seen.acct \in Acct
           /\ UNCHANGED <<server, live>> /\ (\A q \in Proc \ {p} : w'[q] = w[q]) /\ Settled(p)
           /\ w'[p].pc \in {"idle", "creds"}
           /\ \/ /\ store' = [store EXCEPT ![w[p].seen.acct] = w[p].seen]
                 /\ w[p].seen \in valid \cap {live} \/ w[p].seen.acct \in forfeit'
              \/ UNCHANGED <<store, history>>
<1>0. w \in [Proc -> Job] /\ w[p] \in Job /\ w'[p] \in Job /\ Shape(w[p]) /\ Hand(w[p]) /\ Types
  BY DEF Ledger, CustodyInv, Types, TypeOK
<1>1. /\ At(p, "oracleadopt") /\ w[p].seen \in Grant /\ w[p].seen.acct \in Acct /\ w[p].new = NoGrant
  BY <1>0 DEF ResolveAdopt, At, Shape, Hand, Spending
<1>2. UNCHANGED <<server, live>> /\ \A q \in Proc \ {p} : w'[q] = w[q]
  BY <1>0 DEF ResolveAdopt, Done
<1>3. \/ /\ store' = [store EXCEPT ![w[p].seen.acct] = w[p].seen]
         /\ w'[p] = [w[p] EXCEPT !.pc = "creds", !.seen = NoGrant, !.believed = w[p].seen.acct]
         /\ w[p].seen \in valid \cap {live} \/ w[p].seen.acct \in forfeit'
      \/ w'[p] = Idle /\ UNCHANGED <<store, history>>
  BY <1>0 DEF ResolveAdopt, Resolved, Done
<1>4. Settled(p) /\ w'[p].pc \in {"idle", "creds"}
  <2>1. CASE w'[p] = Idle
    <3>1. w'[p].pc = "idle"
      BY <2>1 DEF Idle
    <3> QED
      BY <1>0, <2>1, <3>1, RestSettled
  <2>2. CASE w'[p] = [w[p] EXCEPT !.pc = "creds", !.seen = NoGrant, !.believed = w[p].seen.acct]
    <3>1. /\ w'[p].pc = "creds" /\ w'[p].rec = w[p].rec /\ w'[p].cur = w[p].cur
          /\ w'[p].seen = NoGrant /\ w'[p].creds = w[p].creds /\ w'[p].new = w[p].new
      BY <1>0, <2>2 DEF Job
    <3> QED
      BY <1>0, <1>1, <3>1, MoveSettled DEF Spending
  <2> QED
    BY <1>3, <2>1, <2>2
<1> QED
  BY <1>1, <1>2, <1>3, <1>4

\* What a switch's decision under the credential locks comes to: it writes only
\* over a login some snapshot holds, or counts the account whose login it was.
LEMMA InstallDoes ==
    ASSUME Ledger, Types', NEW p \in Proc, Install(p)
    PROVE  /\ At(p, "install") /\ w[p].creds \in Grant /\ w[p].creds.acct \in forfeit \cup {w[p].acct}
           /\ UNCHANGED <<server, store>> /\ (\A q \in Proc \ {p} : w'[q] = w[q]) /\ Settled(p)
           /\ w'[p].pc \in {"idle", "sync"}
           /\ \/ live' = w[p].creds /\ Unstored \subseteq forfeit' /\ Outdated(p) \subseteq forfeit'
              \/ UNCHANGED <<live, history>>
<1>0. /\ w \in [Proc -> Job] /\ w[p] \in Job /\ w'[p] \in Job /\ Shape(w[p]) /\ Hand(w[p]) /\ Honest(w[p])
      /\ Types
  BY DEF Ledger, CustodyInv, Types, TypeOK
<1>1. /\ At(p, "install") /\ w[p].creds \in Grant /\ w[p].creds.acct \in forfeit \cup {w[p].acct}
      /\ w[p].new = NoGrant
  BY <1>0 DEF Install, At, Shape, Hand, Honest, Spending
<1>2. UNCHANGED <<server, store>> /\ \A q \in Proc \ {p} : w'[q] = w[q]
  BY <1>0 DEF Install, Done, Goto
<1>3. Settled(p) /\ w'[p].pc \in {"idle", "sync"}
  <2>1. \/ w'[p] = Idle \/ w'[p] = [w[p] EXCEPT !.pc = "sync", !.creds = NoGrant]
        \/ w'[p] = [w[p] EXCEPT !.pc = "sync"]
    BY <1>0 DEF Install, Done, Goto
  <2>2. CASE w'[p] = [w[p] EXCEPT !.pc = "sync", !.creds = NoGrant]
    <3>1. /\ w'[p].pc = "sync" /\ w'[p].rec = w[p].rec /\ w'[p].cur = w[p].cur
          /\ w'[p].seen = w[p].seen /\ w'[p].creds = NoGrant /\ w'[p].new = w[p].new
      BY <1>0, <2>2 DEF Job
    <3> QED
      BY <1>0, <1>1, <3>1, MoveSettled DEF Spending
  <2>3. CASE w'[p] = [w[p] EXCEPT !.pc = "sync"]
    <3>1. /\ w'[p].pc = "sync" /\ w'[p].rec = w[p].rec /\ w'[p].cur = w[p].cur
          /\ w'[p].seen = w[p].seen /\ w'[p].creds = w[p].creds /\ w'[p].new = w[p].new
      BY <1>0, <2>3 DEF Job
    <3> QED
      BY <1>0, <1>1, <3>1, MoveSettled DEF Spending
  <2>4. CASE w'[p] = Idle
    <3>1. w'[p].pc = "idle"
      BY <2>4 DEF Idle
    <3> QED
      BY <1>0, <2>4, <3>1, RestSettled
  <2> QED
    BY <2>1, <2>2, <2>3, <2>4
<1>4. CASE UNCHANGED <<live, history>>
  BY <1>1, <1>2, <1>3, <1>4
<1>5. CASE ~UNCHANGED <<live, history>>
  <2>1. /\ \E o \in LiveOwner(live) : MayInstall(p, o)
        /\ live' = w[p].creds
        /\ forfeit' = forfeit \cup Outdated(p) \cup (IF Unattended(p) /\ ~w[p].foreign THEN {} ELSE Unstored)
    BY <1>5 DEF Install
  <2>2. Unattended(p) /\ ~w[p].foreign => Unstored = {}
    BY <2>1 DEF MayInstall, Unstored
  <2> QED
    BY <1>1, <1>2, <1>3, <2>1, <2>2
<1> QED
  BY <1>4, <1>5

LEMMA InstallLedger ==
    ASSUME Ledger, CustodyInv', NEW p \in Proc, Adopt(p) \/ ResolveAdopt(p) \/ Install(p)
    PROVE  Ledger'
<1>0. Types' /\ forfeit \subseteq forfeit' /\ FiledHonestly /\ store \in [Acct -> Grant]
  BY ForfeitGrows DEF Ledger, CustodyInv, Types, TypeOK
<1>1. CASE Adopt(p)
  <2>1. FiledHonestly' /\ \A y \in Acct : Placed(store'[y]) \/ store'[y] = w[p].cur
    <3>1. CASE store' = WriteRecord(w[p].acct, w[p].rec, w[p].cur) /\ w[p].cur.acct \in forfeit' \cup {w[p].acct}
      BY <1>0, <1>1, <3>1, AdoptDoes, RecordHonest
    <3>2. CASE store' = store
      BY <1>0, <3>2 DEF FiledHonestly, Placed
    <3> QED
      BY <1>1, <3>1, <3>2, AdoptDoes
  <2>2. Placed(w[p].cur) /\ Placed(live')
    BY <1>1, AdoptDoes DEF Placed
  <2> QED
    BY <1>0, <1>1, <2>1, <2>2, AdoptDoes, LedgerWrite
<1>2. CASE ResolveAdopt(p)
  <2>1. \A y \in Acct : store'[y] = store[y] \/ (y = w[p].seen.acct /\ store'[y] = w[p].seen)
    BY <1>0, <1>2, ResolveDoes
  <2>2. FiledHonestly' /\ \A y \in Acct : Placed(store'[y])
    BY <1>0, <2>1 DEF FiledHonestly, Placed
  <2>3. Placed(live')
    BY <1>0, <1>2, ResolveDoes DEF Placed
  <2> QED
    BY <1>0, <1>2, <2>2, <2>3, ResolveDoes, LedgerWrite
<1>3. CASE Install(p)
  <2>1. FiledHonestly' /\ \A y \in Acct : Placed(store'[y])
    BY <1>0, <1>3, InstallDoes DEF FiledHonestly, Placed
  <2>2. live' = live \/ live' = w[p].creds
    BY <1>0, <1>3, InstallDoes
  <2>3. Placed(live')
    BY <2>2 DEF Placed
  <2> QED
    BY <1>0, <1>3, <2>1, <2>3, InstallDoes, LedgerWrite
<1> QED
  BY <1>1, <1>2, <1>3

-----------------------------------------------------------------------------
(* Claude Code, the user, the clock and crashes *)

\* A pair that was not issued is not anywhere.
LEMMA NextPair ==
    ASSUME Ledger, NEW a \in Owner, minted[a] < MaxGen
    PROVE  /\ Fresh(a) \in Grant /\ Fresh(a).acct = a /\ Fresh(a) \notin valid
           /\ ~Issued(Fresh(a)) /\ zone[Fresh(a)] = "fresh" /\ ~Placed(Fresh(a)) /\ ~InHand(Fresh(a))
<1>1. Fresh(a) \in Grant /\ Fresh(a).acct = a /\ minted[a] \in Nat
  BY FreshType, GrantsAssumption DEF Ledger, CustodyInv, Types, TypeOK
<1>2. ~Issued(Fresh(a))
  BY <1>1 DEF Issued, Fresh
<1> QED
  BY <1>1, <1>2 DEF Ledger, Books

\* A pair issued outside ccdad: to Claude Code, or to a login by hand.
LEMMA LedgerIssue ==
    ASSUME Ledger, CustodyInv', NEW a \in Owner, minted[a] < MaxGen, NEW g0,
           valid' = (valid \ {g0}) \cup {Fresh(a)}, minted' = [minted EXCEPT ![a] = @ + 1],
           g0 \in Grant => zone[g0] # "fresh", UNCHANGED <<zone, w>>, forfeit \subseteq forfeit',
           live' = live \/ live' = Fresh(a),
           \A y \in Acct : store'[y] = store[y] \/ (store'[y] = Fresh(a) /\ y = a)
    PROVE  Ledger'
<1>1. /\ Fresh(a) \in Grant /\ Fresh(a).acct = a /\ ~Issued(Fresh(a))
      /\ ~Placed(Fresh(a)) /\ ~InHand(Fresh(a))
  BY NextPair
<1>2. \A g \in Grant : Placed(g)' => Placed(g) \/ g = Fresh(a)
  BY DEF Placed
<1>3. Books'
  <2>1. \A g \in Grant : InHand(g)' => InHand(g)
    BY DEF InHand
  <2> QED
    BY <1>2, <2>1, BooksIssue DEF Ledger, CustodyInv
<1>4. FiledHonestly'
  BY <1>1 DEF Ledger, FiledHonestly
<1>5. \A g \in Grant : g \in valid' => g \in valid \/ ~Issued(g)
  BY <1>1
<1>6. \A q \in Proc : w[q].pc \in Spending => w[q].new # Fresh(a)
  BY <1>1 DEF InHand
<1>7. \A q \in Proc : Hand(w[q])' /\ Honest(w[q])'
  BY <1>2, <1>5, <1>6, HandBeside
<1>8. \A q, r \in Proc : q # r => Apart(w[q], w[r])'
  BY DEF Ledger, Apart
<1> QED
  BY <1>3, <1>4, <1>7, <1>8 DEF Ledger

\* Jobs that end with nothing else changing.
LEMMA LedgerEnd ==
    ASSUME Ledger, CustodyInv', UNCHANGED <<server, store>>, live' \in {live, Blank}, forfeit \subseteq forfeit',
           \A q \in Proc : w'[q] = w[q] \/ w'[q] = Idle
    PROVE  Ledger'
<1>1. \A g \in Grant : Placed(g)' => Placed(g)
  BY GrantsAssumption DEF Placed, Idle
<1>2. \A g \in Grant : InHand(g)' => InHand(g)
  BY GrantsAssumption DEF InHand, Idle
<1>3. Books'
  BY <1>1, <1>2, BooksKept DEF Ledger
<1>4. FiledHonestly'
  BY DEF Ledger, FiledHonestly
<1>5. ASSUME NEW q \in Proc PROVE Hand(w[q])' /\ Honest(w[q])'
  <2>1. CASE w'[q] = w[q]
    <3>1. Hand(w[q]) /\ Honest(w[q]) /\ Shape(w[q])
      BY DEF Ledger, CustodyInv, Types
    <3> QED
      BY <1>1, <2>1, <3>1 DEF Hand, Honest, Shape, Spending, server
  <2>2. CASE w'[q] = Idle
    BY <2>2 DEF Hand, Honest, Idle, Spending
  <2> QED
    BY <2>1, <2>2
<1>6. ASSUME NEW q \in Proc, NEW r \in Proc, q # r PROVE Apart(w[q], w[r])'
  <2>1. Apart(w[q], w[r])
    BY <1>6 DEF Ledger
  <2> QED
    BY <2>1 DEF Apart, Idle, Spending
<1> QED
  BY <1>3, <1>4, <1>5, <1>6 DEF Ledger

\* Time passes while no job is in flight.
LEMMA LedgerAge ==
    ASSUME Prompt, Ledger, CustodyInv', NEW g0 \in Grant, Age(g0)
    PROVE  Ledger'
<1>1. /\ \A p \in Proc : w[p].pc = "idle" /\ Placed(g0)
      /\ UNCHANGED <<valid, minted, store, live, w, forfeit>>
  BY DEF Age, At, Placed, files, history
<1>2. Placed(g0)
  BY DEF Age, Placed
<1>3. \A g \in Grant : (zone'[g] = "fresh" => zone[g] = "fresh") /\ (g # g0 => zone'[g] = zone[g])
  BY DEF Age, Ledger, CustodyInv, Types, TypeOK
<1>4. Books'
  BY <1>1, <1>2, <1>3 DEF Ledger, Books, Placed, InHand, Issued
<1>5. \A p \in Proc : Hand(w[p])' /\ Honest(w[p])'
  BY <1>1 DEF Ledger, Hand, Honest, Spending
<1>6. \A q, r \in Proc : q # r => Apart(w[q], w[r])'
  BY <1>1 DEF Apart, Spending
<1> QED
  BY <1>1, <1>4, <1>5, <1>6 DEF Ledger, FiledHonestly

\* What Claude Code's own refresh comes to.
LEMMA RefreshDoes ==
    ASSUME ClaudeRefresh
    PROVE  /\ live \in Grant /\ zone[live] = "stale" /\ UNCHANGED <<zone, store, w, forfeit>>
           /\ raced \subseteq raced'
           /\ \/ Mint(live) /\ live' = Fresh(live.acct)
              \/ live \notin valid /\ live' = Blank /\ UNCHANGED server
BY DEF ClaudeRefresh, server

LEMMA OutsideLedger ==
    ASSUME Prompt, Ledger, CustodyInv',
           \/ ClaudeRefresh \/ \E x \in Owner : Login(x)
           \/ \E a \in Acct : AddAgain(a)
           \/ \E g \in Grant : Age(g)
           \/ CoolDown
           \/ \E P \in SUBSET Proc : Crash(P)
    PROVE  Ledger'
<1>0. Types /\ store \in [Acct -> Grant] /\ valid \subseteq Grant
  BY DEF Ledger, CustodyInv, Types, TypeOK
<1>1. CASE ClaudeRefresh
  <2>1. CASE Mint(live) /\ live' = Fresh(live.acct)
    <3>1. /\ live.acct \in Owner /\ minted[live.acct] < MaxGen
          /\ valid' = (valid \ {live}) \cup {Fresh(live.acct)}
          /\ minted' = [minted EXCEPT ![live.acct] = @ + 1]
      BY <1>1, <2>1, RefreshDoes DEF Mint, Grant
    <3> QED
      BY <1>1, <2>1, <3>1, RefreshDoes, LedgerIssue
  <2>2. CASE live' = Blank /\ UNCHANGED server
    BY <1>1, <2>2, RefreshDoes, LedgerEnd
  <2> QED
    BY <1>1, <2>1, <2>2, RefreshDoes
<1>2. ASSUME NEW x \in Owner, Issue(x)
      PROVE  /\ minted[x] < MaxGen /\ valid' = (valid \ {NoGrant}) \cup {Fresh(x)}
             /\ minted' = [minted EXCEPT ![x] = @ + 1]
  BY <1>0, <1>2, GrantsAssumption DEF Issue
<1>3. ASSUME NEW x \in Owner, Login(x) PROVE Ledger'
  <2>1. Issue(x) /\ UNCHANGED <<zone, w, store>> /\ live' = Fresh(x) /\ forfeit \subseteq forfeit'
    BY <1>3 DEF Login
  <2> QED
    BY <1>2, <2>1, GrantsAssumption, LedgerIssue
<1>4. ASSUME NEW a \in Acct, AddAgain(a) PROVE Ledger'
  <2>1. /\ Issue(a) /\ UNCHANGED <<zone, w, live, forfeit>>
        /\ store' = [store EXCEPT ![a] = Fresh(a)] /\ a \in Owner
    BY <1>4 DEF AddAgain, Owner
  <2>2. \A y \in Acct : store'[y] = store[y] \/ (store'[y] = Fresh(a) /\ y = a)
    BY <1>0, <2>1
  <2> QED
    BY <1>2, <2>1, <2>2, GrantsAssumption, LedgerIssue
<1>5. CASE CoolDown
  BY <1>5, LedgerEnd DEF CoolDown, files, history
<1>6. ASSUME NEW P \in SUBSET Proc, Crash(P) PROVE Ledger'
  BY <1>6, LedgerEnd DEF Crash, files
<1> QED
  BY <1>1, <1>3, <1>4, <1>5, <1>6, LedgerAge

LEMMA LedgerStep == Prompt /\ Ledger /\ [Next]_vars => Ledger'
<1> SUFFICES ASSUME Prompt, Ledger, [Next]_vars PROVE Ledger'
  OBVIOUS
<1>1. CustodyInv' /\ Types'
  BY CustodyStep DEF Ledger, CustodyInv
<1>2. CASE UNCHANGED vars
  BY <1>1, <1>2, LedgerEnd DEF vars, files, history
<1>3. ASSUME NEW p \in Proc, Moves(p) PROVE Ledger'
  BY <1>1, <1>3, MovesQuietly, LedgerQuiet DEF history
<1>4. Daemon \subseteq Proc /\ \A p \in Cli \cup Human : {p} \subseteq Proc
  BY DEF Daemon, Proc
<1> QED
  BY <1>1, <1>2, <1>3, <1>4, PostLedger, SaveLedger, InstallLedger, OutsideLedger
     DEF Next, AccessToken, Switch, Moves

LEMMA InitLedger == Init => Ledger
<1> SUFFICES ASSUME Init PROVE Ledger
  OBVIOUS
<1>1. CustodyInv
  BY InitCustody
<1>2. \A p \in Proc : w[p] = Idle
  BY DEF Init
<1>3. ASSUME NEW g \in Grant
      PROVE  /\ Placed(g) => g.gen = 0
             /\ ~InHand(g) /\ zone[g] = "fresh" /\ minted[g.acct] = 0
             /\ g \in valid <=> g.gen = 0
  <2>1. g.acct \in Owner /\ g = [acct |-> g.acct, gen |-> g.gen]
    BY DEF Grant
  <2>2. Placed(g) => g.gen = 0
    BY <1>2, GrantsAssumption DEF Placed, Init, First, Idle
  <2>3. g \in valid <=> g.gen = 0
    BY <2>1 DEF Init, First
  <2> QED
    BY <1>2, <2>1, <2>2, <2>3, GrantsAssumption DEF Init, InHand, Idle
<1>4. Books
  <2>1. \A g \in Grant : g.gen \in Nat
    BY GrantsAssumption DEF Grant
  <2> QED
    BY <1>3, <2>1 DEF Books, Issued
<1>5. FiledHonestly
  BY DEF Init, FiledHonestly, First
<1>6. \A p \in Proc : Hand(w[p]) /\ Honest(w[p])
  BY <1>2 DEF Idle, Hand, Honest, Spending
<1>7. \A p, q \in Proc : p # q => Apart(w[p], w[q])
  BY <1>2 DEF Idle, Apart, Spending
<1> QED
  BY <1>1, <1>4, <1>5, <1>6, <1>7 DEF Ledger

-----------------------------------------------------------------------------
(* What stands behind each account *)

\* The live login of a is being rotated by one of a's jobs.
Rotated(a) == \E q \in Proc : w[q].acct = a /\ w[q].pc = "livewrite" /\ live = w[q].cur

\* The live login is a's, and nobody is about to spend it.
Sound(a) ==
    live \in valid /\ live.acct = a /\ \A q \in Proc : w[q].pc = "post" => w[q].rec # live

Serves(a) == Rotated(a) \/ Sound(a)

\* The snapshot s of a is honoured, or has been spent for a pair that is on its
\* way over it, or the live login serves the account.
Backs(a, s) ==
    \/ s \in valid
    \/ \E q \in Proc : w[q].acct = a /\ w[q].pc = "save" /\ w[q].rec = s
    \/ \E q \in Proc : w[q].acct = a /\ w[q].pc \in {"livewrite", "livesave"} /\ w[q].cur = s
    \/ Serves(a)

\* A rotation of a's live login is about to put g over its snapshot.
Following(a, g) ==
    \E q \in Proc : /\ w[q].acct = a /\ w[q].pc = "livesave"
                    /\ w[q].new = g /\ w[q].cur = store[a]

\* A job between the identity check and the adoption may still write its
\* account's snapshot (which is what it read, or about to be) only while the
\* live login serves the account.
LockReady(j) ==
    /\ store[j.acct] = j.rec =>
         live = j.rec \/ live \notin Grant \/ live.acct # j.acct \/ Serves(j.acct)
    /\ Following(j.acct, j.rec) => Serves(j.acct)

AdoptReady(j) ==
    /\ live # j.rec
    /\ store[j.acct] = j.rec \/ Following(j.acct, j.rec) => Serves(j.acct)

Ready(j) ==
    /\ j.pc = "lock" => LockReady(j)
    /\ j.pc = "adopt" /\ j.cur.acct = j.acct => AdoptReady(j)

Backed(a) ==
    a \notin Exempt =>
        Backs(a, store[a]) /\ \A p \in Proc : w[p].acct = a => Ready(w[p])

Backing == Ledger /\ \A a \in Acct : Backed(a)

\* A pair in hand is honoured.
LEMMA PairGood ==
    ASSUME Ledger, NEW p \in Proc, w[p].pc \in Spending
    PROVE  /\ w[p].new \in Grant /\ w[p].new \in valid /\ zone[w[p].new] = "fresh"
           /\ InHand(w[p].new)
<1>1. Shape(w[p]) /\ Hand(w[p]) /\ Books
  BY DEF Ledger, CustodyInv, Types
<1> QED
  BY <1>1 DEF Shape, Hand, Books, InHand, Spending

\* Of an account that lost nothing and was not overtaken: what its jobs hold is
\* its own, and what is its own is in its snapshot and with its jobs.
LEMMA OwnJobs ==
    ASSUME Ledger, NEW a \in Acct, a \notin Exempt
    PROVE  /\ store[a].acct = a /\ store[a] \in Grant
           /\ \A x \in Acct : store[x].acct = a => x = a
           /\ \A p \in Proc :
                /\ w[p].acct = a /\ w[p].pc \in {"check", "post", "save", "lock", "adopt"} => w[p].rec.acct = a
                /\ w[p].acct = a /\ w[p].pc \in {"livepost", "livewrite", "livesave"} => w[p].cur.acct = a
                /\ w[p].acct = a /\ w[p].pc \in Spending => w[p].new.acct = a
                /\ w[p].pc \in {"check", "post", "save", "lock", "adopt"} /\ w[p].rec.acct = a => w[p].acct = a
                /\ w[p].pc \in {"livepost", "livewrite", "livesave"} /\ w[p].cur.acct = a => w[p].acct = a
                /\ w[p].pc = "install" /\ w[p].creds.acct = a => w[p].acct = a
                /\ w[p].pc \in Spending /\ w[p].new.acct = a => w[p].acct = a
<1>1. store[a].acct = a /\ store[a] \in Grant
  BY DEF Ledger, CustodyInv, NeverCrossFiled, Exempt, Types, TypeOK
<1>2. \A x \in Acct : store[x].acct = a => x = a
  BY DEF Ledger, FiledHonestly, Exempt
<1>3. ASSUME NEW p \in Proc
      PROVE  /\ w[p].acct = a /\ w[p].pc \in {"check", "post", "save", "lock", "adopt"} => w[p].rec.acct = a
             /\ w[p].acct = a /\ w[p].pc \in {"livepost", "livewrite", "livesave"} => w[p].cur.acct = a
             /\ w[p].acct = a /\ w[p].pc \in Spending => w[p].new.acct = a
             /\ w[p].pc \in {"check", "post", "save", "lock", "adopt"} /\ w[p].rec.acct = a => w[p].acct = a
             /\ w[p].pc \in {"livepost", "livewrite", "livesave"} /\ w[p].cur.acct = a => w[p].acct = a
             /\ w[p].pc = "install" /\ w[p].creds.acct = a => w[p].acct = a
             /\ w[p].pc \in Spending /\ w[p].new.acct = a => w[p].acct = a
  <2>1. Kept(w[p]) /\ Minted(w[p]) /\ Honest(w[p])
    BY DEF Ledger, CustodyInv
  <2> QED
    BY <2>1, PairHonest DEF Kept, Minted, Honest, Spending, Exempt
<1> QED
  BY <1>1, <1>2, <1>3

\* A login of such an account that its snapshot does not hold is the only copy.
LEMMA UnstoredIs ==
    ASSUME Ledger, NEW a \in Acct, a \notin Exempt, live \in Grant, live.acct = a, live # store[a]
    PROVE  a \in Unstored
BY OwnJobs DEF Unstored, LiveState, StoredBy

\* The pair that backs an account's snapshot is held for it.
LEMMA BackedHeld ==
    ASSUME Ledger, NEW a \in Acct, a \notin Exempt, Backs(a, store[a])
    PROVE  Held(a) # {}
<1>1. CASE store[a] \in valid
  <2>1. store[a] \in Held(a)
    BY <1>1, OwnJobs DEF Held
  <2> QED
    BY <2>1
<1>2. CASE \E q \in Proc : w[q].acct = a /\ w[q].pc \in Spending
  <2>1. PICK q \in Proc : w[q].acct = a /\ w[q].pc \in Spending
    BY <1>2
  <2>2. w[q].new \in Held(a)
    BY <2>1, OwnJobs, PairGood DEF Held
  <2> QED
    BY <2>2
<1>3. CASE Sound(a)
  <2>1. live \in Held(a)
    BY <1>3 DEF Held, Sound
  <2> QED
    BY <2>1
<1> QED
  BY <1>1, <1>2, <1>3 DEF Backs, Serves, Rotated, Spending

\* A step of p that leaves the live login and the token endpoint alone.
LEMMA ServesBeside ==
    ASSUME NEW a, NEW p \in Proc, Serves(a), live' = live, valid' = valid,
           \A q \in Proc \ {p} : w'[q] = w[q],
           w[p].pc # "livewrite", w'[p].pc = "post" => w'[p].rec # live
    PROVE  Serves(a)'
<1>1. CASE Rotated(a)
  <2>1. PICK q \in Proc : w[q].acct = a /\ w[q].pc = "livewrite" /\ live = w[q].cur
    BY <1>1 DEF Rotated
  <2>2. w'[q] = w[q]
    BY <2>1
  <2> QED
    BY <2>1, <2>2 DEF Serves, Rotated
<1>2. CASE Sound(a)
  BY <1>2 DEF Serves, Sound
<1> QED
  BY <1>1, <1>2 DEF Serves

\* A job that a step leaves where it is, with its account's files.
LEMMA ReadyBeside ==
    ASSUME NEW q \in Proc, Ready(w[q]), w'[q] = w[q], live' = live,
           store'[w[q].acct] = store[w[q].acct],
           Serves(w[q].acct) => Serves(w[q].acct)',
           Following(w[q].acct, w[q].rec)' => Following(w[q].acct, w[q].rec)
    PROVE  Ready(w[q])'
BY DEF Ready, LockReady, AdoptReady

\* Nobody comes to follow a login that is in somebody's hands already.
LEMMA FollowingBefore ==
    ASSUME NEW a, NEW p \in Proc, \A q \in Proc \ {p} : w'[q] = w[q], store'[a] = store[a],
           w'[p].pc = "livesave" => ~Placed(w'[p].new),
           NEW q0 \in Proc, w'[q0].rec = w[q0].rec, Following(a, w[q0].rec)'
    PROVE  Following(a, w[q0].rec)
<1>1. PICK q \in Proc : /\ w'[q].acct = a /\ w'[q].pc = "livesave"
                        /\ w'[q].new = w[q0].rec /\ w'[q].cur = store[a]
  BY DEF Following
<1>2. Placed(w[q0].rec)
  BY DEF Placed
<1>3. w'[q] = w[q]
  BY <1>1, <1>2
<1> QED
  BY <1>1, <1>3 DEF Following

\* Where the jobs that read come from and go to.
LEMMA MovesDo ==
    ASSUME Ledger, NEW p \in Proc, Moves(p)
    PROVE  /\ w[p].pc \notin Spending \cup {"post"}
           /\ w'[p].pc = "post" => w'[p].rec # live
           /\ w'[p].pc = "lock" => w'[p].rec = live
           /\ w'[p].pc = "adopt" =>
                /\ w[p].pc = "lock" /\ w'[p].rec = w[p].rec /\ w'[p].acct = w[p].acct
                /\ w'[p].cur = live /\ live \in Grant \ {w[p].rec}
<1>0. w \in [Proc -> Job] /\ w[p] \in Job /\ Types
  BY DEF Ledger, CustodyInv, Types, TypeOK
<1>1. w[p].pc \notin Spending \cup {"post"}
  BY DEF Moves, StartPoll, StartAuto, StartSwitch, ReadStored, CheckLive, LockRead,
         ResolveLoad, ResolveOwner, ReadCreds, ReRead, Sync, At, Spending
<1>2. Served(p).pc \in {"idle", "reread"} /\ Idle.pc = "idle"
  BY <1>0 DEF Served, Idle, Job
<1>3. Beyond(p, live).pc \in {"idle", "reread", "livepost"}
  BY <1>0, <1>2 DEF Beyond, Job
<1>4. CASE CheckLive(p)
  <2>1. \/ w'[p] = Idle \/ w'[p] = Served(p)
        \/ w'[p] = [w[p] EXCEPT !.pc = "lock"] /\ w[p].rec = live
        \/ w'[p] = [w[p] EXCEPT !.pc = "post"] /\ w[p].rec # live
    BY <1>0, <1>4 DEF CheckLive, Goto
  <2>2. ASSUME NEW s \in {"lock", "post"}, w'[p] = [w[p] EXCEPT !.pc = s]
        PROVE  w'[p].pc = s /\ w'[p].rec = w[p].rec
    BY <1>0, <2>2 DEF Job
  <2>3. CASE w'[p] = Idle \/ w'[p] = Served(p)
    BY <1>1, <1>2, <2>3
  <2> QED
    BY <1>1, <2>1, <2>2, <2>3
<1>5. CASE LockRead(p)
  <2>1. \/ w'[p] = Idle \/ w'[p] = Beyond(p, live)
        \/ w'[p] = [w[p] EXCEPT !.pc = "adopt", !.cur = live] /\ live \in Grant \ {w[p].rec}
    BY <1>0, <1>5 DEF LockRead, Done
  <2>2. CASE w'[p] = [w[p] EXCEPT !.pc = "adopt", !.cur = live] /\ live \in Grant \ {w[p].rec}
    <3>1. w'[p].pc = "adopt" /\ w'[p].rec = w[p].rec /\ w'[p].acct = w[p].acct /\ w'[p].cur = live
      BY <1>0, <2>2 DEF Job
    <3> QED
      BY <1>1, <1>5, <2>2, <3>1 DEF LockRead, At
  <2>3. CASE w'[p] = Idle \/ w'[p] = Beyond(p, live)
    BY <1>1, <1>2, <1>3, <2>3
  <2> QED
    BY <2>1, <2>2, <2>3
<1>6. CASE ~CheckLive(p) /\ ~LockRead(p)
  <2>1. w'[p].pc \notin {"post", "lock", "adopt"}
    <3>1. CASE \E a \in Acct : StartPoll(p, a) \/ StartAuto(p, a) \/ StartSwitch(p, a)
      <4>1. w'[p].pc \in {"read", "resolve", "creds"}
        BY <1>0, <3>1, StartDoes
      <4> QED
        BY <4>1
    <3>2. CASE ReadStored(p)
      <4>1. w'[p] = [w[p] EXCEPT !.pc = "check", !.rec = store[w[p].acct]]
        BY <1>0, <3>2 DEF ReadStored
      <4> QED
        BY <1>0, <4>1 DEF Job
    <3>3. CASE ResolveLoad(p) \/ ResolveOwner(p) \/ ReadCreds(p) \/ ReRead(p) \/ Sync(p)
      <4>1. \/ w'[p] = Idle
            \/ w'[p] = [w[p] EXCEPT !.pc = "oracle", !.seen = live]
            \/ w'[p] = [w[p] EXCEPT !.pc = "oracleadopt"]
            \/ w'[p] = [w[p] EXCEPT !.pc = "creds", !.seen = NoGrant, !.foreign = TRUE]
            \/ w'[p] = [w[p] EXCEPT !.pc = "read"]
            \/ w'[p] = [w[p] EXCEPT !.pc = "install", !.creds = store[w[p].acct]]
        BY <1>0, <3>3 DEF ResolveLoad, ResolveOwner, ReadCreds, ReRead, Sync, Goto, Done
      <4>2. CASE w'[p] = Idle
        BY <1>2, <4>2
      <4>3. CASE w'[p] # Idle
        BY <1>0, <4>1, <4>3 DEF Job
      <4> QED
        BY <4>2, <4>3
    <3> QED
      BY <1>6, <3>1, <3>2, <3>3 DEF Moves
  <2> QED
    BY <1>1, <2>1
<1> QED
  BY <1>4, <1>5, <1>6

-----------------------------------------------------------------------------
(* Steps that read *)

\* What stood behind a snapshot still does, when the jobs that matter to it have
\* not moved.
LEMMA BacksBeside ==
    ASSUME NEW a, NEW p \in Proc, Backs(a, store[a]), store'[a] = store[a], valid' = valid,
           \A q \in Proc \ {p} : w'[q] = w[q], w[p].pc \notin Spending,
           Serves(a) => Serves(a)'
    PROVE  Backs(a, store[a])'
<1>1. CASE \E q \in Proc : w[q].acct = a /\ w[q].pc = "save" /\ w[q].rec = store[a]
  <2>1. PICK q \in Proc : w[q].acct = a /\ w[q].pc = "save" /\ w[q].rec = store[a]
    BY <1>1
  <2>2. w'[q] = w[q]
    BY <2>1 DEF Spending
  <2> QED
    BY <2>1, <2>2 DEF Backs
<1>2. CASE \E q \in Proc : w[q].acct = a /\ w[q].pc \in {"livewrite", "livesave"} /\ w[q].cur = store[a]
  <2>1. PICK q \in Proc : w[q].acct = a /\ w[q].pc \in {"livewrite", "livesave"} /\ w[q].cur = store[a]
    BY <1>2
  <2>2. w'[q] = w[q]
    BY <2>1 DEF Spending
  <2> QED
    BY <2>1, <2>2 DEF Backs
<1>3. CASE store[a] \in valid \/ Serves(a)
  BY <1>3 DEF Backs
<1> QED
  BY <1>1, <1>2, <1>3 DEF Backs

\* A login that was just put in the file, or is still there, serves its account
\* when one of its jobs has it in hand.
LEMMA PairServes ==
    ASSUME Ledger, NEW p \in Proc, w[p].pc \in Spending, w[p].new = live
    PROVE  Sound(live.acct)
<1>1. live \in valid /\ zone[live] = "fresh"
  BY PairGood
<1>2. \A q \in Proc : w[q].pc = "post" => zone[w[q].rec] = "stale"
  BY DEF Ledger, Hand
<1> QED
  BY <1>1, <1>2 DEF Sound

LEMMA MovesBacked ==
    ASSUME Ledger, Ledger', NEW a \in Acct, Backed(a), NEW p \in Proc, Moves(p)
    PROVE  Backed(a)'
<1>1. /\ UNCHANGED <<server, store, live, history>> /\ \A q \in Proc \ {p} : w'[q] = w[q]
      /\ w'[p].pc \notin Spending /\ valid' = valid
  BY MovesQuietly DEF Ledger, CustodyInv, Settled, server
<1>2. SUFFICES ASSUME a \notin Exempt, a \notin Exempt'
      PROVE  Backs(a, store[a])' /\ \A q \in Proc : w'[q].acct = a => Ready(w[q])'
  BY <1>1 DEF Backed, Exempt, history
<1>3. Serves(a) => Serves(a)'
  BY <1>1, MovesDo, ServesBeside DEF Spending
<1>4. Backs(a, store[a])'
  BY <1>1, <1>2, <1>3, MovesDo, BacksBeside DEF Backed
<1>5. ASSUME NEW q \in Proc, w'[q].rec = w[q].rec, Following(a, w[q].rec)'
      PROVE  Following(a, w[q].rec)
  BY <1>1, <1>5, FollowingBefore DEF Spending
<1>6. ASSUME NEW q \in Proc \ {p}, w'[q].acct = a
      PROVE  Ready(w[q])'
  <2>1. w'[q] = w[q] /\ Ready(w[q])
    BY <1>1, <1>2, <1>6 DEF Backed
  <2> QED
    BY <1>1, <1>3, <1>5, <1>6, <2>1, ReadyBeside
<1>7. ASSUME w'[p].acct = a
      PROVE  Ready(w[p])'
  <2>1. CASE w'[p].pc = "lock"
    <3>1. w'[p].rec = live
      BY <2>1, MovesDo
    <3>2. ASSUME Following(a, w[p].rec)' PROVE Serves(a)'
      <4>1. PICK q \in Proc : w'[q].acct = a /\ w'[q].pc = "livesave" /\ w'[q].new = live
        BY <3>1, <3>2 DEF Following
      <4>2. w'[q].new.acct = a
        BY <1>2, <4>1, OwnJobs DEF Ledger, Kept, Minted, Exempt, CustodyInv
      <4>3. q # p /\ w'[q] = w[q]
        BY <1>1, <4>1 DEF Spending
      <4>4. Sound(live.acct)
        BY <4>1, <4>3, PairServes DEF Spending
      <4>5. live.acct = a
        BY <4>1, <4>2
      <4> QED
        BY <1>3, <4>4, <4>5 DEF Serves
    <3> QED
      BY <1>1, <1>7, <2>1, <3>1, <3>2 DEF Ready, LockReady
  <2>2. CASE w'[p].pc = "adopt" /\ w'[p].cur.acct = a
    <3>1. /\ w[p].pc = "lock" /\ w'[p].rec = w[p].rec /\ w[p].acct = a
          /\ live \in Grant \ {w[p].rec} /\ live.acct = a
      BY <1>7, <2>2, MovesDo
    <3>2. LockReady(w[p])
      BY <1>2, <3>1 DEF Backed, Ready
    <3>3. store[a] = w[p].rec \/ Following(a, w[p].rec) => Serves(a)
      BY <3>1, <3>2 DEF LockReady
    <3> QED
      BY <1>1, <1>3, <1>5, <1>7, <2>2, <3>1, <3>3 DEF Ready, AdoptReady
  <2> QED
    BY <1>7, <2>1, <2>2 DEF Ready
<1> QED
  BY <1>4, <1>6, <1>7

-----------------------------------------------------------------------------
(* Steps that spend *)

\* The jobs beside one that moves on, with its account's files where they were.
LEMMA OthersReady ==
    ASSUME NEW a \in Acct, \A q \in Proc : w[q].acct = a => Ready(w[q]), NEW p \in Proc,
           \A q \in Proc \ {p} : w'[q] = w[q], store'[a] = store[a], live' = live,
           w'[p].pc \notin {"lock", "adopt", "livesave"}, Serves(a) => Serves(a)'
    PROVE  \A q \in Proc : w'[q].acct = a => Ready(w[q])'
<1>1. Ready(w[p])'
  BY DEF Ready
<1>2. ASSUME NEW q \in Proc \ {p}, w'[q].acct = a
      PROVE  Ready(w[q])'
  <2>1. w'[q] = w[q] /\ Ready(w[q])
    BY <1>2
  <2>2. Following(a, w[q].rec)' => Following(a, w[q].rec)
    BY <2>1, FollowingBefore
  <2> QED
    BY <1>2, <2>1, <2>2, ReadyBeside
<1> QED
  BY <1>1, <1>2

LEMMA RestPc ==
    ASSUME Types, NEW p \in Proc, w'[p] = Idle \/ w'[p] = Served(p)
    PROVE  w'[p].pc \in {"idle", "reread"}
<1>1. w[p] \in Job
  BY DEF Types, TypeOK
<1>2. [w[p] EXCEPT !.pc = "reread", !.rec = NoGrant, !.cur = NoGrant, !.new = NoGrant].pc = "reread"
  BY <1>1 DEF Job
<1>3. Idle.pc = "idle"
  BY DEF Idle
<1>4. Served(p).pc \in {"idle", "reread"}
  BY <1>2, <1>3 DEF Served
<1> QED
  BY <1>3, <1>4

\* A POST that was refused, or did not reach the endpoint.
LEMMA UnspentBacked ==
    ASSUME Ledger, NEW a \in Acct, Backed(a), NEW p \in Proc, UNCHANGED <<server, store, live, raced>>,
           forfeit \subseteq forfeit', w[p].pc \in {"post", "livepost"}, w'[p].pc \in {"idle", "reread"},
           \A q \in Proc \ {p} : w'[q] = w[q]
    PROVE  Backed(a)'
<1> SUFFICES ASSUME a \notin Exempt
    PROVE  Backs(a, store[a])' /\ \A q \in Proc : w'[q].acct = a => Ready(w[q])'
  BY DEF Backed, Exempt
<1>1. valid' = valid
  BY DEF server
<1>2. Serves(a) => Serves(a)'
  BY <1>1, ServesBeside
<1>3. Backs(a, store[a])'
  BY <1>1, <1>2, BacksBeside DEF Backed, Spending
<1>4. \A q \in Proc : w'[q].acct = a => Ready(w[q])'
  BY <1>2, OthersReady DEF Backed
<1> QED
  BY <1>3, <1>4

\* A snapshot backed by a job of its account that a step leaves alone.
LEMMA BacksByOther ==
    ASSUME NEW a, NEW p \in Proc, store'[a] = store[a], \A q \in Proc \ {p} : w'[q] = w[q],
           NEW q \in Proc \ {p}, w[q].acct = a,
           \/ w[q].pc = "save" /\ w[q].rec = store[a]
           \/ w[q].pc \in {"livewrite", "livesave"} /\ w[q].cur = store[a]
    PROVE  Backs(a, store[a])'
<1>1. w'[q] = w[q]
  OBVIOUS
<1> QED
  BY <1>1 DEF Backs

LEMMA BacksCases ==
    ASSUME NEW a, Backs(a, store[a])
    PROVE  \/ store[a] \in valid
           \/ \E q \in Proc : /\ w[q].acct = a
                              /\ \/ w[q].pc = "save" /\ w[q].rec = store[a]
                                 \/ w[q].pc \in {"livewrite", "livesave"} /\ w[q].cur = store[a]
           \/ Serves(a)
BY DEF Backs

\* The grant in hand is spent: what it backed, the pair minted from it backs.
LEMMA PostBacked ==
    ASSUME Ledger, NEW a \in Acct, Backed(a), NEW p \in Proc, Post(p)
    PROVE  Backed(a)'
<1> DEFINE r == w[p].rec
<1>1. /\ w[p].pc = "post" /\ r \in Grant
      /\ UNCHANGED <<store, live, raced>> /\ forfeit \subseteq forfeit'
      /\ \A q \in Proc \ {p} : w'[q] = w[q]
  BY PostDoes DEF At
<1>2. CASE w'[p] = Idle /\ UNCHANGED server
  <2>1. w'[p].pc = "idle"
    BY <1>2 DEF Idle
  <2> QED
    BY <1>1, <1>2, <2>1, UnspentBacked
<1>3. CASE Mint(r) /\ (Takes(p, "save", r) \/ (w'[p] = Idle /\ r.acct \in forfeit'))
  <2>1. SUFFICES ASSUME a \notin Exempt, a \notin forfeit'
        PROVE  Backs(a, store[a])' /\ \A q \in Proc : w'[q].acct = a => Ready(w[q])'
    BY <1>1 DEF Backed, Exempt
  <2>2. w'[p].pc \in {"save", "idle"} /\ \A g \in Grant \ {r} : g \in valid => g \in valid'
    BY <1>3 DEF Takes, Idle, Mint
  <2>3. Serves(a) => Serves(a)'
    <3>1. CASE Rotated(a)
      <4>1. PICK q \in Proc : w[q].acct = a /\ w[q].pc = "livewrite" /\ live = w[q].cur
        BY <3>1 DEF Rotated
      <4>2. w'[q] = w[q]
        BY <1>1, <4>1
      <4> QED
        BY <1>1, <4>1, <4>2 DEF Serves, Rotated
    <3>2. CASE Sound(a)
      <4>1. live \in valid' /\ live.acct = a
        BY <1>1, <2>2, <3>2 DEF Sound, Ledger, CustodyInv, Types, TypeOK
      <4>2. ASSUME NEW q \in Proc, w'[q].pc = "post" PROVE w'[q].rec # live
        BY <1>1, <2>2, <3>2, <4>2 DEF Sound
      <4> QED
        BY <1>1, <4>1, <4>2 DEF Serves, Sound
    <3> QED
      BY <3>1, <3>2 DEF Serves
  <2>4. Backs(a, store[a])'
    <3>0. Backs(a, store[a]) /\ store[a] \in Grant /\ store[a].acct = a
      BY <2>1, OwnJobs DEF Backed
    <3>1. CASE store[a] \in valid /\ store[a] # r
      BY <1>1, <2>2, <3>0, <3>1 DEF Backs
    <3>2. CASE store[a] = r
      <4>1. w[p].acct = a /\ Takes(p, "save", r)
        BY <1>1, <1>3, <2>1, <3>0, <3>2, OwnJobs
      <4> QED
        BY <1>1, <3>2, <4>1 DEF Takes, Backs
    <3>3. ASSUME NEW q \in Proc, w[q].acct = a,
                 \/ w[q].pc = "save" /\ w[q].rec = store[a]
                 \/ w[q].pc \in {"livewrite", "livesave"} /\ w[q].cur = store[a]
          PROVE  Backs(a, store[a])'
      BY <1>1, <3>3, BacksByOther
    <3>4. CASE Serves(a)
      BY <2>3, <3>4 DEF Backs
    <3> QED
      BY <3>0, <3>1, <3>2, <3>3, <3>4, BacksCases
  <2>5. \A q \in Proc : w'[q].acct = a => Ready(w[q])'
    BY <1>1, <2>1, <2>2, <2>3, OthersReady DEF Backed
  <2> QED
    BY <2>4, <2>5
<1> QED
  BY <1>2, <1>3, PostDoes

LEMMA LivePostBacked ==
    ASSUME Ledger, NEW a \in Acct, Backed(a), NEW p \in Proc, LivePost(p)
    PROVE  Backed(a)'
<1> DEFINE c == w[p].cur
<1>1. /\ w[p].pc = "livepost" /\ c \in Grant /\ Types
      /\ UNCHANGED <<store, live, raced>> /\ forfeit \subseteq forfeit'
      /\ \A q \in Proc \ {p} : w'[q] = w[q]
  BY LivePostDoes DEF At, Ledger, CustodyInv
<1>2. CASE w'[p] = Served(p) /\ UNCHANGED server
  BY <1>1, <1>2, RestPc, UnspentBacked
<1>3. CASE Mint(c) /\ (Takes(p, "livewrite", c) \/ (w'[p] = Served(p) /\ c.acct \in forfeit'))
  <2>1. SUFFICES ASSUME a \notin Exempt, a \notin forfeit'
        PROVE  Backs(a, store[a])' /\ \A q \in Proc : w'[q].acct = a => Ready(w[q])'
    BY <1>1 DEF Backed, Exempt
  <2>2. /\ w'[p].pc \in {"livewrite", "idle", "reread"}
        /\ \A g \in Grant \ {c} : g \in valid => g \in valid'
    BY <1>1, <1>3, RestPc DEF Takes, Mint
  <2>3. c.acct = a => w[p].acct = a /\ Takes(p, "livewrite", c)
    BY <1>1, <1>3, <2>1, OwnJobs
  <2>4. Serves(a) => Serves(a)'
    <3>1. CASE Rotated(a)
      <4>1. PICK q \in Proc : w[q].acct = a /\ w[q].pc = "livewrite" /\ live = w[q].cur
        BY <3>1 DEF Rotated
      <4>2. w'[q] = w[q]
        BY <1>1, <4>1
      <4> QED
        BY <1>1, <4>1, <4>2 DEF Serves, Rotated
    <3>2. CASE Sound(a) /\ live # c
      <4>1. live \in valid' /\ live.acct = a
        BY <1>1, <2>2, <3>2 DEF Sound, Types, TypeOK
      <4>2. ASSUME NEW q \in Proc, w'[q].pc = "post" PROVE w'[q].rec # live
        BY <1>1, <2>2, <3>2, <4>2 DEF Sound
      <4> QED
        BY <1>1, <4>1, <4>2 DEF Serves, Sound
    <3>3. CASE Sound(a) /\ live = c
      <4>1. w[p].acct = a /\ Takes(p, "livewrite", c)
        BY <2>3, <3>3 DEF Sound
      <4> QED
        BY <1>1, <3>3, <4>1 DEF Takes, Serves, Rotated
    <3> QED
      BY <3>1, <3>2, <3>3 DEF Serves
  <2>5. Backs(a, store[a])'
    <3>0. Backs(a, store[a]) /\ store[a] \in Grant /\ store[a].acct = a
      BY <2>1, OwnJobs DEF Backed
    <3>1. CASE store[a] \in valid /\ store[a] # c
      BY <1>1, <2>2, <3>0, <3>1 DEF Backs
    <3>2. CASE store[a] = c
      <4>1. w[p].acct = a /\ Takes(p, "livewrite", c)
        BY <2>3, <3>0, <3>2
      <4> QED
        BY <1>1, <3>2, <4>1 DEF Takes, Backs
    <3>3. ASSUME NEW q \in Proc, w[q].acct = a,
                 \/ w[q].pc = "save" /\ w[q].rec = store[a]
                 \/ w[q].pc \in {"livewrite", "livesave"} /\ w[q].cur = store[a]
          PROVE  Backs(a, store[a])'
      BY <1>1, <3>3, BacksByOther
    <3>4. CASE Serves(a)
      BY <2>4, <3>4 DEF Backs
    <3> QED
      BY <3>0, <3>1, <3>2, <3>3, <3>4, BacksCases
  <2>6. \A q \in Proc : w'[q].acct = a => Ready(w[q])'
    BY <1>1, <2>1, <2>2, <2>4, OthersReady DEF Backed
  <2> QED
    BY <2>5, <2>6
<1> QED
  BY <1>2, <1>3, LivePostDoes

-----------------------------------------------------------------------------
(* Steps that write a snapshot *)

\* A job that is between its check and its adoption, of its own account's login.
Reads(j) == j.pc = "lock" \/ (j.pc = "adopt" /\ j.cur.acct = j.acct)

LEMMA ReadyAfter ==
    ASSUME NEW q \in Proc, Ready(w[q]), w'[q] = w[q], live' = live,
           Reads(w[q]) =>
             /\ store'[w[q].acct] = w[q].rec => live = w[q].rec \/ Serves(w[q].acct)'
             /\ Following(w[q].acct, w[q].rec)' => Serves(w[q].acct)'
    PROVE  Ready(w[q])'
BY DEF Ready, LockReady, AdoptReady, Reads

LEMMA ReadyServes ==
    ASSUME NEW q \in Proc, Ready(w[q]), Reads(w[q]), Following(w[q].acct, w[q].rec)
    PROVE  Serves(w[q].acct)
BY DEF Ready, LockReady, AdoptReady, Reads

\* A write by p, of account a's snapshot or another's.
LEMMA WriteBacked ==
    ASSUME Ledger, NEW a \in Acct, Backed(a), NEW p \in Proc, UNCHANGED <<server, live>>,
           \A q \in Proc \ {p} : w'[q] = w[q], w[p].pc # "livewrite",
           w'[p].pc \notin {"post", "lock", "adopt", "livesave"},
           forfeit \subseteq forfeit', raced \subseteq raced',
           a \notin Exempt' =>
             \/ /\ store'[a] = store[a]
                /\ w[p].pc = "save" => store[a] # w[p].rec
                /\ w[p].pc = "livesave" => store[a] # w[p].cur
             \/ /\ store'[a] \in valid \/ Serves(a)
                /\ \A q \in Proc \ {p} : w[q].acct = a /\ Reads(w[q]) =>
                     /\ store'[a] = w[q].rec => live = w[q].rec \/ Serves(a)
                     /\ Following(a, w[q].rec)' => Serves(a)
    PROVE  Backed(a)'
<1> SUFFICES ASSUME a \notin Exempt, a \notin Exempt'
    PROVE  Backs(a, store[a])' /\ \A q \in Proc : w'[q].acct = a => Ready(w[q])'
  BY DEF Backed, Exempt
<1>1. valid' = valid /\ live' = live /\ Backs(a, store[a])
  BY DEF server, Backed
<1>2. Serves(a) => Serves(a)'
  BY <1>1, ServesBeside
<1>3. CASE /\ store'[a] = store[a]
           /\ w[p].pc = "save" => store[a] # w[p].rec
           /\ w[p].pc = "livesave" => store[a] # w[p].cur
  <2>1. Backs(a, store[a])'
    <3>1. CASE store[a] \in valid \/ Serves(a)
      BY <1>1, <1>2, <1>3, <3>1 DEF Backs
    <3>2. ASSUME NEW q \in Proc, w[q].acct = a,
                 \/ w[q].pc = "save" /\ w[q].rec = store[a]
                 \/ w[q].pc \in {"livewrite", "livesave"} /\ w[q].cur = store[a]
          PROVE  Backs(a, store[a])'
      <4>1. q # p
        BY <1>3, <3>2
      <4> QED
        BY <1>3, <3>2, <4>1, BacksByOther
    <3> QED
      BY <1>1, <3>1, <3>2, BacksCases
  <2>2. \A q \in Proc : w'[q].acct = a => Ready(w[q])'
    BY <1>1, <1>2, <1>3, OthersReady DEF Backed
  <2> QED
    BY <2>1, <2>2
<1>4. CASE /\ store'[a] \in valid \/ Serves(a)
           /\ \A q \in Proc \ {p} : w[q].acct = a /\ Reads(w[q]) =>
                /\ store'[a] = w[q].rec => live = w[q].rec \/ Serves(a)
                /\ Following(a, w[q].rec)' => Serves(a)
  <2>1. Backs(a, store[a])'
    BY <1>1, <1>2, <1>4 DEF Backs
  <2>2. Ready(w[p])'
    BY DEF Ready
  <2>3. ASSUME NEW q \in Proc \ {p}, w'[q].acct = a PROVE Ready(w[q])'
    <3>1. w'[q] = w[q] /\ Ready(w[q])
      BY <2>3 DEF Backed
    <3> QED
      BY <1>1, <1>2, <1>4, <2>3, <3>1, ReadyAfter
  <2> QED
    BY <2>1, <2>2, <2>3
<1> QED
  BY <1>3, <1>4

LEMMA SaveBacked ==
    ASSUME Ledger, NEW a \in Acct, Backed(a), NEW p \in Proc, Save(p)
    PROVE  Backed(a)'
<1> DEFINE n == w[p].new
<1>1. /\ w[p].pc = "save" /\ n \in Grant /\ n \in valid /\ w[p].acct \in Acct /\ ~Placed(n)
      /\ UNCHANGED <<server, live>> /\ \A q \in Proc \ {p} : w'[q] = w[q]
      /\ forfeit \subseteq forfeit' /\ raced \subseteq raced' /\ store \in [Acct -> Grant]
  BY SaveDoes, PairGood, ForfeitGrows DEF Ledger, CustodyInv, Types, TypeOK, At, Spending, Hand
<1>2. w'[p].pc \in {"idle", "reread"}
  BY SaveDoes, RestPc DEF Ledger, CustodyInv
<1>3. ASSUME a \notin Exempt', w[p].acct = a, store[a] = w[p].rec
      PROVE  store'[a] = n
  <2>1. n.acct = a
    BY <1>1, <1>3, OwnJobs DEF Exempt, Spending
  <2>2. store' = WriteRecord(a, w[p].rec, n)
    BY <1>3, <2>1, SaveDoes DEF Exempt
  <2> QED
    BY <1>1, <1>3, <2>2 DEF WriteRecord
<1>4. store'[a] = store[a] \/ (store'[a] = n /\ w[p].acct = a)
  BY <1>1, SaveDoes DEF WriteRecord
<1>5. ASSUME store'[a] = n, NEW q \in Proc \ {p}
      PROVE  store'[a] # w[q].rec /\ ~Following(a, w[q].rec)'
  <2>1. \A r \in Proc : n # w[r].rec /\ n # w[r].cur
    BY <1>1 DEF Placed
  <2>2. \A r \in Proc : w'[r].pc = "livesave" => w'[r] = w[r]
    BY <1>1, <1>2
  <2> QED
    BY <1>5, <2>1, <2>2 DEF Following
<1>6. CASE store'[a] = n
  BY <1>1, <1>2, <1>5, <1>6, WriteBacked
<1>7. CASE store'[a] # n
  <2>1. a \notin Exempt' => w[p].acct # a \/ store[a] # w[p].rec
    BY <1>3, <1>7
  <2>2. ASSUME a \notin Exempt', store[a] = w[p].rec
        PROVE  FALSE
    <3>1. store[a].acct = a
      BY <1>1, <2>2, OwnJobs DEF Exempt
    <3>2. w[p].acct = a
      BY <1>1, <2>2, <3>1, OwnJobs DEF Exempt
    <3> QED
      BY <2>1, <2>2, <3>2
  <2>3. a \notin Exempt' => store[a] # w[p].rec /\ store'[a] = store[a]
    BY <1>4, <1>7, <2>2
  <2> QED
    BY <1>1, <1>2, <2>3, WriteBacked
<1> QED
  BY <1>6, <1>7

LEMMA LiveSaveBacked ==
    ASSUME Ledger, NEW a \in Acct, Backed(a), NEW p \in Proc, LiveSave(p)
    PROVE  Backed(a)'
<1> DEFINE n == w[p].new
<1>1. /\ w[p].pc = "livesave" /\ n \in Grant /\ n \in valid /\ zone[n] = "fresh" /\ w[p].acct \in Acct
      /\ UNCHANGED <<server, live>> /\ \A q \in Proc \ {p} : w'[q] = w[q]
      /\ forfeit \subseteq forfeit' /\ raced \subseteq raced' /\ store \in [Acct -> Grant]
  BY LiveSaveDoes, PairGood, ForfeitGrows DEF Ledger, CustodyInv, Types, TypeOK, At, Spending
<1>2. w'[p].pc \in {"idle", "reread"}
  BY LiveSaveDoes, RestPc DEF Ledger, CustodyInv
<1>3. ASSUME a \notin Exempt', store[a] = w[p].cur
      PROVE  w[p].acct = a /\ store'[a] = n
  <2>1. a \notin Exempt
    BY <1>1, <1>3 DEF Exempt
  <2>2. w[p].acct = a
    BY <1>1, <1>3, <2>1, OwnJobs
  <2>3. n.acct = a
    BY <1>1, <2>1, <2>2, OwnJobs DEF Spending
  <2>4. store' = WriteRecord(a, w[p].cur, n)
    BY <1>3, <2>2, <2>3, LiveSaveDoes DEF Exempt
  <2> QED
    BY <1>1, <1>3, <2>2, <2>4 DEF WriteRecord
<1>4. store'[a] # store[a] => store'[a] = n /\ w[p].acct = a /\ store[a] = w[p].cur
  BY <1>1, LiveSaveDoes DEF WriteRecord
<1>5. CASE store'[a] # store[a]
  <2>1. ASSUME NEW q \in Proc \ {p} PROVE ~Following(a, w[q].rec)'
    <3>1. \A r \in Proc : w[r].pc = "livesave" => zone[w[r].cur] = "band"
      BY DEF Ledger, Hand
    <3>2. \A r \in Proc : w'[r].pc = "livesave" => w'[r] = w[r]
      BY <1>1, <1>2
    <3> QED
      BY <1>1, <1>4, <1>5, <3>1, <3>2 DEF Following
  <2>2. ASSUME a \notin Exempt', NEW q \in Proc \ {p}, w[q].acct = a, Reads(w[q]), store'[a] = w[q].rec
        PROVE  Serves(a)
    <3>1. Following(a, w[q].rec)
      BY <1>1, <1>4, <1>5, <2>2 DEF Following
    <3>2. Ready(w[q])
      BY <1>1, <2>2 DEF Backed, Exempt
    <3> QED
      BY <2>2, <3>1, <3>2, ReadyServes
  <2> QED
    BY <1>1, <1>2, <1>4, <1>5, <2>1, <2>2, WriteBacked
<1>6. CASE store'[a] = store[a]
  <2>1. CASE store[a] = w[p].cur /\ a \notin Exempt'
    <3>1. store'[a] = n /\ zone[w[p].cur] = "band"
      BY <1>1, <1>3, <2>1 DEF Ledger, Hand
    <3> QED
      BY <1>1, <1>6, <2>1, <3>1
  <2>2. CASE a \notin Exempt' => store[a] # w[p].cur
    BY <1>1, <1>2, <1>6, <2>2, WriteBacked
  <2> QED
    BY <2>1, <2>2
<1> QED
  BY <1>5, <1>6

LEMMA AdoptBacked ==
    ASSUME Ledger, NEW a \in Acct, Backed(a), NEW p \in Proc, Adopt(p)
    PROVE  Backed(a)'
<1> DEFINE c == w[p].cur
<1>1. /\ w[p].pc = "adopt" /\ c \in Grant /\ w[p].acct \in Acct
      /\ UNCHANGED <<server, live>> /\ \A q \in Proc \ {p} : w'[q] = w[q]
      /\ forfeit \subseteq forfeit' /\ raced \subseteq raced' /\ store \in [Acct -> Grant]
      /\ w[p] \in Job /\ Types
  BY AdoptDoes, ForfeitGrows DEF Ledger, CustodyInv, Types, TypeOK, At
<1>2. w'[p].pc \in {"idle", "reread", "livepost"}
  <2>1. [w[p] EXCEPT !.pc = "livepost", !.cur = c].pc = "livepost"
    BY <1>1 DEF Job
  <2>2. CASE w'[p] = Idle \/ w'[p] = Served(p)
    BY <1>1, <2>2, RestPc
  <2> QED
    BY <2>1, <2>2, AdoptDoes DEF Beyond
<1>3. CASE store'[a] = store[a]
  BY <1>1, <1>2, <1>3, WriteBacked
<1>4. CASE store'[a] # store[a]
  <2>1. w[p].acct = a /\ store[a] = w[p].rec /\ StoredBy(c) \ {a} = {}
    BY <1>1, <1>4, AdoptDoes DEF WriteRecord
  <2>2. ASSUME a \notin Exempt'
        PROVE  Serves(a)
    <3>1. Kept(w[p]) /\ Ready(w[p])
      BY <1>1, <2>1, <2>2 DEF Ledger, CustodyInv, Backed, Exempt
    <3>2. c.acct = a
      BY <1>1, <2>1, <2>2, <3>1 DEF Kept, Exempt
    <3> QED
      BY <1>1, <2>1, <3>1, <3>2 DEF Ready, AdoptReady
  <2> QED
    BY <1>1, <1>2, <2>2, WriteBacked
<1> QED
  BY <1>3, <1>4

LEMMA ResolveBacked ==
    ASSUME Ledger, Types', NEW a \in Acct, Backed(a), NEW p \in Proc, ResolveAdopt(p)
    PROVE  Backed(a)'
<1> DEFINE s == w[p].seen
<1>1. /\ w[p].pc = "oracleadopt" /\ s \in Grant
      /\ UNCHANGED <<server, live>> /\ \A q \in Proc \ {p} : w'[q] = w[q]
      /\ forfeit \subseteq forfeit' /\ raced \subseteq raced' /\ store \in [Acct -> Grant]
      /\ w'[p].pc \in {"idle", "creds"}
  BY ResolveDoes, ForfeitGrows DEF Ledger, CustodyInv, Types, TypeOK, At
<1>2. CASE store'[a] = store[a]
  BY <1>1, <1>2, WriteBacked
<1>3. CASE store'[a] # store[a]
  <2>1. store'[a] = s /\ a = s.acct /\ (s \in valid \cap {live} \/ s.acct \in forfeit')
    BY <1>1, <1>3, ResolveDoes
  <2>2. ASSUME s \in valid \cap {live}, NEW q \in Proc
        PROVE  ~Following(a, w[q].rec)'
    <3>1. \A r \in Proc : w[r].pc = "livesave" => w[r].cur \notin valid
      BY DEF Ledger, Hand
    <3>2. \A r \in Proc : w'[r].pc = "livesave" => w'[r] = w[r]
      BY <1>1
    <3> QED
      BY <2>1, <2>2, <3>1, <3>2 DEF Following
  <2> QED
    BY <1>1, <2>1, <2>2, WriteBacked DEF Exempt
<1> QED
  BY <1>2, <1>3

-----------------------------------------------------------------------------
(* Steps that change the credentials file *)

\* The live login that serves an account is its snapshot's, or nobody stores it.
LEMMA ServesStored ==
    ASSUME Ledger, NEW a \in Acct, a \notin Exempt, Serves(a), a \notin Unstored
    PROVE  live = store[a]
<1>1. CASE Rotated(a)
  <2>1. PICK q \in Proc : w[q].acct = a /\ w[q].pc = "livewrite" /\ live = w[q].cur
    BY <1>1 DEF Rotated
  <2>2. live \in Grant /\ live.acct = a
    BY <2>1, OwnJobs DEF Ledger, CustodyInv, Types, Shape
  <2> QED
    BY <2>2, UnstoredIs
<1>2. CASE Sound(a)
  <2>1. live \in Grant /\ live.acct = a
    BY <1>2 DEF Sound, Ledger, CustodyInv, Types, TypeOK
  <2> QED
    BY <2>1, UnstoredIs
<1> QED
  BY <1>1, <1>2 DEF Serves

\* Then the snapshot does not need the file, and nothing is on its way over it
\* that comes from a rotation of it.
LEMMA StoredServes ==
    ASSUME Ledger, NEW a \in Acct, Serves(a), live = store[a]
    PROVE  /\ \/ store[a] \in valid
              \/ \E q \in Proc : w[q].acct = a /\ w[q].pc = "livewrite" /\ w[q].cur = store[a]
           /\ \A q \in Proc : ~(w[q].pc = "livesave" /\ w[q].cur = store[a])
<1>1. \/ store[a] \in valid
      \/ \E q \in Proc : w[q].acct = a /\ w[q].pc = "livewrite" /\ w[q].cur = store[a]
  BY DEF Serves, Rotated, Sound
<1>2. ASSUME NEW q \in Proc, w[q].pc = "livesave", w[q].cur = store[a]
      PROVE  FALSE
  <2>1. w[q].cur \notin valid
    BY <1>2 DEF Ledger, Hand
  <2>2. PICK r \in Proc : w[r].pc = "livewrite" /\ w[r].cur = store[a]
    BY <1>1, <1>2, <2>1
  <2>3. r # q
    BY <1>2, <2>2
  <2> QED
    BY <1>2, <2>2, <2>3 DEF Ledger, Apart
<1> QED
  BY <1>1, <1>2

\* Where a job may be that has nothing to do with an account's snapshot.
LEMMA OverwriteBacked ==
    ASSUME Ledger, NEW a \in Acct, Backed(a), store' = store, valid \subseteq valid',
           forfeit \cup Unstored \subseteq forfeit', raced \subseteq raced',
           \A q \in Proc : \/ w'[q] = w[q]
                           \/ /\ w[q].pc \notin Spending
                              /\ w'[q].pc \notin {"lock", "adopt", "livesave"},
           a \notin Exempt' /\ a \in Reading =>
              \/ live'.acct # a
              \/ live' = store[a]
              \/ Sound(a)' /\ ~Placed(live')
    PROVE  Backed(a)'
<1> SUFFICES ASSUME a \notin Exempt, a \notin Exempt', a \notin Unstored
    PROVE  Backs(a, store[a])' /\ \A q \in Proc : w'[q].acct = a => Ready(w[q])'
  BY DEF Backed, Exempt
<1>0. Backs(a, store[a])
  BY DEF Backed
<1>1. Backs(a, store[a])'
  <2>1. CASE store[a] \in valid
    BY <2>1 DEF Backs
  <2>2. ASSUME NEW q \in Proc, w[q].acct = a,
               \/ w[q].pc = "save" /\ w[q].rec = store[a]
               \/ w[q].pc \in {"livewrite", "livesave"} /\ w[q].cur = store[a]
        PROVE  Backs(a, store[a])'
    <3>1. w'[q] = w[q]
      BY <2>2 DEF Spending
    <3> QED
      BY <2>2, <3>1 DEF Backs
  <2>3. CASE Serves(a)
    BY <2>1, <2>2, <2>3, ServesStored, StoredServes
  <2> QED
    BY <1>0, <2>1, <2>2, <2>3, BacksCases
<1>2. ASSUME NEW q \in Proc, w'[q].acct = a
      PROVE  Ready(w[q])'
  <2>1. CASE w'[q].pc \notin {"lock", "adopt"}
    BY <2>1 DEF Ready
  <2>2. CASE w'[q].pc \in {"lock", "adopt"} /\ Reads(w[q])
    <3>1. w'[q] = w[q] /\ Ready(w[q]) /\ a \in Reading /\ w[q].rec.acct = a
      <4>1. w'[q] = w[q]
        BY <2>2
      <4> QED
        BY <1>2, <2>2, <4>1, OwnJobs DEF Backed, Reading
    <3>2. Serves(a) => live = store[a]
      BY ServesStored
    <3>3. ~Following(a, w[q].rec)'
      <4>1. ASSUME Following(a, w[q].rec)' PROVE Following(a, w[q].rec)
        BY <3>1, <4>1 DEF Following
      <4>2. Following(a, w[q].rec) => Serves(a)
        BY <1>2, <2>2, <3>1, ReadyServes
      <4> QED
        BY <3>2, <4>1, <4>2, StoredServes DEF Following
    <3>4. CASE w[q].pc = "lock"
      BY <1>2, <3>1, <3>3, <3>4 DEF Ready, LockReady, Serves
    <3>5. CASE w[q].pc = "adopt" /\ w[q].cur.acct = a
      <4>1. live # w[q].rec /\ store[a] # w[q].rec
        BY <1>2, <3>1, <3>2, <3>5 DEF Ready, AdoptReady
      <4>2. live' # w[q].rec
        BY <3>1, <4>1 DEF Placed
      <4> QED
        BY <1>2, <3>1, <3>3, <3>5, <4>1, <4>2 DEF Ready, AdoptReady
    <3> QED
      BY <1>2, <2>2, <3>1, <3>4, <3>5 DEF Reads
  <2>3. CASE w'[q].pc \in {"lock", "adopt"} /\ ~Reads(w[q])
    <3>1. w'[q] = w[q]
      BY <2>3
    <3> QED
      BY <2>3, <3>1 DEF Reads, Ready
  <2> QED
    BY <2>1, <2>2, <2>3
<1> QED
  BY <1>1, <1>2

LEMMA InstallBacked ==
    ASSUME Ledger, Types', NEW a \in Acct, Backed(a), NEW p \in Proc, Install(p)
    PROVE  Backed(a)'
<1>1. /\ w[p].pc = "install" /\ UNCHANGED <<server, store>> /\ \A q \in Proc \ {p} : w'[q] = w[q]
      /\ forfeit \subseteq forfeit' /\ raced \subseteq raced' /\ w'[p].pc \in {"idle", "sync"}
  BY InstallDoes, ForfeitGrows DEF At
<1>2. CASE live' = w[p].creds /\ Unstored \subseteq forfeit' /\ Outdated(p) \subseteq forfeit'
  <2>1. ASSUME a \notin Exempt', a \in Reading, w[p].creds.acct = a
        PROVE  w[p].creds = store[a]
    <3>1. w[p].acct = a
      BY <1>1, <2>1, OwnJobs DEF Exempt
    <3> QED
      BY <1>2, <2>1, <3>1 DEF Outdated, Exempt
  <2>2. valid' = valid
    BY <1>1 DEF server
  <2> QED
    BY <1>1, <1>2, <2>1, <2>2, OverwriteBacked DEF Spending
<1>3. CASE UNCHANGED <<live, history>>
  BY <1>1, <1>3, WriteBacked
<1> QED
  BY <1>2, <1>3, InstallDoes

LEMMA LoginBacked ==
    ASSUME Ledger, NEW a \in Acct, Backed(a), NEW x \in Owner, Login(x)
    PROVE  Backed(a)'
<1>1. /\ minted[x] < MaxGen /\ valid' = valid \cup {Fresh(x)} /\ live' = Fresh(x)
      /\ store' = store /\ w' = w /\ forfeit \cup Unstored \subseteq forfeit' /\ raced \subseteq raced'
  BY DEF Login, Issue
<1>2. Fresh(x).acct = x /\ ~Placed(Fresh(x))
  BY <1>1, NextPair
<1>3. x = a => Sound(a)'
  <2>1. \A q \in Proc : w'[q].rec # live'
    BY <1>1, <1>2 DEF Placed
  <2> QED
    BY <1>1, <1>2, <2>1 DEF Sound
<1> QED
  BY <1>1, <1>2, <1>3, OverwriteBacked

\* The file changes under a job between its check and its adoption, and what
\* serves the account still does.
LEMMA ReadyLive ==
    ASSUME NEW q \in Proc, Ready(w[q]), w'[q] = w[q], store'[w[q].acct] = store[w[q].acct],
           live' # w[q].rec, live' \notin Grant \/ live'.acct # w[q].acct \/ Serves(w[q].acct)',
           Serves(w[q].acct) => Serves(w[q].acct)',
           Following(w[q].acct, w[q].rec)' => Following(w[q].acct, w[q].rec)
    PROVE  Ready(w[q])'
BY DEF Ready, LockReady, AdoptReady

LEMMA LiveWriteBacked ==
    ASSUME Ledger, NEW a \in Acct, Backed(a), NEW p \in Proc, LiveWrite(p)
    PROVE  Backed(a)'
<1> DEFINE n == w[p].new
           c == w[p].cur
<1>1. /\ w[p].pc = "livewrite" /\ w'[p].pc = "livesave" /\ n \in Grant /\ n \in valid /\ c \in Grant
      /\ UNCHANGED <<server, store>> /\ \A q \in Proc \ {p} : w'[q] = w[q]
      /\ w'[p].new = n /\ w'[p].cur = c /\ w'[p].rec = w[p].rec /\ w'[p].acct = w[p].acct
      /\ forfeit \subseteq forfeit' /\ raced \subseteq raced' /\ zone[n] = "fresh" /\ ~Placed(n)
      /\ c \notin valid
  BY LiveWriteDoes, PairGood, ForfeitGrows DEF Ledger, Hand, At, Spending
<1>2. SUFFICES ASSUME a \notin Exempt, a \notin Exempt'
      PROVE  Backs(a, store[a])' /\ \A q \in Proc : w'[q].acct = a => Ready(w[q])'
  BY <1>1 DEF Backed, Exempt
<1>3. \A q \in Proc : w'[q].pc = "post" => w'[q] = w[q] /\ zone[w[q].rec] = "stale"
  <2>1. \A q \in Proc : Hand(w[q])
    BY DEF Ledger
  <2> QED
    BY <1>1, <2>1 DEF Hand
<1>4. live' = n /\ n.acct = a => Sound(a)'
  BY <1>1, <1>3 DEF Sound, server
<1>5. Serves(a) => Serves(a)'
  <2>1. ASSUME Rotated(a) PROVE Serves(a)'
    <3>1. PICK q \in Proc : w[q].acct = a /\ w[q].pc = "livewrite" /\ live = w[q].cur
      BY <2>1 DEF Rotated
    <3>2. CASE q = p
      <4>1. n.acct = a /\ StillOurs(p)
        BY <1>1, <1>2, <3>1, <3>2, OwnJobs DEF StillOurs, Spending
      <4>2. live' = n
        BY <1>2, <4>1, LiveWriteDoes DEF Exempt
      <4> QED
        BY <1>4, <4>1, <4>2 DEF Serves
    <3>3. CASE q # p
      <4>1. live # c /\ w'[q] = w[q]
        BY <1>1, <3>1, <3>3 DEF Ledger, Apart
      <4>2. live \in Grant
        BY <3>1 DEF Ledger, CustodyInv, Types, Shape
      <4>3. ~StillOurs(p)
        BY <4>1, <4>2, GrantsAssumption DEF StillOurs
      <4>4. live' = live
        BY <4>3, LiveWriteDoes
      <4> QED
        BY <3>1, <4>1, <4>4 DEF Serves, Rotated
    <3> QED
      BY <3>2, <3>3
  <2>2. ASSUME Sound(a) PROVE Serves(a)'
    <3>1. live \in Grant /\ live # c /\ live \in valid
      BY <1>1, <2>2 DEF Sound, Ledger, CustodyInv, Types, TypeOK
    <3>2. live' = live
      BY <3>1, LiveWriteDoes, GrantsAssumption DEF StillOurs
    <3> QED
      BY <1>1, <1>3, <2>2, <3>2 DEF Serves, Sound, server
  <2> QED
    BY <2>1, <2>2 DEF Serves
<1>6. Backs(a, store[a])'
  <2>1. CASE store[a] \in valid \/ Serves(a)
    BY <1>1, <1>5, <2>1 DEF Backs, server
  <2>2. ASSUME NEW q \in Proc, w[q].acct = a,
               \/ w[q].pc = "save" /\ w[q].rec = store[a]
               \/ w[q].pc \in {"livewrite", "livesave"} /\ w[q].cur = store[a]
        PROVE  Backs(a, store[a])'
    <3>1. CASE q # p
      BY <1>1, <2>2, <3>1, BacksByOther
    <3>2. CASE q = p
      BY <1>1, <2>2, <3>2 DEF Backs
    <3> QED
      BY <3>1, <3>2
  <2> QED
    BY <1>2, <2>1, <2>2, BacksCases DEF Backed
<1>7. ASSUME NEW q \in Proc, w'[q].acct = a
      PROVE  Ready(w[q])'
  <2>1. CASE q = p
    BY <1>1, <2>1 DEF Ready
  <2>2. CASE q # p
    <3>1. w'[q] = w[q] /\ Ready(w[q]) /\ n # w[q].rec
      BY <1>1, <1>2, <1>7, <2>2 DEF Backed, Placed
    <3>2. Following(a, w[q].rec)' => Following(a, w[q].rec)
      BY <1>1, <3>1, FollowingBefore
    <3>3. CASE live' = live
      BY <1>1, <1>5, <1>7, <3>1, <3>2, <3>3, ReadyBeside
    <3>4. CASE live' = n
      BY <1>1, <1>4, <1>5, <1>7, <3>1, <3>2, <3>4, ReadyLive DEF Serves
    <3> QED
      BY <3>3, <3>4, LiveWriteDoes
  <2> QED
    BY <2>1, <2>2
<1> QED
  BY <1>6, <1>7

LEMMA RefreshBacked ==
    ASSUME Ledger, NEW a \in Acct, Backed(a), ClaudeRefresh
    PROVE  Backed(a)'
<1>1. /\ live \in Grant /\ zone[live] = "stale" /\ store' = store /\ w' = w
      /\ forfeit \subseteq forfeit' /\ raced \subseteq raced'
  BY RefreshDoes
<1>2. SUFFICES ASSUME a \notin Exempt, a \notin Exempt'
      PROVE  Backs(a, store[a])' /\ \A q \in Proc : w'[q].acct = a => Ready(w[q])'
  BY <1>1 DEF Backed, Exempt
<1> DEFINE f == Fresh(live.acct)
<1>3. \/ live' = f /\ Mint(live)
      \/ live' = Blank /\ live \notin valid /\ valid' = valid
  BY RefreshDoes DEF server
<1>4. ASSUME Mint(live)
      PROVE  /\ valid' = (valid \ {live}) \cup {f} /\ f.acct = live.acct /\ ~Placed(f)
             /\ live \in valid
  <2>1. live.acct \in Owner /\ minted[live.acct] < MaxGen
    BY <1>1, <1>4 DEF Mint, Grant
  <2> QED
    BY <1>4, <2>1, NextPair DEF Mint
<1>5. ASSUME live.acct = a, live' = f, Mint(live)
      PROVE  Serves(a)'
  <2>1. \A q \in Proc : w'[q].rec # live'
    BY <1>1, <1>4, <1>5 DEF Placed
  <2> QED
    BY <1>4, <1>5, <2>1 DEF Serves, Sound
<1>6. Serves(a) => Serves(a)'
  <2>1. ~Rotated(a)
    <3>1. \A q \in Proc : w[q].pc = "livewrite" => zone[w[q].cur] = "band"
      BY DEF Ledger, Hand
    <3> QED
      BY <1>1, <3>1 DEF Rotated
  <2> QED
    BY <1>3, <1>5, <2>1 DEF Serves, Sound
<1>7. Backs(a, store[a])'
  <2>1. CASE store[a] \in valid
    <3>1. store[a].acct = a
      BY <1>2, OwnJobs
    <3>2. CASE live' = f /\ Mint(live)
      <4>1. CASE store[a] = live
        BY <1>5, <3>1, <3>2, <4>1 DEF Backs
      <4>2. CASE store[a] # live
        BY <1>1, <1>4, <2>1, <3>2, <4>2 DEF Backs
      <4> QED
        BY <4>1, <4>2
    <3>3. CASE valid' = valid
      BY <1>1, <2>1, <3>3 DEF Backs
    <3> QED
      BY <1>3, <3>2, <3>3
  <2>2. CASE Serves(a)
    BY <1>6, <2>2 DEF Backs
  <2>3. ASSUME NEW q \in Proc, w[q].acct = a,
               \/ w[q].pc = "save" /\ w[q].rec = store[a]
               \/ w[q].pc \in {"livewrite", "livesave"} /\ w[q].cur = store[a]
        PROVE  Backs(a, store[a])'
    BY <1>1, <2>3 DEF Backs
  <2> QED
    BY <1>2, <2>1, <2>2, <2>3, BacksCases DEF Backed
<1>8. ASSUME NEW q \in Proc, w'[q].acct = a
      PROVE  Ready(w[q])'
  <2>1. w'[q] = w[q] /\ Ready(w[q]) /\ w[q].acct = a
    BY <1>1, <1>2, <1>8 DEF Backed
  <2>2. Following(a, w[q].rec)' => Following(a, w[q].rec)
    BY <1>1, <2>1 DEF Following
  <2>3. CASE live' = f /\ Mint(live)
    <3>1. live' # w[q].rec
      BY <1>4, <2>3 DEF Placed
    <3>2. live'.acct # a \/ Serves(a)'
      BY <1>4, <1>5, <2>3
    <3> QED
      BY <1>1, <1>6, <2>1, <2>2, <3>1, <3>2, ReadyLive
  <2>4. CASE live' = Blank /\ live \notin valid
    <3>1. Reads(w[q]) => w[q].rec \in Grant
      BY DEF Reads, Ledger, CustodyInv, Types, Shape
    <3>2. CASE Reads(w[q])
      <4>1. live' # w[q].rec /\ live' \notin Grant
        BY <2>4, <3>1, <3>2, GrantsAssumption
      <4> QED
        BY <1>1, <1>6, <2>1, <2>2, <4>1, ReadyLive
    <3>3. CASE ~Reads(w[q])
      BY <2>1, <3>3 DEF Reads, Ready
    <3> QED
      BY <3>2, <3>3
  <2> QED
    BY <1>3, <2>3, <2>4
<1> QED
  BY <1>7, <1>8

LEMMA AddBacked ==
    ASSUME Ledger, NEW a \in Acct, Backed(a), NEW b \in Acct, AddAgain(b)
    PROVE  Backed(a)'
<1> DEFINE f == Fresh(b)
<1>1. /\ minted[b] < MaxGen /\ valid' = valid \cup {f} /\ store' = [store EXCEPT ![b] = f]
      /\ live' = live /\ w' = w /\ forfeit' = forfeit /\ raced \subseteq raced' /\ b \in Owner
      /\ store \in [Acct -> Grant]
  BY DEF AddAgain, Issue, Owner, Ledger, CustodyInv, Types, TypeOK
<1>2. ~Placed(f)
  BY <1>1, NextPair
<1>3. SUFFICES ASSUME a \notin Exempt, a \notin Exempt'
      PROVE  Backs(a, store[a])' /\ \A q \in Proc : w'[q].acct = a => Ready(w[q])'
  BY <1>1 DEF Backed, Exempt
<1>4. Serves(a) => Serves(a)'
  BY <1>1 DEF Serves, Rotated, Sound
<1>5. CASE a # b
  <2>1. store'[a] = store[a]
    BY <1>1, <1>5
  <2>2. Backs(a, store[a])'
    BY <1>1, <1>3, <1>4, <2>1 DEF Backed, Backs
  <2>3. ASSUME NEW q \in Proc, w'[q].acct = a
        PROVE  Ready(w[q])'
    <3>1. w'[q] = w[q] /\ Ready(w[q]) /\ w[q].acct = a
      BY <1>1, <1>3, <2>3 DEF Backed
    <3>2. Following(a, w[q].rec)' => Following(a, w[q].rec)
      BY <1>1, <2>1 DEF Following
    <3> QED
      BY <1>1, <1>4, <2>1, <3>1, <3>2, ReadyBeside
  <2> QED
    BY <2>2, <2>3
<1>6. CASE a = b
  <2>1. store'[a] = f
    BY <1>1, <1>6
  <2>2. Backs(a, store[a])'
    BY <1>1, <2>1 DEF Backs
  <2>3. ASSUME NEW q \in Proc, w'[q].acct = a
        PROVE  Ready(w[q])'
    <3>1. w'[q] = w[q] /\ Ready(w[q]) /\ w[q].acct = a
      BY <1>1, <1>3, <2>3 DEF Backed
    <3>2. store'[a] # w[q].rec /\ ~Following(a, w[q].rec)'
      BY <1>1, <1>2, <2>1 DEF Following, Placed
    <3> QED
      BY <1>1, <3>1, <3>2, ReadyAfter
  <2> QED
    BY <2>2, <2>3
<1> QED
  BY <1>5, <1>6

LEMMA CrashBacked ==
    ASSUME Ledger, NEW a \in Acct, Backed(a), NEW P \in SUBSET Proc, Crash(P)
    PROVE  Backed(a)'
<1>1. /\ valid' = valid /\ store' = store /\ live' = live /\ raced' = raced
      /\ forfeit \subseteq forfeit'
      /\ \A q \in Proc : w'[q] = IF q \in P THEN Idle ELSE w[q]
      /\ \A q \in P : w[q].new # NoGrant => w[q].new.acct \in forfeit'
  BY DEF Crash, server, files
<1>2. SUFFICES ASSUME a \notin Exempt, a \notin Exempt'
      PROVE  Backs(a, store[a])' /\ \A q \in Proc : w'[q].acct = a => Ready(w[q])'
  BY <1>1 DEF Backed, Exempt
<1>3. ASSUME NEW q \in Proc, w[q].acct = a, w[q].pc \in Spending
      PROVE  w'[q] = w[q]
  <2>1. w[q].new.acct = a /\ w[q].new # NoGrant
    BY <1>2, <1>3, OwnJobs, PairGood, GrantsAssumption
  <2> QED
    BY <1>1, <1>2, <2>1 DEF Exempt
<1>4. ASSUME NEW q \in Proc, w'[q].pc # "idle"
      PROVE  w'[q] = w[q]
  BY <1>1, <1>4 DEF Idle
<1>5. Serves(a) => Serves(a)'
  <2>1. ASSUME Rotated(a) PROVE Rotated(a)'
    <3>1. PICK q \in Proc : w[q].acct = a /\ w[q].pc = "livewrite" /\ live = w[q].cur
      BY <2>1 DEF Rotated
    <3>2. w'[q] = w[q]
      BY <1>3, <3>1 DEF Spending
    <3> QED
      BY <1>1, <3>1, <3>2 DEF Rotated
  <2>2. ASSUME Sound(a) PROVE Sound(a)'
    BY <1>1, <1>4, <2>2 DEF Sound
  <2> QED
    BY <2>1, <2>2 DEF Serves
<1>6. Backs(a, store[a])'
  <2>1. CASE store[a] \in valid \/ Serves(a)
    BY <1>1, <1>5, <2>1 DEF Backs
  <2>2. ASSUME NEW q \in Proc, w[q].acct = a,
               \/ w[q].pc = "save" /\ w[q].rec = store[a]
               \/ w[q].pc \in {"livewrite", "livesave"} /\ w[q].cur = store[a]
        PROVE  Backs(a, store[a])'
    <3>1. w'[q] = w[q]
      BY <1>3, <2>2 DEF Spending
    <3> QED
      BY <1>1, <2>2, <3>1 DEF Backs
  <2> QED
    BY <1>2, <2>1, <2>2, BacksCases DEF Backed
<1>7. ASSUME NEW q \in Proc, w'[q].acct = a
      PROVE  Ready(w[q])'
  <2>1. CASE w'[q].pc = "idle"
    BY <2>1 DEF Ready
  <2>2. CASE w'[q].pc # "idle"
    <3>1. w'[q] = w[q] /\ Ready(w[q]) /\ w[q].acct = a
      BY <1>2, <1>4, <1>7, <2>2 DEF Backed
    <3>2. Following(a, w[q].rec)' => Following(a, w[q].rec)
      BY <1>1, <1>4, <3>1 DEF Following
    <3> QED
      BY <1>1, <1>5, <3>1, <3>2, ReadyBeside
  <2> QED
    BY <2>1, <2>2
<1> QED
  BY <1>6, <1>7

\* Neither the clock nor the cooldown has a say in what backs an account.
LEMMA SameBacked ==
    ASSUME NEW a \in Acct, Backed(a), UNCHANGED <<valid, store, live, w, forfeit, raced>>
    PROVE  Backed(a)'
BY DEF Backed, Exempt, Backs, Serves, Rotated, Sound, Ready, LockReady, AdoptReady, Following

LEMMA BackingStep == Prompt /\ Backing /\ [Next]_vars => Backing'
<1> SUFFICES ASSUME Prompt, Backing, [Next]_vars PROVE Backing'
  OBVIOUS
<1>1. Ledger /\ Ledger' /\ Types'
  BY LedgerStep DEF Backing, Ledger, CustodyInv
<1>2. SUFFICES ASSUME NEW a \in Acct, Backed(a)
      PROVE  Backed(a)'
  BY <1>1 DEF Backing
<1>3. CASE UNCHANGED vars
  BY <1>2, <1>3, SameBacked DEF vars, server, files, history
<1>4. ASSUME NEW g \in Grant, Age(g) PROVE Backed(a)'
  BY <1>2, <1>4, SameBacked DEF Age, files, history
<1>5. CASE CoolDown
  BY <1>2, <1>5, SameBacked DEF CoolDown, server, files, history
<1>6. ASSUME NEW p \in Proc, Moves(p) PROVE Backed(a)'
  BY <1>1, <1>2, <1>6, MovesBacked
<1>7. ASSUME NEW p \in Proc, Post(p) \/ Save(p) \/ Adopt(p) \/ LivePost(p) \/ LiveWrite(p) \/ LiveSave(p)
      PROVE  Backed(a)'
  BY <1>1, <1>2, <1>7, PostBacked, SaveBacked, AdoptBacked, LivePostBacked, LiveWriteBacked, LiveSaveBacked
<1>8. ASSUME NEW p \in Proc, ResolveAdopt(p) \/ Install(p) PROVE Backed(a)'
  BY <1>1, <1>2, <1>8, ResolveBacked, InstallBacked
<1>9. CASE ClaudeRefresh
  BY <1>1, <1>2, <1>9, RefreshBacked
<1>10. ASSUME NEW x \in Owner, Login(x) PROVE Backed(a)'
  BY <1>1, <1>2, <1>10, LoginBacked
<1>11. ASSUME NEW b \in Acct, AddAgain(b) PROVE Backed(a)'
  BY <1>1, <1>2, <1>11, AddBacked
<1>12. Daemon \subseteq Proc /\ \A p \in Cli \cup Human : p \in Proc /\ {p} \subseteq Proc
  BY DEF Daemon, Proc
<1>13. ASSUME NEW P \in SUBSET Proc, Crash(P) PROVE Backed(a)'
  BY <1>1, <1>2, <1>13, CrashBacked
<1> QED
  BY <1>3, <1>4, <1>5, <1>6, <1>7, <1>8, <1>9, <1>10, <1>11, <1>12, <1>13
     DEF Next, AccessToken, Switch, Moves

LEMMA InitBacking == Init => Backing
<1> SUFFICES ASSUME Init PROVE Backing
  OBVIOUS
<1>1. ASSUME NEW a \in Acct PROVE Backed(a)
  <2>1. store[a] \in valid
    BY DEF Init, Owner
  <2>2. \A p \in Proc : Ready(w[p])
    BY DEF Init, Idle, Ready
  <2> QED
    BY <2>1, <2>2 DEF Backed, Backs
<1> QED
  BY <1>1, InitLedger DEF Backing

LEMMA Backings == ASSUME Prompt PROVE Spec => []Backing
BY InitBacking, BackingStep, PTL DEF Spec

-----------------------------------------------------------------------------
(* Whose grant a stale account spends *)

\* The grant about to be spent for an account nobody is logged in with is not
\* the one in the file.
Distinct == \A p \in Proc : w[p].pc = "post" => w[p].rec # live

Dormant == Ledger /\ Handed /\ Distinct

\* No job comes to the POST, and none that is there has the new live login.
LEMMA DistinctStays ==
    ASSUME Distinct,
           \A q \in Proc : w'[q].pc = "post" => w[q].pc = "post" /\ w'[q].rec = w[q].rec,
           live' = live \/ \A q \in Proc : w[q].pc = "post" => w[q].rec # live'
    PROVE  Distinct'
BY DEF Distinct

\* What a job about to POST has in hand was issued, and is out of its window.
LEMMA PostedIs ==
    ASSUME Ledger, NEW q \in Proc, w[q].pc = "post"
    PROVE  w[q].rec \in Grant /\ zone[w[q].rec] = "stale" /\ Placed(w[q].rec)
<1>1. Shape(w[q]) /\ Hand(w[q])
  BY DEF Ledger, CustodyInv, Types
<1> QED
  BY <1>1 DEF Shape, Hand, Placed

LEMMA AloneDistinct ==
    ASSUME Ledger, Distinct, NEW p \in Proc, \A q \in Proc \ {p} : w'[q] = w[q],
           w'[p].pc # "post",
           live' = live \/ \A q \in Proc : w[q].pc = "post" => w[q].rec # live'
    PROVE  Distinct'
BY DistinctStays

LEMMA StompStep == Prompt /\ Human = {} /\ Dormant /\ [Next]_vars => Distinct'
<1> SUFFICES ASSUME Prompt, Human = {}, Ledger, Handed, Distinct, [Next]_vars PROVE Distinct'
  BY DEF Dormant
<1>1. Types' /\ w \in [Proc -> Job]
  BY TypesStep DEF Handed, Types, TypeOK
<1>2. CASE live' = live /\ w' = w
  BY <1>2 DEF Distinct
<1>3. ASSUME NEW p \in Proc, Moves(p) PROVE Distinct'
  <2>1. live' = live /\ \A q \in Proc \ {p} : w'[q] = w[q]
    BY <1>1, <1>3, MovesQuietly
  <2> QED
    BY <1>3, <2>1, MovesDo DEF Distinct
<1>4. ASSUME NEW p \in Proc, Post(p) \/ LivePost(p) PROVE Distinct'
  <2>1. live' = live /\ \A q \in Proc \ {p} : w'[q] = w[q]
    BY <1>4, PostDoes, LivePostDoes
  <2>2. Idle.pc = "idle" /\ Served(p).pc \in {"idle", "reread"}
    BY <1>1 DEF Idle, Served, Job
  <2>3. w'[p].pc # "post"
    BY <1>4, <2>2, PostDoes, LivePostDoes DEF Takes
  <2> QED
    BY <2>1, <2>3, AloneDistinct
<1>5. ASSUME NEW p \in Proc, Save(p) \/ LiveSave(p) \/ Adopt(p) \/ ResolveAdopt(p) PROVE Distinct'
  <2>1. live' = live /\ \A q \in Proc \ {p} : w'[q] = w[q]
    BY <1>1, <1>5 DEF Save, LiveSave, Adopt, ResolveAdopt, Done
  <2>2. Idle.pc = "idle" /\ Served(p).pc \in {"idle", "reread"}
    BY <1>1 DEF Idle, Served, Job
  <2>3. Beyond(p, w[p].cur).pc \in {"idle", "reread", "livepost"}
    BY <1>1, <2>2 DEF Beyond, Job
  <2>4. \/ w'[p] \in {Idle, Served(p), Beyond(p, w[p].cur)}
        \/ w'[p] = [w[p] EXCEPT !.pc = "creds", !.seen = NoGrant, !.believed = Resolved(p)]
    BY <1>1, <1>5 DEF Save, LiveSave, Adopt, ResolveAdopt, Done
  <2>5. w'[p].pc # "post"
    BY <1>1, <2>2, <2>3, <2>4 DEF Job
  <2> QED
    BY <2>1, <2>5, AloneDistinct
<1>6. ASSUME NEW p \in Proc, LiveWrite(p) PROVE Distinct'
  <2>1. Hand(w[p]) /\ w[p].pc = "livewrite" /\ ~Placed(w[p].new)
    BY <1>6, LiveWriteDoes DEF Ledger, Hand, At
  <2>2. live' \in {live, w[p].new}
    BY <1>6, LiveWriteDoes
  <2> QED
    BY <1>6, <2>1, <2>2, LiveWriteDoes, PostedIs, AloneDistinct
<1>7. ASSUME NEW p \in Proc, Install(p) PROVE Distinct'
  <2>1. w'[p].pc # "post" /\ \A q \in Proc \ {p} : w'[q] = w[q]
    BY <1>1, <1>7, InstallDoes
  <2>2. Unattended(p)
    <3>1. w[p].pc = "install" /\ w[p] \in Job
      BY <1>1, <1>7 DEF Install, At
    <3> QED
      BY <3>1 DEF Handed, Routed, PollSteps, Unattended, Job
  <2>3. live' # live => \A q \in Proc : w[q].pc = "post" => w[q].rec # live'
    BY <1>7, <2>2, WrittenUnattended, PostedIs
  <2> QED
    BY <2>1, <2>3, AloneDistinct
<1>8. ASSUME NEW a \in Owner, minted[a] < MaxGen, live' = Fresh(a), w' = w PROVE Distinct'
  <2>1. ~Placed(Fresh(a))
    BY <1>8, NextPair
  <2> QED
    BY <1>8, <2>1, PostedIs, DistinctStays
<1>9. CASE ClaudeRefresh
  <2>1. CASE Mint(live) /\ live' = Fresh(live.acct)
    BY <1>8, <1>9, <2>1, RefreshDoes DEF Mint, Grant
  <2>2. CASE live' = Blank
    BY <1>9, <2>2, RefreshDoes, PostedIs, DistinctStays, GrantsAssumption
  <2> QED
    BY <1>9, <2>1, <2>2, RefreshDoes
<1>10. ASSUME NEW x \in Owner, Login(x) PROVE Distinct'
  BY <1>8, <1>10 DEF Login, Issue
<1>11. ASSUME NEW P \in SUBSET Proc, Crash(P) PROVE Distinct'
  <2>1. live' = live /\ \A q \in Proc : w'[q] = w[q] \/ w'[q] = Idle
    BY <1>11 DEF Crash, files
  <2> QED
    BY <2>1, DistinctStays DEF Idle
<1>12. CASE (\E a \in Acct : AddAgain(a)) \/ (\E g \in Grant : Age(g)) \/ CoolDown \/ UNCHANGED vars
  BY <1>2, <1>12 DEF AddAgain, Age, CoolDown, vars, files
<1>13. Daemon \subseteq Proc /\ \A p \in Cli \cup Human : p \in Proc /\ {p} \subseteq Proc
  BY DEF Daemon, Proc
<1> QED
  BY <1>3, <1>4, <1>5, <1>6, <1>7, <1>9, <1>10, <1>11, <1>12, <1>13 DEF Next, AccessToken, Switch, Moves

LEMMA Dormants == ASSUME Prompt, Human = {} PROVE Spec => []Dormant
<1>1. Init => Dormant
  <2>1. Init => Distinct
    BY DEF Init, Idle, Distinct
  <2> QED
    BY <2>1, InitLedger, InitHanded DEF Dormant
<1>2. Dormant /\ [Next]_vars => Dormant'
  BY StompStep, LedgerStep, HandedStep DEF Dormant
<1> QED
  BY <1>1, <1>2, PTL DEF Spec

-----------------------------------------------------------------------------
(* Theorems *)

\* Of every managed account that no fault, no overwrite by hand and no decision
\* about a login that had moved on since may have cost a pair, a grant the
\* endpoint honours is always held, in its snapshot, in the live file or on its
\* way to them (tokens.AccessToken, switcher.Execute, the daemon's resolveLive).
THEOREM GrantsGrantNeverLost == ASSUME Prompt PROVE Spec => []GrantNeverLost
<1>1. ASSUME Backing PROVE GrantNeverLost
  <2>1. ASSUME NEW a \in Acct, a \notin Exempt PROVE Held(a) # {}
    BY <1>1, <2>1, BackedHeld DEF Backing, Backed
  <2> QED
    BY <2>1 DEF GrantNeverLost
<1> QED
  BY <1>1, Backings, PTL

\* Where no human names the target, the grant spent for an account nobody is
\* logged in with is never the one Claude Code holds (AccessToken's identity
\* check): whatever came into the file since the check, it was fresh, or a login
\* that a stale account does not hold.
THEOREM GrantsNoStomp == ASSUME Prompt, Human = {} PROVE Spec => NoStomp
<1>1. ASSUME Dormant, NEW p \in Proc, Post(p) PROVE w[p].rec # live
  BY <1>1 DEF Dormant, Distinct, Post, At
<1>2. Dormant => [\A p \in Proc : (Post(p) /\ valid' # valid) => w[p].rec # live]_vars
  BY <1>1
<1> QED
  BY <1>2, Dormants, PTL DEF NoStomp
=============================================================================
