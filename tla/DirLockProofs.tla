--------------------------- MODULE DirLockProofs ---------------------------
(***************************************************************************)
(* What is proved of DirLock for every number of processes, interval,       *)
(* threshold, suspension and crash.                                         *)
(***************************************************************************)
EXTENDS DirLock, FiniteSetTheorems, TLAPS

-----------------------------------------------------------------------------
(* A stamp nobody has seen exists *)

LEMMA StampFresh ==
    ASSUME j \in [Proc -> Call]
    PROVE  NewStamp \in Stamp /\ NewStamp # dir /\ \A p \in Proc : NewStamp # j[p].saw
<1> DEFINE seen  == [p \in Proc |-> j[p].saw]
           Seen  == {seen[p] : p \in Proc}
<1>1. IsFiniteSet(Seen) /\ Cardinality(Seen) <= Cardinality(Proc)
  <2>1. seen \in Surjection(Proc, Seen)
    BY DEF Surjection
  <2> QED
    BY <2>1, FS_Surjection, DirLockAssumption
<1>2. IsFiniteSet(Seen \cup {dir}) /\ Cardinality(Seen \cup {dir}) <= Cardinality(Proc) + 1
  <2>1. Cardinality(Seen) \in Nat /\ Cardinality(Proc) \in Nat
    BY <1>1, FS_CardinalityType, DirLockAssumption
  <2> HIDE DEF Seen
  <2>2. Cardinality(Seen \cup {dir}) = IF dir \in Seen THEN Cardinality(Seen) ELSE Cardinality(Seen) + 1
    BY <1>1, FS_AddElement
  <2> QED
    BY <1>1, <2>1, <2>2, FS_AddElement
<1>3. ~(Stamp \subseteq Seen \cup {dir})
  <2> HIDE DEF Seen
  <2> SUFFICES ASSUME Stamp \subseteq Seen \cup {dir} PROVE FALSE
    OBVIOUS
  <2>1. Cardinality(Stamp) <= Cardinality(Seen \cup {dir})
    BY <1>2, FS_Subset
  <2>2. /\ Cardinality(Stamp) \in Nat /\ Cardinality(Proc) \in Nat
        /\ Cardinality(Seen \cup {dir}) \in Nat
    BY <1>2, FS_CardinalityType, DirLockAssumption
  <2> QED
    BY <1>2, <2>1, <2>2, DirLockAssumption
<1>4. \E s \in Stamp : s # dir /\ \A p \in Proc : s # j[p].saw
  BY <1>3
<1> QED
  BY <1>4 DEF NewStamp

-----------------------------------------------------------------------------
(* Types *)

LEMMA NoCallType == NoCall \in Call
BY DirLockAssumption DEF NoCall, Call, PC, Waiting, Holding, Section

LEMMA ProgramPoints ==
    /\ "idle" \in PC /\ "mkdir" \in PC /\ "retry" \in PC /\ "stat" \in PC /\ "steal" \in PC
    /\ "backoff" \in PC /\ "inspect" \in PC /\ "load" \in PC /\ "fn" \in PC /\ "verify" \in PC
    /\ "save" \in PC /\ "stopping" \in PC /\ "restat" \in PC /\ "rmdir" \in PC
BY DEF PC, Waiting, Holding, Section

LEMMA InitTypeOK == Init => TypeOK
BY NoCallType, DirLockAssumption DEF Init, TypeOK

LEMMA WaiterTypeOK ==
    ASSUME TypeOK, NEW p \in Proc,
           Acquire(p) \/ Mkdir(p) \/ Refused(p) \/ Timeout(p) \/ Stat(p)
           \/ Steal(p) \/ Inspect(p) \/ Late(p)
    PROVE  TypeOK'
<1> USE DirLockAssumption, NoCallType, ProgramPoints
<1> USE DEF TypeOK, Call, Goto, Again, Return, MarkLost, bounds, history, Cautious
<1>1. CASE Acquire(p)
  BY <1>1 DEF Acquire, At, Ticks
<1>2. CASE Mkdir(p)
  BY <1>2, StampFresh DEF Mkdir, At, Ticks
<1>3. CASE Refused(p)
  BY <1>3 DEF Refused, At, Ticks
<1>4. CASE Timeout(p)
  BY <1>4 DEF Timeout, At, Ticks
<1>5. CASE Stat(p)
  BY <1>5 DEF Stat, At, Ticks
<1>6. CASE Steal(p)
  <2>1. j' \in [Proc -> Call]
    BY <1>6 DEF Steal, At
  <2>2. CASE Unlink(p, dir # j[p].saw)
    <3>1. /\ dir' \in Stamp \cup {NoDir} /\ age' \in 0..(Stale + 1)
          /\ maker' \in Proc \cup {NoProc} /\ wrong' \subseteq {"mistaken", "awake"}
      BY <2>2 DEF Unlink
    <3> QED
      BY <1>6, <2>1, <3>1 DEF Steal
  <2>3. CASE UNCHANGED <<dir, age, maker, wrong>>
    BY <1>6, <2>1, <2>3 DEF Steal
  <2> QED
    BY <1>6, <2>2, <2>3 DEF Steal
<1>7. CASE Inspect(p)
  <2>1. CASE Return(p) /\ Unlink(p, maker \notin {NoProc, p})
    <3>1. j' \in [Proc -> Call] /\ trespass' \subseteq Proc
      BY <2>1
    <3>2. /\ dir' \in Stamp \cup {NoDir} /\ age' \in 0..(Stale + 1)
          /\ maker' \in Proc \cup {NoProc} /\ wrong' \subseteq {"mistaken", "awake"}
      BY <2>1 DEF Unlink
    <3> QED
      BY <1>7, <3>1, <3>2 DEF Inspect
  <2>2. CASE /\ dir # NoDir
             /\ j' = [j EXCEPT ![p].pc = "load", ![p].saw = dir, ![p].tick = "sleep"]
             /\ UNCHANGED <<dir, age, history>>
    <3>1. [j[p] EXCEPT !.pc = "load", !.saw = dir, !.tick = "sleep"] \in Call
      <4>1. j[p] \in Call /\ dir \in Stamp \cup {NoDir}
        OBVIOUS
      <4> HIDE DEF TypeOK
      <4> QED
        BY <4>1
    <3>2. j' \in [Proc -> Call]
      BY <2>2, <3>1
    <3> QED
      BY <1>7, <2>2, <3>2 DEF Inspect
  <2> QED
    BY <1>7, <2>1, <2>2 DEF Inspect
<1>8. CASE Late(p)
  BY <1>8, ZenonT(60) DEF Late, At, Ticks
<1> QED
  BY <1>1, <1>2, <1>3, <1>4, <1>5, <1>6, <1>7, <1>8

LEMMA HolderTypeOK ==
    ASSUME TypeOK, NEW p \in Proc,
           TickFires(p) \/ Check(p) \/ Touch(p) \/ ReadBack(p) \/ Load(p)
           \/ FnReturns(p) \/ Verify(p) \/ Save(p)
    PROVE  TypeOK'
<1> USE DirLockAssumption, NoCallType, ProgramPoints
<1> USE DEF TypeOK, Call, Goto, Again, Return, MarkLost, bounds, history, Cautious
<1>1. CASE TickFires(p)
  BY <1>1 DEF TickFires, At, Ticks
<1>2. CASE Check(p)
  BY <1>2 DEF Check, At, Ticks
<1>3. CASE Touch(p)
  BY <1>3, StampFresh DEF Touch, At, Ticks
<1>4. CASE ReadBack(p)
  BY <1>4 DEF ReadBack, At, Ticks
<1>5. CASE Load(p)
  BY <1>5 DEF Load, At, Ticks
<1>6. CASE FnReturns(p)
  BY <1>6 DEF FnReturns, At, Ticks
<1>7. CASE Verify(p)
  BY <1>7 DEF Verify, At, Ticks
<1>8. CASE Save(p)
  BY <1>8 DEF Save, At, Ticks
<1> QED
  BY <1>1, <1>2, <1>3, <1>4, <1>5, <1>6, <1>7, <1>8

LEMMA ReleaseTypeOK ==
    ASSUME TypeOK, NEW p \in Proc,
           Stop(p) \/ Restat(p) \/ Rmdir(p) \/ Stall(p) \/ Resume(p)
           \/ Crash(p)
    PROVE  TypeOK'
<1> USE DirLockAssumption, NoCallType, ProgramPoints
<1> USE DEF TypeOK, Call, Goto, Again, Return, MarkLost, bounds, history, Cautious
<1>1. CASE Stop(p)
  <2> DEFINE r == [j[p] EXCEPT !.pc = "restat", !.tick = "off", !.since = 0]
  <2>1. j[p] \in Call
    OBVIOUS
  <2>2. r \in Call
    <3>1. "restat" \in PC /\ "off" \in {"off", "sleep", "check", "touch", "readback"}
          /\ 0 \in 0..TouchInterval
      OBVIOUS
    <3> HIDE DEF TypeOK
    <3> QED
      BY <2>1, <3>1
  <2>3. j' = [j EXCEPT ![p] = r]
    BY <1>1 DEF Stop
  <2>4. j' \in [Proc -> Call]
    BY <2>2, <2>3
  <2> QED
    BY <1>1, <2>4 DEF Stop
<1>2. CASE Restat(p)
  BY <1>2 DEF Restat, At, Ticks
<1>3. CASE Rmdir(p)
  <2>1. j' \in [Proc -> Call] /\ trespass' \subseteq Proc
    BY <1>3 DEF Rmdir
  <2>2. CASE Unlink(p, maker \notin {NoProc, p})
    <3>1. /\ dir' \in Stamp \cup {NoDir} /\ age' \in 0..(Stale + 1)
          /\ maker' \in Proc \cup {NoProc} /\ wrong' \subseteq {"mistaken", "awake"}
      BY <2>2 DEF Unlink
    <3> QED
      BY <1>3, <2>1, <3>1 DEF Rmdir
  <2>3. CASE UNCHANGED <<dir, age, maker, wrong>>
    BY <1>3, <2>1, <2>3 DEF Rmdir
  <2> QED
    BY <1>3, <2>2, <2>3 DEF Rmdir
<1>4. CASE Stall(p)
  BY <1>4 DEF Stall, At, Ticks
<1>5. CASE Resume(p)
  BY <1>5 DEF Resume, At, Ticks
<1>6. CASE Crash(p)
  BY <1>6 DEF Crash, At, Ticks
<1> QED
  BY <1>1, <1>2, <1>3, <1>4, <1>5, <1>6

LEMMA TickTypeOK ==
    ASSUME TypeOK, Tick
    PROVE  TypeOK'
<1>1. ASSUME NEW p \in Proc
      PROVE  j'[p] \in Call
  <2>1. j'[p] = [j[p] EXCEPT !.pc = Slept(p), !.since = Since(p, FALSE)]
    BY DEF Tick, Pass
  <2>2. j[p] \in Call
    BY DEF TypeOK
  <2>3. Slept(p) \in PC /\ Since(p, FALSE) \in 0..TouchInterval
    BY <2>2, DirLockAssumption DEF Slept, Since, Call, PC, Waiting, Holding, Section
  <2> QED
    BY <2>1, <2>2, <2>3 DEF Call
<1>2. age' \in 0..(Stale + 1)
  <2>1. age' = IF dir # NoDir /\ age <= Stale THEN age + 1 ELSE age
    BY DEF Tick, Pass
  <2> QED
    BY <2>1, DirLockAssumption DEF TypeOK
<1>3. DOMAIN j' = Proc /\ j' = [p \in Proc |-> j'[p]]
  BY DEF Tick, Pass
<1>4. j' \in [Proc -> Call]
  BY <1>1, <1>3
<1> QED
  BY <1>2, <1>4 DEF TypeOK, Tick, Pass, bounds, history
-----------------------------------------------------------------------------
(* The inductive invariant *)

\* Which fields go with which program point.
Shape ==
    /\ dir = NoDir => maker = NoProc
    /\ stalls = 0 => stalled = {}
    /\ \A p \in Proc :
         /\ j[p].pc \notin Holding => j[p].tick = "off" /\ ~j[p].lost
         /\ j[p].pc = "inspect" => j[p].tick = "off" /\ ~j[p].lost
         /\ j[p].pc \in {"restat", "rmdir"} => j[p].tick = "off"
         /\ j[p].pc = "rmdir" => ~j[p].lost
         /\ j[p].pc \in Section \cup {"stopping"} /\ j[p].tick = "off" => j[p].lost
         /\ j[p].pc \in Holding \cup {"steal"} => j[p].saw # NoDir
         /\ ~Gaps /\ p \in stalled =>
              j[p].pc \in {"backoff", "retry", "fn"} /\ j[p].tick \in {"off", "sleep"}

\* Processes that rely on the directory being theirs.
Owns(p) ==
    /\ j[p].pc \in Holding
    /\ ~j[p].lost \/ j[p].tick # "off" \/ (Cautious /\ j[p].pc = "save")

\* While nobody is suspended an owner's directory is there, is its own, is
\* younger than the threshold, and is not the one a waiter is about to remove.
Fresh(p) ==
    /\ maker = p /\ dir # NoDir /\ age <= TouchInterval
    /\ j[p].tick = "sleep" => age <= j[p].since
    /\ j[p].pc = "inspect" \/ j[p].tick = "readback" => age = 0
    /\ \A q \in Proc : j[q].pc = "steal" => j[q].saw # dir

Timely ==
    stalls = 0 /\ "mistaken" \notin wrong => \A p \in Proc : Owns(p) => Fresh(p)

\* Also when processes are suspended between calls: a process that recognises the
\* directory, or is past the point where it did, made it.
Recognised(p) ==
    /\ j[p].pc \in {"inspect", "rmdir"} \/ j[p].tick \in {"touch", "readback"} => maker = p
    /\ Cautious /\ j[p].pc = "save" => maker = p
    /\ j[p].pc \in Holding \ {"inspect"} /\ j[p].tick # "readback" /\ dir = j[p].saw => maker = p

UpToDate(p) ==
    Cautious /\ j[p].pc \in {"fn", "verify", "save"} /\ maker = p => p \in current

Custody == wrong = {} /\ ~Gaps => \A p \in Proc : Recognised(p) /\ UpToDate(p)

Trespassing ==
    \A p \in trespass : maker # p /\ j[p].pc \in {"stopping", "restat", "rmdir"}

IInv == TypeOK /\ Shape /\ Timely /\ Custody /\ Trespassing

LEMMA MarkLostShape ==
    ASSUME TypeOK, Shape, NEW p \in Proc, j[p].tick # "off", p \notin stalled, MarkLost(p),
           UNCHANGED <<dir, stalled, bounds, history>>
    PROVE  Shape'
<1>1. /\ j'[p].pc = j[p].pc /\ j'[p].saw = j[p].saw /\ j'[p].lost = TRUE /\ j'[p].tick = "off"
      /\ \A q \in Proc : q # p => j'[q] = j[q]
  BY DEF MarkLost, TypeOK, Call
<1>2. j[p].pc \in Holding /\ j[p].pc \notin {"inspect", "restat", "rmdir"}
  BY DEF Shape
<1> QED
  BY <1>1, <1>2 DEF Shape, bounds, history

LEMMA ShapeStep ==
    ASSUME TypeOK, TypeOK', Shape, NEW p \in Proc,
           \/ Acquire(p) \/ Mkdir(p) \/ Refused(p) \/ Timeout(p)
           \/ Stat(p) \/ Steal(p) \/ Inspect(p) \/ Late(p)
           \/ TickFires(p) \/ Check(p) \/ Touch(p) \/ ReadBack(p)
           \/ Load(p) \/ FnReturns(p) \/ Verify(p) \/ Save(p)
           \/ Stop(p) \/ Restat(p) \/ Rmdir(p) \/ Stall(p) \/ Resume(p) \/ Crash(p)
    PROVE  Shape'
<1> USE DirLockAssumption
<1> USE DEF TypeOK, Call, Shape, Waiting, Holding, Section, Goto, Again, Return, NoCall, MarkLost, bounds, history, Cautious
<1>1. CASE Acquire(p)
  BY <1>1 DEF Acquire, At
<1>2. CASE Mkdir(p)
  BY <1>2, StampFresh DEF Mkdir, At
<1>3. CASE Refused(p)
  BY <1>3 DEF Refused, At
<1>4. CASE Timeout(p)
  BY <1>4 DEF Timeout, At
<1>5. CASE Stat(p)
  BY <1>5 DEF Stat, At
<1>6. CASE Steal(p)
  BY <1>6 DEF Steal, At, Unlink
<1>7. CASE Inspect(p)
  BY <1>7 DEF Inspect, At, Unlink
<1>8. CASE Late(p)
  BY <1>8 DEF Late
<1>9. CASE TickFires(p)
  BY <1>9 DEF TickFires, Ticks
<1>10. CASE Check(p)
  <2>1. CASE dir = j[p].saw /\ j' = [j EXCEPT ![p].tick = "touch"]
    BY <1>10, <2>1 DEF Check, Ticks
  <2>2. CASE MarkLost(p)
    BY <1>10, <2>2, MarkLostShape DEF Check, Ticks
  <2> QED
    BY <1>10, <2>1, <2>2 DEF Check
<1>11. CASE Touch(p)
  <2>1. CASE dir' = NewStamp /\ j' = [j EXCEPT ![p].tick = "readback"]
    <3>1. NewStamp # NoDir
      BY StampFresh
    <3> QED
      BY <1>11, <2>1, <3>1 DEF Touch, Ticks
  <2>2. CASE MarkLost(p) /\ UNCHANGED dir
    BY <1>11, <2>2, MarkLostShape DEF Touch, Ticks
  <2> QED
    BY <1>11, <2>1, <2>2 DEF Touch
<1>12. CASE ReadBack(p)
  BY <1>12 DEF ReadBack, Ticks
<1>13. CASE Load(p)
  BY <1>13 DEF Load, At
<1>14. CASE FnReturns(p)
  BY <1>14 DEF FnReturns, At
<1>15. CASE Verify(p)
  <2>1. \/ j' = [j EXCEPT ![p].pc = "save"]
        \/ j' = [j EXCEPT ![p].pc = "stopping"]
        \/ j' = [j EXCEPT ![p].pc = "stopping", ![p].lost = TRUE]
    BY <1>15 DEF Verify
  <2> QED
    BY <1>15, <2>1 DEF Verify, At
<1>16. CASE Save(p)
  BY <1>16 DEF Save, At
<1>17. CASE Stop(p)
  BY <1>17, SMTT(30) DEF Stop, At
<1>18. CASE Restat(p)
  BY <1>18 DEF Restat, At, Owned
<1>19. CASE Rmdir(p)
  BY <1>19 DEF Rmdir, At, Unlink
<1>20. CASE Stall(p)
  BY <1>20 DEF Stall
<1>21. CASE Resume(p)
  BY <1>21 DEF Resume
<1>22. CASE Crash(p)
  BY <1>22 DEF Crash
<1> QED
  BY <1>1, <1>2, <1>3, <1>4, <1>5, <1>6, <1>7, <1>8, <1>9, <1>10, <1>11, <1>12, <1>13, <1>14, <1>15, <1>16, <1>17, <1>18, <1>19, <1>20, <1>21, <1>22

LEMMA TrespassingStep ==
    ASSUME TypeOK, TypeOK', Trespassing, Shape, NEW p \in Proc,
           \/ Acquire(p) \/ Mkdir(p) \/ Refused(p) \/ Timeout(p)
           \/ Stat(p) \/ Steal(p) \/ Inspect(p) \/ Late(p)
           \/ TickFires(p) \/ Check(p) \/ Touch(p) \/ ReadBack(p)
           \/ Load(p) \/ FnReturns(p) \/ Verify(p) \/ Save(p)
           \/ Stop(p) \/ Restat(p) \/ Rmdir(p) \/ Stall(p) \/ Resume(p) \/ Crash(p)
    PROVE  Trespassing'
<1> USE DirLockAssumption
<1> USE DEF TypeOK, Call, Trespassing, Shape, Waiting, Holding, Section, Goto, Again, Return, NoCall, MarkLost, bounds, history, Cautious
<1>1. CASE Acquire(p)
  BY <1>1 DEF Acquire, At
<1>2. CASE Mkdir(p)
  BY <1>2, StampFresh DEF Mkdir, At
<1>3. CASE Refused(p)
  BY <1>3 DEF Refused, At
<1>4. CASE Timeout(p)
  BY <1>4 DEF Timeout, At
<1>5. CASE Stat(p)
  BY <1>5 DEF Stat, At
<1>6. CASE Steal(p)
  BY <1>6 DEF Steal, At, Unlink
<1>7. CASE Inspect(p)
  BY <1>7 DEF Inspect, At, Unlink
<1>8. CASE Late(p)
  BY <1>8 DEF Late
<1>9. CASE TickFires(p)
  BY <1>9 DEF TickFires, Ticks
<1>10. CASE Check(p)
  BY <1>10 DEF Check, Ticks
<1>11. CASE Touch(p)
  BY <1>11, StampFresh DEF Touch, Ticks
<1>12. CASE ReadBack(p)
  BY <1>12 DEF ReadBack, Ticks
<1>13. CASE Load(p)
  BY <1>13 DEF Load, At
<1>14. CASE FnReturns(p)
  BY <1>14 DEF FnReturns, At
<1>15. CASE Verify(p)
  BY <1>15 DEF Verify, At, Owned
<1>16. CASE Save(p)
  BY <1>16 DEF Save, At
<1>17. CASE Stop(p)
  BY <1>17 DEF Stop, At
<1>18. CASE Restat(p)
  BY <1>18 DEF Restat, At, Owned
<1>19. CASE Rmdir(p)
  BY <1>19 DEF Rmdir, At, Unlink
<1>20. CASE Stall(p)
  BY <1>20 DEF Stall
<1>21. CASE Resume(p)
  BY <1>21 DEF Resume
<1>22. CASE Crash(p)
  BY <1>22 DEF Crash
<1> QED
  BY <1>1, <1>2, <1>3, <1>4, <1>5, <1>6, <1>7, <1>8, <1>9, <1>10, <1>11, <1>12, <1>13, <1>14, <1>15, <1>16, <1>17, <1>18, <1>19, <1>20, <1>21, <1>22

LEMMA TimelyStep ==
    ASSUME TypeOK, TypeOK', Timely, Shape, NEW p \in Proc,
           \/ Acquire(p) \/ Mkdir(p) \/ Refused(p) \/ Timeout(p)
           \/ Stat(p) \/ Steal(p) \/ Inspect(p) \/ Late(p)
           \/ TickFires(p) \/ Check(p) \/ Touch(p) \/ ReadBack(p)
           \/ Load(p) \/ FnReturns(p) \/ Verify(p) \/ Save(p)
           \/ Stop(p) \/ Restat(p) \/ Rmdir(p) \/ Stall(p) \/ Resume(p) \/ Crash(p)
    PROVE  Timely'
<1> USE DirLockAssumption
<1> USE DEF TypeOK, Call, Timely, Shape, Owns, Fresh, Waiting, Holding, Section, Goto, Again, Return, NoCall, MarkLost, bounds, history, Cautious
<1>1. CASE Acquire(p)
  BY <1>1 DEF Acquire, At
<1>2. CASE Mkdir(p)
  BY <1>2, StampFresh DEF Mkdir, At
<1>3. CASE Refused(p)
  BY <1>3 DEF Refused, At
<1>4. CASE Timeout(p)
  BY <1>4 DEF Timeout, At
<1>5. CASE Stat(p)
  BY <1>5 DEF Stat, At
<1>6. CASE Steal(p)
  BY <1>6 DEF Steal, At, Unlink
<1>7. CASE Inspect(p)
  BY <1>7 DEF Inspect, At, Unlink
<1>8. CASE Late(p)
  BY <1>8 DEF Late
<1>9. CASE TickFires(p)
  BY <1>9 DEF TickFires, Ticks
<1>10. CASE Check(p)
  BY <1>10 DEF Check, Ticks
<1>11. CASE Touch(p)
  BY <1>11, StampFresh DEF Touch, Ticks
<1>12. CASE ReadBack(p)
  BY <1>12 DEF ReadBack, Ticks
<1>13. CASE Load(p)
  BY <1>13 DEF Load, At
<1>14. CASE FnReturns(p)
  BY <1>14 DEF FnReturns, At
<1>15. CASE Verify(p)
  BY <1>15 DEF Verify, At, Owned
<1>16. CASE Save(p)
  BY <1>16 DEF Save, At
<1>17. CASE Stop(p)
  BY <1>17 DEF Stop, At
<1>18. CASE Restat(p)
  BY <1>18 DEF Restat, At, Owned
<1>19. CASE Rmdir(p)
  BY <1>19 DEF Rmdir, At, Unlink
<1>20. CASE Stall(p)
  BY <1>20 DEF Stall
<1>21. CASE Resume(p)
  BY <1>21 DEF Resume
<1>22. CASE Crash(p)
  BY <1>22 DEF Crash
<1> QED
  BY <1>1, <1>2, <1>3, <1>4, <1>5, <1>6, <1>7, <1>8, <1>9, <1>10, <1>11, <1>12, <1>13, <1>14, <1>15, <1>16, <1>17, <1>18, <1>19, <1>20, <1>21, <1>22

LEMMA CustodyStep ==
    ASSUME TypeOK, TypeOK', Custody, Timely, Shape, NEW p \in Proc,
           \/ Acquire(p) \/ Mkdir(p) \/ Refused(p) \/ Timeout(p)
           \/ Stat(p) \/ Steal(p) \/ Inspect(p) \/ Late(p)
           \/ TickFires(p) \/ Check(p) \/ Touch(p) \/ ReadBack(p)
           \/ Load(p) \/ FnReturns(p) \/ Verify(p) \/ Save(p)
           \/ Stop(p) \/ Restat(p) \/ Rmdir(p) \/ Stall(p) \/ Resume(p) \/ Crash(p)
    PROVE  Custody'
<1> USE DirLockAssumption
<1> USE DEF TypeOK, Call, Custody, Recognised, UpToDate, Shape, Waiting, Holding, Section, Goto, Again, Return, NoCall, MarkLost, bounds, history, Cautious
<1>1. CASE Acquire(p)
  BY <1>1 DEF Acquire, At
<1>2. CASE Mkdir(p)
  BY <1>2, StampFresh DEF Mkdir, At
<1>3. CASE Refused(p)
  BY <1>3 DEF Refused, At
<1>4. CASE Timeout(p)
  BY <1>4 DEF Timeout, At
<1>5. CASE Stat(p)
  BY <1>5 DEF Stat, At
<1>6. CASE Steal(p)
  BY <1>6 DEF Steal, At, Unlink
<1>7. CASE Inspect(p)
  BY <1>7 DEF Inspect, At, Unlink
<1>8. CASE Late(p)
  BY <1>8 DEF Late
<1>9. CASE TickFires(p)
  BY <1>9 DEF TickFires, Ticks
<1>10. CASE Check(p)
  BY <1>10 DEF Check, Ticks
<1>11. CASE Touch(p)
  BY <1>11, StampFresh DEF Touch, Ticks
<1>12. CASE ReadBack(p)
  BY <1>12 DEF ReadBack, Ticks
<1>13. CASE Load(p)
  BY <1>13 DEF Load, At
<1>14. CASE FnReturns(p)
  BY <1>14 DEF FnReturns, At
<1>15. CASE Verify(p)
  BY <1>15 DEF Verify, At, Owned
<1>16. CASE Save(p)
  BY <1>16 DEF Save, At
<1>17. CASE Stop(p)
  BY <1>17 DEF Stop, At
<1>18. CASE Restat(p)
  BY <1>18 DEF Restat, At, Owned
<1>19. CASE Rmdir(p)
  BY <1>19 DEF Rmdir, At, Unlink
<1>20. CASE Stall(p)
  BY <1>20 DEF Stall
<1>21. CASE Resume(p)
  BY <1>21 DEF Resume
<1>22. CASE Crash(p)
  BY <1>22 DEF Crash
<1> QED
  BY <1>1, <1>2, <1>3, <1>4, <1>5, <1>6, <1>7, <1>8, <1>9, <1>10, <1>11, <1>12, <1>13, <1>14, <1>15, <1>16, <1>17, <1>18, <1>19, <1>20, <1>21, <1>22

-----------------------------------------------------------------------------
(* Time passes for everybody at once *)

LEMMA TickParts ==
    ASSUME TypeOK, TypeOK', Shape, Timely, Custody, Trespassing, Tick
    PROVE  Shape' /\ Timely' /\ Custody' /\ Trespassing'
<1> USE DirLockAssumption
<1>1. /\ UNCHANGED <<dir, stalled, current, writers, stalls, crashes, maker, wrong, trespass>>
      /\ age' = IF dir # NoDir /\ age <= Stale THEN age + 1 ELSE age
      /\ \A p \in Proc \ stalled : Prompt(p)
  BY DEF Tick, Pass, bounds, history
<1>2. \A p \in Proc :
        /\ j'[p].pc = Slept(p) /\ j'[p].since = Since(p, FALSE)
        /\ j'[p].saw = j[p].saw /\ j'[p].lost = j[p].lost /\ j'[p].tick = j[p].tick
  <2> SUFFICES ASSUME NEW p \in Proc
               PROVE  /\ j'[p].pc = Slept(p) /\ j'[p].since = Since(p, FALSE)
                      /\ j'[p].saw = j[p].saw /\ j'[p].lost = j[p].lost /\ j'[p].tick = j[p].tick
    OBVIOUS
  <2>1. j'[p] = [j[p] EXCEPT !.pc = Slept(p), !.since = Since(p, FALSE)]
    BY DEF Tick, Pass
  <2>2. j[p] \in Call
    BY DEF TypeOK
  <2> QED
    BY <2>1, <2>2 DEF Call
<1>3. \A p \in Proc :
        /\ j'[p].pc # "retry" => j'[p].pc = j[p].pc
        /\ j'[p].pc = "retry" => j[p].pc \in {"backoff", "retry"}
        /\ j[p].pc # "backoff" => j'[p].pc = j[p].pc
  BY <1>2 DEF Slept
<1>4. Shape'
  BY <1>1, <1>2, <1>3, ZenonT(60) DEF Shape, Waiting, Holding, Section
<1>5. Timely'
  <2> SUFFICES ASSUME stalls = 0, "mistaken" \notin wrong, NEW p \in Proc, Owns(p)'
               PROVE  Fresh(p)'
    BY <1>1 DEF Timely
  <2>1. Owns(p) /\ j'[p].pc = j[p].pc
    BY <1>1, <1>2, <1>3 DEF Owns, Cautious, Holding, Section
  <2>2. Fresh(p) /\ p \notin stalled
    BY <2>1 DEF Timely, Shape
  <2>3. j[p].tick = "sleep" /\ j[p].since < TouchInterval /\ j[p].pc = "fn"
    BY <1>1, <2>1, <2>2 DEF Prompt, Owns, Holding, Section, Shape
  <2>4. j'[p].since = j[p].since + 1 /\ age \in Nat /\ j[p].since \in Nat
    BY <1>2, <2>3 DEF Since, TypeOK, Call
  <2>5. age' = age + 1 /\ age' <= j'[p].since /\ age' <= TouchInterval
    BY <1>1, <2>2, <2>3, <2>4 DEF Fresh
  <2> QED
    BY <1>1, <1>2, <1>3, <2>1, <2>2, <2>3, <2>5 DEF Fresh
<1>6. Custody'
  BY <1>1, <1>2, <1>3 DEF Custody, Recognised, UpToDate, Cautious, Holding, Section
<1>7. Trespassing'
  BY <1>1, <1>2, <1>3 DEF Trespassing, TypeOK
<1> QED
  BY <1>4, <1>5, <1>6, <1>7

-----------------------------------------------------------------------------
(* The invariant is inductive *)

LEMMA InitInv == Init => IInv
<1> SUFFICES ASSUME Init PROVE IInv
  OBVIOUS
<1>1. TypeOK
  BY InitTypeOK
<1>2. Shape /\ Timely /\ Custody /\ Trespassing
  BY DEF Init, NoCall, Shape, Timely, Owns, Custody, Recognised, UpToDate, Trespassing,
         Waiting, Holding, Section
<1> QED
  BY <1>1, <1>2 DEF IInv

LEMMA StepInv == IInv /\ [Next]_vars => IInv'
<1> SUFFICES ASSUME IInv, [Next]_vars PROVE IInv'
  OBVIOUS
<1>1. CASE Tick
  <2>1. TypeOK'
    BY <1>1, TickTypeOK DEF IInv
  <2> QED
    BY <1>1, <2>1, TickParts DEF IInv
<1>2. ASSUME NEW p \in Proc,
             \/ Acquire(p) \/ Step(p) \/ Toucher(p) \/ Late(p)
             \/ Stall(p) \/ Resume(p) \/ Crash(p)
      PROVE  IInv'
  <2>1. \/ Acquire(p) \/ Mkdir(p) \/ Refused(p) \/ Timeout(p)
        \/ Stat(p) \/ Steal(p) \/ Inspect(p) \/ Late(p)
        \/ TickFires(p) \/ Check(p) \/ Touch(p) \/ ReadBack(p)
        \/ Load(p) \/ FnReturns(p) \/ Verify(p) \/ Save(p)
        \/ Stop(p) \/ Restat(p) \/ Rmdir(p) \/ Stall(p) \/ Resume(p) \/ Crash(p)
    BY <1>2 DEF Step, Toucher
  <2>2. TypeOK'
    BY <2>1, WaiterTypeOK, HolderTypeOK, ReleaseTypeOK DEF IInv
  <2>3. Shape'
    BY <2>1, <2>2, ShapeStep DEF IInv
  <2>4. Timely'
    BY <2>1, <2>2, TimelyStep DEF IInv
  <2>5. Custody'
    BY <2>1, <2>2, CustodyStep DEF IInv
  <2>6. Trespassing'
    BY <2>1, <2>2, TrespassingStep DEF IInv
  <2> QED
    BY <2>2, <2>3, <2>4, <2>5, <2>6 DEF IInv
<1>3. CASE UNCHANGED vars
  BY <1>3 DEF vars, bounds, history, IInv, TypeOK, Shape, Timely, Owns, Fresh, Custody,
              Recognised, UpToDate, Cautious, Trespassing
<1> QED
  BY <1>1, <1>2, <1>3 DEF Next

THEOREM Invariant == Spec => []IInv
BY InitInv, StepInv, PTL DEF Spec

-----------------------------------------------------------------------------
(* Theorems *)

\* The state of the lock, of every call and of the touch goroutines has its type.
THEOREM DirLockTypeOK == Spec => []TypeOK
<1>1. IInv => TypeOK
  BY DEF IInv
<1> QED
  BY <1>1, Invariant, PTL

\* Mutual exclusion by mkdir, mtime and stealing: with no suspension, and no removal
\* that hit a directory its remover had not judged, at most one process is inside.
\* The touch interval at most half the threshold is what carries it.
THEOREM DirLockExclusive == Spec => []Exclusive
<1>1. IInv => Exclusive
  BY DEF IInv, Timely, Fresh, Owns, Exclusive, Inside, Holding
<1> QED
  BY <1>1, Invariant, PTL

\* Release never reports a write made without the lock as a success, however long
\* the writer was suspended (between two calls) before it.
THEOREM DirLockTakeoversAreReported ==
    ASSUME ~Gaps
    PROVE  Spec => []TakeoversAreReported
<1>1. IInv => TakeoversAreReported
  BY DEF IInv, Custody, Recognised, Trespassing, TakeoversAreReported, TypeOK
<1> QED
  BY <1>1, Invariant, PTL

\* WithHistory never goes on to overwrite what the next holder wrote: the question
\* it asks right before its rename is answered truthfully.
THEOREM DirLockNoLostSample ==
    ASSUME ~Gaps
    PROVE  Spec => NoLostSample
<1> DEFINE Kept == \A p \in Proc :
             Cautious /\ j[p].pc = "verify" /\ j'[p].pc = "save" /\ wrong = {} => p \in current
<1>1. IInv /\ [Next]_vars => [Kept]_vars
  <2> SUFFICES ASSUME IInv, [Next]_vars, NEW p \in Proc,
                      Cautious, j[p].pc = "verify", j'[p].pc = "save", wrong = {}
               PROVE  p \in current
    OBVIOUS
  <2>1. dir = j[p].saw /\ j[p].tick # "readback"
    <3>1. ASSUME NEW q \in Proc, q # p,
                 \/ Acquire(q) \/ Step(q) \/ Toucher(q) \/ Late(q)
                 \/ Stall(q) \/ Resume(q) \/ Crash(q)
          PROVE  j'[p] = j[p]
      BY <3>1 DEF Step, Toucher, Acquire, Mkdir, Refused, Timeout, Stat, Steal, Inspect, Late,
                  TickFires, Check, Touch, ReadBack, Load, FnReturns, Verify, Save, Stop,
                  Restat, Rmdir, Stall, Resume, Crash, Goto, Again, Return, MarkLost, IInv, TypeOK
    <3>2. Tick => j'[p].pc # "save"
      BY ZenonT(60) DEF Tick, Pass, Slept, IInv, TypeOK, Call
    <3>3. \/ Acquire(p) \/ Step(p) \/ Toucher(p) \/ Late(p)
          \/ Stall(p) \/ Resume(p) \/ Crash(p)
      BY <3>1, <3>2 DEF Next, vars
    <3>4. Verify(p)
      BY <3>3 DEF Step, Toucher, Acquire, Mkdir, Refused, Timeout, Stat, Steal, Inspect, Late,
                  TickFires, Check, Touch, ReadBack, Load, FnReturns, Save, Stop, At,
                  Restat, Rmdir, Stall, Resume, Crash, Goto, Again, Return, MarkLost, NoCall,
                  IInv, TypeOK, Call
    <3> QED
      BY <3>4 DEF Verify, Owned, IInv, TypeOK, Call
  <2>2. maker = p
    BY <2>1 DEF IInv, Custody, Recognised, Holding, Section
  <2> QED
    BY <2>2 DEF IInv, Custody, UpToDate
<1> QED
  BY <1>1, Invariant, PTL DEF Spec, NoLostSample
=============================================================================
