------------------------------ MODULE DirLock ------------------------------
(***************************************************************************)
(* One of the directory locks ccdad shares with Claude Code or with itself: *)
(* mkdir is the mutex, the directory's mtime is the proof of life, and a    *)
(* waiter that finds the mtime too old removes the directory and tries      *)
(* again.                                                                   *)
(*                                                                         *)
(* internal/cclock/lock.go (Acquire, touch, reassert, Owned, Release) and   *)
(* the read-modify-writes under it: history.WithHistory, usage.WithCache,   *)
(* strategy.WithState, config.WithDocument, cclink's writers.  A step is    *)
(* one system call; time is counted in units no shorter than a call.        *)
(***************************************************************************)
EXTENDS Naturals, FiniteSets

CONSTANTS
    Proc,       \* processes that take this lock, Claude Code's among them
    NoProc,
    Writers,    \* "cautious": Owned is asked before the write (WithHistory); "trusting": not
    Stamp,      \* modification times, told apart by equality only
    NoDir,
    TouchInterval, Stale,
    Refusing,   \* what the file system may refuse a waiter, for as long as it likes:
                \* "removals", and every other "call"
    Gaps,       \* TRUE: a process may be suspended between any two calls
    MaxStalls,  \* bound: suspensions
    MaxCrashes  \* bound: SIGKILLs

ASSUME DirLockAssumption ==
    /\ Writers \subseteq {"cautious", "trusting"}
    /\ NoProc \notin Proc /\ NoDir \notin Stamp
    /\ TouchInterval \in Nat \ {0} /\ Stale \in Nat
    /\ TouchInterval * 2 <= Stale                 \* Acquire refuses any other pair
    /\ Refusing \subseteq {"call", "removals"} /\ Gaps \in BOOLEAN /\ MaxStalls \in Nat /\ MaxCrashes \in Nat
    /\ IsFiniteSet(Proc) /\ IsFiniteSet(Stamp) /\ Cardinality(Stamp) > Cardinality(Proc) + 1

VARIABLES
    dir,        \* the directory's mtime, or NoDir
    age,        \* how old that is, up to just too old
    j,          \* each process's call
    stalled,    \* suspended processes
    current,    \* processes whose loaded copy of the protected document is still it
    writers,    \* what the writers under this lock are like, once and for all
    stalls, crashes,
    \* history, read by the properties only
    maker,      \* the process that made the directory
    wrong,      \* what removals took that they were not meant for
    trespass    \* processes that wrote the document while the directory was not theirs

bounds  == <<writers, stalls, crashes>>
history == <<maker, wrong, trespass>>
vars    == <<dir, age, j, stalled, current, bounds, history>>

Waiting == {"mkdir", "retry", "stat", "steal", "backoff"}
Section == {"load", "fn", "verify", "save"}
Holding == {"inspect", "stopping", "restat", "rmdir"} \cup Section
PC      == {"idle"} \cup Waiting \cup Holding
Call    == [pc: PC,
            saw: Stamp \cup {NoDir},    \* the mtime it last read: Lock.mtime, or Acquire's stat
            lost: BOOLEAN,              \* Lock.lost is closed
            tick: {"off", "sleep", "check", "touch", "readback"},   \* the touch goroutine
            since: 0..TouchInterval,    \* since its ticker last fired
            late: BOOLEAN]              \* the deadline has passed
NoCall  == [pc |-> "idle", saw |-> NoDir, lost |-> FALSE, tick |-> "off", since |-> 0,
            late |-> FALSE]

Init ==
    /\ dir = NoDir /\ age = 0
    /\ j = [p \in Proc |-> NoCall]
    /\ stalled = {} /\ current = {}
    /\ writers \in Writers /\ stalls = 0 /\ crashes = 0
    /\ maker = NoProc /\ wrong = {} /\ trespass = {}

Cautious      == writers = "cautious"
At(p, s)      == j[p].pc = s /\ p \notin stalled
Goto(p, s)    == j' = [j EXCEPT ![p].pc = s]
Again(p, s)   == j' = [j EXCEPT ![p].pc = s, ![p].saw = NoDir]
Return(p)     == j' = [j EXCEPT ![p] = NoCall] /\ trespass' = trespass \ {p}
NewStamp      == CHOOSE s \in Stamp : s # dir /\ \A p \in Proc : s # j[p].saw

\* Remove takes whatever carries the name by now: mistaken, the directory of
\* somebody it was not meant for; awake, the right one, whose holder has come
\* back from a suspension since it was judged.
Unlink(p, mistaken) ==
    /\ dir' = NoDir /\ age' = 0 /\ maker' = NoProc
    /\ wrong' = wrong \cup (IF mistaken THEN {"mistaken"} ELSE {})
                     \cup (IF /\ stalls > 0 /\ ~mistaken
                              /\ maker \notin stalled \cup {p, NoProc}
                              /\ j[maker].pc \in Holding
                           THEN {"awake"} ELSE {})

-----------------------------------------------------------------------------
(* Acquire *)

Acquire(p) ==
    /\ At(p, "idle")
    /\ j' = [j EXCEPT ![p] = [NoCall EXCEPT !.pc = "mkdir"]]
    /\ UNCHANGED <<dir, age, stalled, current, bounds, history>>

\* The deadline is looked at before every attempt but the first.
Mkdir(p) ==
    /\ At(p, "mkdir") \/ (At(p, "retry") /\ ~j[p].late)
    /\ \/ /\ dir = NoDir
          /\ dir' = NewStamp /\ age' = 0 /\ maker' = p
          /\ j' = [j EXCEPT ![p].pc = "inspect", ![p].saw = dir']
       \/ /\ dir # NoDir
          /\ Goto(p, "stat")
          /\ UNCHANGED <<dir, age, maker>>
    /\ UNCHANGED <<stalled, current, bounds, wrong, trespass>>

\* A mkdir or stat that fails for any other reason ends the call.
Refused(p) ==
    /\ "call" \in Refusing
    /\ At(p, "mkdir") \/ At(p, "stat") \/ (At(p, "retry") /\ ~j[p].late)
    /\ Return(p)
    /\ UNCHANGED <<dir, age, stalled, current, bounds, maker, wrong>>

Timeout(p) ==
    /\ At(p, "retry") /\ j[p].late
    /\ Return(p)
    /\ UNCHANGED <<dir, age, stalled, current, bounds, maker, wrong>>

\* Mutant: a holder is taken for gone when it has merely not touched lately.
StatEager(p) ==
    /\ At(p, "stat")
    /\ \/ /\ dir # NoDir /\ age >= TouchInterval
          /\ j' = [j EXCEPT ![p].pc = "steal", ![p].saw = dir]
       \/ dir # NoDir /\ age < TouchInterval /\ Goto(p, "backoff")
       \/ dir = NoDir /\ Goto(p, "retry")
    /\ UNCHANGED <<dir, age, stalled, current, bounds, history>>

\* Mutant: the age is computed the wrong way round, and nothing is ever too old.
StatNever(p) ==
    /\ At(p, "stat")
    /\ \/ dir # NoDir /\ Goto(p, "backoff")
       \/ dir = NoDir /\ Goto(p, "retry")
    /\ UNCHANGED <<dir, age, stalled, current, bounds, history>>

\* Held by someone: stolen only if the mtime is too old.
Stat(p) ==
    /\ At(p, "stat")
    /\ \/ /\ dir # NoDir /\ age > Stale
          /\ j' = [j EXCEPT ![p].pc = "steal", ![p].saw = dir]
       \/ dir # NoDir /\ age <= Stale /\ Goto(p, "backoff")
       \/ dir = NoDir /\ Goto(p, "retry")
    /\ UNCHANGED <<dir, age, stalled, current, bounds, history>>

\* Mutant: after a refused removal the deadline is not looked at again.
StealStubbornly(p) ==
    /\ At(p, "steal")
    /\ \/ dir # NoDir /\ Unlink(p, dir # j[p].saw) /\ Again(p, "retry")
       \/ UNCHANGED <<dir, age, maker, wrong>> /\ Again(p, "mkdir")
    /\ UNCHANGED <<stalled, current, bounds, trespass>>

\* A removal that is refused, or finds nothing, waits before the next attempt.
Steal(p) ==
    /\ At(p, "steal")
    /\ \/ dir # NoDir /\ Unlink(p, dir # j[p].saw) /\ Again(p, "retry")
       \/ (dir = NoDir \/ "removals" \in Refusing) /\ UNCHANGED <<dir, age, maker, wrong>> /\ Again(p, "backoff")
    /\ UNCHANGED <<stalled, current, bounds, trespass>>

\* The mtime to recognise the directory by is read after it was made; a
\* directory that cannot be read is removed again.
Inspect(p) ==
    /\ At(p, "inspect")
    /\ \/ /\ dir # NoDir
          /\ j' = [j EXCEPT ![p].pc = "load", ![p].saw = dir, ![p].tick = "sleep"]
          /\ UNCHANGED <<dir, age, history>>
       \/ Return(p) /\ Unlink(p, maker \notin {NoProc, p})
    /\ UNCHANGED <<stalled, current, bounds>>

Late(p) ==
    /\ j[p].pc \in {"backoff", "retry"} /\ ~j[p].late
    /\ j' = [j EXCEPT ![p].late = TRUE]
    /\ UNCHANGED <<dir, age, stalled, current, bounds, history>>

-----------------------------------------------------------------------------
(* touch and reassert, on a goroutine of their own.  A directory that cannot  *)
(* be read, or touched, is no longer held; so also in Owned and Release.      *)

Ticks(p, s)  == j[p].tick = s /\ p \notin stalled
MarkLost(p)  == j' = [j EXCEPT ![p].lost = TRUE, ![p].tick = "off", ![p].since = 0]

TickFires(p) ==
    /\ Ticks(p, "sleep") /\ j[p].since = TouchInterval
    /\ j' = [j EXCEPT ![p].tick = "check", ![p].since = 0]
    /\ UNCHANGED <<dir, age, stalled, current, bounds, history>>

Check(p) ==
    /\ Ticks(p, "check")
    /\ \/ dir = j[p].saw /\ j' = [j EXCEPT ![p].tick = "touch"]
       \/ MarkLost(p)
    /\ UNCHANGED <<dir, age, stalled, current, bounds, history>>

Touch(p) ==
    /\ Ticks(p, "touch")
    /\ \/ /\ dir # NoDir
          /\ dir' = NewStamp /\ age' = 0
          /\ j' = [j EXCEPT ![p].tick = "readback"]
       \/ MarkLost(p) /\ UNCHANGED <<dir, age>>
    /\ UNCHANGED <<stalled, current, bounds, history>>

ReadBack(p) ==
    /\ Ticks(p, "readback")
    /\ \/ dir # NoDir /\ j' = [j EXCEPT ![p].saw = dir, ![p].tick = "sleep"]
       \/ MarkLost(p)
    /\ UNCHANGED <<dir, age, stalled, current, bounds, history>>

-----------------------------------------------------------------------------
(* The read-modify-write under the lock *)

Load(p) ==
    /\ At(p, "load")
    /\ \/ Goto(p, "fn") /\ current' = current \cup {p}
       \/ Goto(p, "stopping") /\ UNCHANGED current
    /\ UNCHANGED <<dir, age, stalled, bounds, history>>

FnReturns(p) ==
    /\ At(p, "fn")
    /\ \/ Goto(p, "verify")
       \/ Goto(p, "stopping")
    /\ UNCHANGED <<dir, age, stalled, current, bounds, history>>

\* Mutant: the channel the touch goroutine closes is all WithHistory looks at.
AskFlag(p) == ~j[p].lost

\* Owned waits for a tick in progress (Lock.mu) and stats the directory.
Owned(p) == ~j[p].lost /\ dir = j[p].saw

\* What is asked before the write: Owned by the cautious, nothing by most; the
\* cclink writers look at Compromised(), which may not be closed yet.
Verify(p) ==
    /\ At(p, "verify")
    /\ \/ /\ Cautious
          /\ j[p].tick \in {"off", "sleep"}
          /\ \/ Owned(p) /\ Goto(p, "save")
             \/ j' = [j EXCEPT ![p].pc = "stopping", ![p].lost = TRUE]
       \/ ~Cautious /\ Goto(p, "save")
       \/ ~Cautious /\ j[p].lost /\ Goto(p, "stopping")
    /\ UNCHANGED <<dir, age, stalled, current, bounds, history>>

\* One rename, if it succeeds: it replaces whatever was written since the load.
Save(p) ==
    /\ At(p, "save")
    /\ Goto(p, "stopping")
    /\ \/ /\ current' = {}
          /\ trespass' = IF maker = p THEN trespass ELSE trespass \cup {p}
       \/ UNCHANGED <<current, trespass>>
    /\ UNCHANGED <<dir, age, stalled, bounds, maker, wrong>>

-----------------------------------------------------------------------------
(* Release *)

\* The touch goroutine ends between two ticks.
Stop(p) ==
    /\ At(p, "stopping") /\ j[p].tick \in {"off", "sleep"}
    /\ j' = [j EXCEPT ![p].pc = "restat", ![p].tick = "off", ![p].since = 0]
    /\ current' = current \ {p}
    /\ UNCHANGED <<dir, age, stalled, bounds, history>>

\* Mutant: only a loss the touch goroutine noticed is reported.
RestatNothing(p) ==
    /\ At(p, "restat")
    /\ \/ ~j[p].lost /\ Goto(p, "rmdir") /\ UNCHANGED trespass
       \/ Return(p)
    /\ UNCHANGED <<dir, age, stalled, current, bounds, maker, wrong>>

\* A lock that was taken over is not removed: it is the new owner's, and the
\* answer is ErrCompromised.
Restat(p) ==
    /\ At(p, "restat")
    /\ \/ Owned(p) /\ Goto(p, "rmdir") /\ UNCHANGED trespass
       \/ Return(p)
    /\ UNCHANGED <<dir, age, stalled, current, bounds, maker, wrong>>

Rmdir(p) ==
    /\ At(p, "rmdir")
    /\ Return(p)
    /\ \/ Unlink(p, maker \notin {NoProc, p})
       \/ UNCHANGED <<dir, age, maker, wrong>>
    /\ UNCHANGED <<stalled, current, bounds>>

-----------------------------------------------------------------------------
(* Time and faults *)

\* A process that is not suspended is between two calls for less than a unit,
\* and its ticker does not fire late.
Prompt(p) ==
    /\ j[p].pc \in {"idle", "backoff", "fn"}
    /\ j[p].tick = "off" \/ (j[p].tick = "sleep" /\ j[p].since < TouchInterval)

\* What a ticker counts; one whose tick is due already may count it again.
Since(p, counted) ==
    IF j[p].tick = "sleep" /\ (counted \/ j[p].since < TouchInterval)
    THEN j[p].since + 1 ELSE j[p].since

Slept(p) == IF j[p].pc = "backoff" /\ p \notin stalled THEN "retry" ELSE j[p].pc

Pass(counted) ==
    /\ \A p \in Proc \ stalled : Prompt(p)
    /\ age' = IF dir # NoDir /\ age <= Stale THEN age + 1 ELSE age
    /\ j' = [p \in Proc |-> [j[p] EXCEPT !.pc = Slept(p), !.since = Since(p, counted)]]
    /\ UNCHANGED <<dir, stalled, current, bounds, history>>

\* Mutant: ticks a suspended process missed are queued up for it.
TickQueues == Pass(TRUE)

\* A ticker holds one tick at most.
Tick == Pass(FALSE)

\* Suspended: a closed laptop, SIGSTOP, a stopped virtual machine.
Stall(p) ==
    /\ stalls < MaxStalls /\ stalls' = stalls + 1
    /\ p \notin stalled /\ j[p].pc # "idle"
    /\ Gaps \/ (j[p].pc \in {"backoff", "fn"} /\ j[p].tick \in {"off", "sleep"})
    /\ stalled' = stalled \cup {p}
    /\ UNCHANGED <<dir, age, j, current, writers, crashes, history>>

Resume(p) ==
    /\ p \in stalled
    /\ stalled' = stalled \ {p}
    /\ UNCHANGED <<dir, age, j, current, bounds, history>>

Crash(p) ==
    /\ crashes < MaxCrashes /\ crashes' = crashes + 1
    /\ j[p].pc # "idle"
    /\ Return(p)
    /\ stalled' = stalled \ {p} /\ current' = current \ {p}
    /\ UNCHANGED <<dir, age, writers, stalls, maker, wrong>>

-----------------------------------------------------------------------------
Step(p) ==
    \/ Mkdir(p) \/ Refused(p) \/ Timeout(p) \/ Stat(p) \/ Steal(p) \/ Inspect(p)
    \/ Load(p) \/ FnReturns(p) \/ Verify(p) \/ Save(p)
    \/ Stop(p) \/ Restat(p) \/ Rmdir(p)

Toucher(p) == TickFires(p) \/ Check(p) \/ Touch(p) \/ ReadBack(p)

Next ==
    \/ \E p \in Proc : Acquire(p) \/ Step(p) \/ Toucher(p) \/ Late(p)
    \/ Tick
    \/ \E p \in Proc : Stall(p) \/ Resume(p) \/ Crash(p)

Spec == Init /\ [][Next]_vars

\* The scheduler runs every process, suspended ones are resumed, time passes
\* and runs out, and commands keep coming.
FairSpec ==
    /\ Spec
    /\ \A p \in Proc :
         /\ WF_vars(Acquire(p)) /\ WF_vars(Step(p)) /\ WF_vars(Toucher(p))
         /\ SF_vars(Late(p)) /\ WF_vars(Resume(p))
    /\ SF_vars(Tick)

-----------------------------------------------------------------------------
(* Properties *)

TypeOK ==
    /\ dir \in Stamp \cup {NoDir} /\ age \in 0..(Stale + 1)
    /\ j \in [Proc -> Call]
    /\ stalled \subseteq Proc /\ current \subseteq Proc
    /\ writers \in Writers
    /\ stalls \in 0..MaxStalls /\ crashes \in 0..MaxCrashes
    /\ maker \in Proc \cup {NoProc} /\ wrong \subseteq {"mistaken", "awake"} /\ trespass \subseteq Proc

Inside(p) == j[p].pc \in Section /\ ~j[p].lost

\* Mutual exclusion: while nobody was suspended, two processes are inside only
\* after a removal hit a directory that was not the one judged stale.  Crashes,
\* steals, timeouts and failed removals never cost exclusion.
Exclusive ==
    stalls = 0 /\ "mistaken" \notin wrong => \A p, q \in Proc : Inside(p) /\ Inside(q) => p = q

\* WithHistory: a writer that was suspended past the stale threshold, and asks
\* before its rename, goes on to it only if nobody wrote since it loaded: the
\* samples the next holder appended are not overwritten.  (What happens between
\* the question and the rename is the window the code accepts.)
NoLostSample ==
    [][\A p \in Proc :
         Cautious /\ j[p].pc = "verify" /\ j'[p].pc = "save" /\ wrong = {} => p \in current]_vars

\* Release's answer: a write made while the lock was somebody else's is never
\* reported as a success (WithCache: "success for exactly the write that raced"),
\* and the directory it was made under is left to its new owner.
TakeoversAreReported == \A p \in trespass : j[p].pc = "rmdir" => wrong # {}

\* Every Acquire returns: a stale directory that cannot be removed is a timeout
\* and not a spin.
AcquireReturns == \A p \in Proc : j[p].pc \in Waiting ~> j[p].pc \notin Waiting

Abandoned == dir # NoDir /\ (maker = NoProc \/ j[maker].pc \in {"idle"} \cup Waiting)

\* A crashed holder does not wedge the writers after it, unless the file system
\* refuses every removal for ever.
AbandonedIsReclaimed ==
    SF_vars(\E p \in Proc : Steal(p) /\ dir' = NoDir) => (Abandoned ~> ~Abandoned)
=============================================================================
