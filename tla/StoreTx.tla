------------------------------ MODULE StoreTx ------------------------------
(***************************************************************************)
(* The account store: accounts.toml and one credential file per account,   *)
(* changed by transactions under the cross-process store lock.             *)
(*                                                                         *)
(* internal/store, lock.go (mutate), interrupt.go, store.go (add, remove,  *)
(* save, writeCredentials, rollback, OrphanCredentialsAt).  A step is one  *)
(* effect another process, a crash or a signal can observe or interrupt.   *)
(***************************************************************************)
EXTENDS Naturals, Sequences, FiniteSets

CONSTANTS
    Proc,           \* ccdad processes: CLI commands, the daemon, doctor
    Uuid,           \* account identities
    Blob,           \* contents of a credential file
    Setting,        \* what a row holds that belongs to the user (alias, flags)
    Fresh,          \* the Setting of a row that was just added
    NoProc, NoUuid, NoRow, NoFile,
    MaxOps,         \* bound: operations in one WithStore callback
    MaxCrashes,     \* bound: SIGKILLs and power cuts
    MaxInterrupts   \* bound: SIGINTs

ASSUME StoreAssumption ==
    /\ Fresh \in Setting
    /\ NoProc \notin Proc /\ NoUuid \notin Uuid
    /\ NoRow \notin Setting /\ NoFile \notin Blob
    /\ MaxOps \in Nat /\ MaxCrashes \in Nat /\ MaxInterrupts \in Nat

VARIABLES
    lock,       \* holder of the flock on store.lock
    doc,        \* accounts.toml on disk
    cred,       \* the credentials directory on disk
    pc,         \* where each process is
    mem,        \* each process's in-memory Store.data
    undo,       \* each transaction's journal of credential changes
    sig,        \* SIGINT as the process sees it: default disposition, held, or held and arrived
    out,        \* what the last call of each process returned
    ops,        \* operations the running callback has made
    listing,    \* the credential files doctor's ReadDir returned
    crashes, interrupts,
    \* history, read by the properties only
    start,      \* document and credentials when the lock was granted
    touched,    \* rows the transaction's operations name; NoUuid stands for the active pointer
    wrote,      \* credential files the transaction wrote
    hit,        \* a SIGINT arrived while the transaction held it
    landed,     \* the transaction's save succeeded
    residue     \* credential files a crash or a refused reversal left behind

disk    == <<doc, cred>>
history == <<start, touched, wrote, hit, landed, residue>>
bounds  == <<crashes, interrupts>>
vars    == <<lock, doc, cred, pc, mem, undo, sig, out, ops, listing, bounds, history>>

Document == [rows: [Uuid -> Setting \cup {NoRow}], active: Uuid \cup {NoUuid}]
Undo     == [uuid: Uuid, prior: Blob \cup {NoFile}]   \* NoFile: the transaction created it
PC       == {"idle", "acquire", "load", "fn", "save", "committed", "rollback",
             "close", "release", "ls", "judge"}
Outcome  == {"none", "ok", "busy", "error", "reversed", "saved"}

EmptyDoc == [rows |-> [u \in Uuid |-> NoRow], active |-> NoUuid]
NoStart  == [doc |-> EmptyDoc, cred |-> [u \in Uuid |-> NoFile]]

Named(d, u) == d.rows[u] # NoRow
Files       == {u \in Uuid : cred[u] # NoFile}
InTx(p)     == pc[p] \in {"load", "fn", "save", "committed", "rollback", "close", "release"}

Init ==
    /\ lock = NoProc
    /\ doc  = EmptyDoc
    /\ cred = [u \in Uuid |-> NoFile]
    /\ pc   = [p \in Proc |-> "idle"]
    /\ mem  = [p \in Proc |-> EmptyDoc]
    /\ undo = [p \in Proc |-> <<>>]
    /\ sig  = [p \in Proc |-> "default"]
    /\ out  = [p \in Proc |-> "none"]
    /\ ops  = [p \in Proc |-> 0]
    /\ listing = [p \in Proc |-> {}]
    /\ crashes = 0 /\ interrupts = 0
    /\ start   = [p \in Proc |-> NoStart]
    /\ touched = [p \in Proc |-> {}]
    /\ wrote   = [p \in Proc |-> {}]
    /\ hit     = [p \in Proc |-> FALSE]
    /\ landed  = [p \in Proc |-> FALSE]
    /\ residue = {}

\* A call that returned, or died, keeps nothing of its transaction.
Forget(p) ==
    /\ mem' = [mem EXCEPT ![p] = EmptyDoc]
    /\ ops' = [ops EXCEPT ![p] = 0]
    /\ start' = [start EXCEPT ![p] = NoStart]
    /\ touched' = [touched EXCEPT ![p] = {}]
    /\ wrote' = [wrote EXCEPT ![p] = {}]

Goto(p, from, to) == pc[p] = from /\ pc' = [pc EXCEPT ![p] = to]

-----------------------------------------------------------------------------
(* acquireLock *)

\* A mutator or WithStore is called; Open's own read of the document is not
\* kept, because mutate loads again under the lock.
Begin(p) ==
    /\ Goto(p, "idle", "acquire")
    /\ out' = [out EXCEPT ![p] = "none"]
    /\ hit' = [hit EXCEPT ![p] = FALSE]
    /\ landed' = [landed EXCEPT ![p] = FALSE]
    /\ UNCHANGED <<lock, disk, mem, undo, sig, ops, listing, bounds, start, touched, wrote, residue>>

\* Mutant: contention, (false, nil), read as success.
TakeLockOnContention(p) ==
    /\ Goto(p, "acquire", "load")
    /\ lock' = p
    /\ sig' = [sig EXCEPT ![p] = "held"]
    /\ start' = [start EXCEPT ![p] = [doc |-> doc, cred |-> cred]]
    /\ UNCHANGED <<disk, mem, undo, out, ops, listing, bounds, touched, wrote, hit, landed, residue>>

\* TryLock succeeds, and the watch on SIGINT is installed before the load.
TakeLock(p) ==
    /\ Goto(p, "acquire", "load")
    /\ lock = NoProc
    /\ lock' = p
    /\ sig' = [sig EXCEPT ![p] = "held"]
    /\ start' = [start EXCEPT ![p] = [doc |-> doc, cred |-> cred]]
    /\ UNCHANGED <<disk, mem, undo, out, ops, listing, bounds, touched, wrote, hit, landed, residue>>

\* Mutant: the poll has no deadline.
GiveUpNever(p) == pc[p] = "acquire" /\ lock # NoProc /\ UNCHANGED vars

\* LockTimeout passes with the lock still held by somebody: ErrLockBusy.
GiveUp(p) ==
    /\ Goto(p, "acquire", "idle")
    /\ lock # NoProc
    /\ out' = [out EXCEPT ![p] = "busy"]
    /\ UNCHANGED <<lock, disk, mem, undo, sig, ops, listing, bounds, history>>

-----------------------------------------------------------------------------
(* mutate *)

\* The document is read again inside the lock.
Load(p) ==
    /\ Goto(p, "load", "fn")
    /\ mem' = [mem EXCEPT ![p] = doc]
    /\ UNCHANGED <<lock, disk, undo, sig, out, ops, listing, bounds, history>>

\* The document cannot be read or parsed.  inTx is not set yet: no reversal.
LoadFails(p) ==
    /\ Goto(p, "load", "close")
    /\ out' = [out EXCEPT ![p] = "error"]
    /\ UNCHANGED <<lock, disk, mem, undo, sig, ops, listing, bounds, history>>

InCallback(p) ==
    /\ pc[p] = "fn"
    /\ ops[p] < MaxOps
    /\ ops' = [ops EXCEPT ![p] = @ + 1]

\* Mutant: nothing is journaled for a file the transaction creates.
JournalNothing(p, u) == undo[p]

\* writeCredentials: a file that was not there is journaled, before the write;
\* one that was is overwritten with nothing to put it back.
Journal(p, u) ==
    IF cred[u] = NoFile THEN Append(undo[p], [uuid |-> u, prior |-> NoFile]) ELSE undo[p]

WriteCredentials(p, u, b) ==
    /\ undo' = [undo EXCEPT ![p] = Journal(p, u)]
    /\ cred' = [cred EXCEPT ![u] = b]
    /\ wrote' = [wrote EXCEPT ![p] = @ \cup {u}]

\* add: the credential file first, then the row in memory.  A re-added account
\* keeps what belongs to the user.
Add(p, u, b) ==
    /\ InCallback(p)
    /\ WriteCredentials(p, u, b)
    /\ mem' = [mem EXCEPT ![p].rows[u] = IF Named(mem[p], u) THEN @ ELSE Fresh]
    /\ touched' = [touched EXCEPT ![p] = @ \cup {u}]
    /\ UNCHANGED <<lock, doc, pc, sig, out, listing, bounds, start, hit, landed, residue>>

\* SetCredentials: only for an account the document names.
SetCredentials(p, u, b) ==
    /\ InCallback(p)
    /\ Named(mem[p], u)
    /\ WriteCredentials(p, u, b)
    /\ UNCHANGED <<lock, doc, pc, mem, sig, out, listing, bounds, start, touched, hit, landed, residue>>

\* Mutant: the row is journaled where the file's content should be.
JournalRow(p, u) == Append(undo[p], [uuid |-> u, prior |-> mem[p].rows[u]])

\* remove journals what the file held, if there was one.
JournalContent(p, u) ==
    IF cred[u] = NoFile THEN undo[p] ELSE Append(undo[p], [uuid |-> u, prior |-> cred[u]])

\* remove: the file first, its content journaled, then the row.
Remove(p, u) ==
    /\ InCallback(p)
    /\ Named(mem[p], u)
    /\ cred' = [cred EXCEPT ![u] = NoFile]
    /\ undo' = [undo EXCEPT ![p] = JournalContent(p, u)]
    /\ mem' = [mem EXCEPT ![p].rows[u] = NoRow,
                          ![p].active = IF @ = u THEN NoUuid ELSE @]
    /\ touched' = [touched EXCEPT ![p] = @ \cup {u} \cup IF mem[p].active = u THEN {NoUuid} ELSE {}]
    /\ UNCHANGED <<lock, doc, pc, sig, out, listing, bounds, start, wrote, hit, landed, residue>>

\* SetAlias, SetDisabled, SetPrimary, SetOwned: a field of a row that exists.
SetField(p, u, s) ==
    /\ InCallback(p)
    /\ Named(mem[p], u)
    /\ mem' = [mem EXCEPT ![p].rows[u] = s]
    /\ touched' = [touched EXCEPT ![p] = @ \cup {u}]
    /\ UNCHANGED <<lock, disk, pc, undo, sig, out, listing, bounds, start, wrote, hit, landed, residue>>

\* SetActive asks nothing of the uuid.
SetActive(p, u) ==
    /\ InCallback(p)
    /\ mem' = [mem EXCEPT ![p].active = u]
    /\ touched' = [touched EXCEPT ![p] = @ \cup {NoUuid}]
    /\ UNCHANGED <<lock, disk, pc, undo, sig, out, listing, bounds, start, wrote, hit, landed, residue>>

\* fn returns an error or panics: a refused operation, or a file that could not
\* be written, whose journal entry was already made.
FnFails(p) ==
    /\ Goto(p, "fn", "rollback")
    /\ out' = [out EXCEPT ![p] = "error"]
    /\ \/ UNCHANGED undo
       \/ \E u \in Uuid : undo' = [undo EXCEPT ![p] = Journal(p, u)]
    /\ UNCHANGED <<lock, disk, mem, sig, ops, listing, bounds, history>>

\* fn returned nil: the signal is asked about between fn and the save.
FnReturns(p) ==
    /\ \/ /\ sig[p] = "held"
          /\ Goto(p, "fn", "save")
          /\ UNCHANGED out
       \/ /\ sig[p] = "arrived"
          /\ Goto(p, "fn", "rollback")
          /\ out' = [out EXCEPT ![p] = "reversed"]
    /\ UNCHANGED <<lock, disk, mem, undo, sig, ops, listing, bounds, history>>

\* save: one atomic rename of the whole document.
Save(p) ==
    /\ Goto(p, "save", "committed")
    /\ doc' = mem[p]
    /\ landed' = [landed EXCEPT ![p] = TRUE]
    /\ UNCHANGED <<lock, cred, mem, undo, sig, out, ops, listing, bounds, start, touched, wrote, hit, residue>>

SaveFails(p) ==
    /\ Goto(p, "save", "rollback")
    /\ out' = [out EXCEPT ![p] = "error"]
    /\ UNCHANGED <<lock, disk, mem, undo, sig, ops, listing, bounds, history>>

\* Mutant: a signal that arrived during the save is dropped with the watch.
CloseWithoutDrain(p) ==
    /\ Goto(p, "committed", "release")
    /\ out' = [out EXCEPT ![p] = "ok"]
    /\ sig' = [sig EXCEPT ![p] = "default"]
    /\ undo' = [undo EXCEPT ![p] = <<>>]
    /\ UNCHANGED <<lock, disk, mem, ops, listing, bounds, history>>

\* close at the commit: unhook, then drain, and the answer is the return value.
CloseCommitted(p) ==
    /\ Goto(p, "committed", "release")
    /\ out' = [out EXCEPT ![p] = IF sig[p] = "arrived" THEN "saved" ELSE "ok"]
    /\ sig' = [sig EXCEPT ![p] = "default"]
    /\ undo' = [undo EXCEPT ![p] = <<>>]
    /\ UNCHANGED <<lock, disk, mem, ops, listing, bounds, history>>

\* Mutant: the journal is replayed first entry first.
ReverseForwards(p) ==
    /\ pc[p] = "rollback" /\ undo[p] # <<>>
    /\ LET e == undo[p][1] IN cred' = [cred EXCEPT ![e.uuid] = e.prior]
    /\ undo' = [undo EXCEPT ![p] = Tail(@)]
    /\ UNCHANGED <<lock, doc, pc, mem, sig, out, ops, listing, bounds, history>>

\* rollback: one journal entry, last first.  A reversal the file system refuses
\* is reported and the next one is still tried.
Reverse(p) ==
    /\ pc[p] = "rollback" /\ undo[p] # <<>>
    /\ LET e == undo[p][Len(undo[p])] IN
       \/ cred' = [cred EXCEPT ![e.uuid] = e.prior] /\ UNCHANGED <<residue, out>>
       \/ /\ residue' = residue \cup {e.uuid}
          /\ out' = [out EXCEPT ![p] = IF @ = "reversed" THEN @ ELSE "error"]
          /\ UNCHANGED cred
    /\ undo' = [undo EXCEPT ![p] = SubSeq(@, 1, Len(@) - 1)]
    /\ UNCHANGED <<lock, doc, pc, mem, sig, ops, listing, bounds, start, touched, wrote, hit, landed>>

\* The end of rollback re-reads the document into memory.
Reversed(p) ==
    /\ undo[p] = <<>>
    /\ Goto(p, "rollback", "close")
    /\ mem' = [mem EXCEPT ![p] = doc]
    /\ UNCHANGED <<lock, disk, undo, sig, out, ops, listing, bounds, history>>

\* The deferred close of a transaction that did not commit.
CloseFailed(p) ==
    /\ Goto(p, "close", "release")
    /\ out' = [out EXCEPT ![p] = IF sig[p] = "arrived" THEN "reversed" ELSE @]
    /\ sig' = [sig EXCEPT ![p] = "default"]
    /\ UNCHANGED <<lock, disk, mem, undo, ops, listing, bounds, history>>

\* The lock is given back; a release that fails keeps it for the process's life.
Release(p) ==
    /\ Goto(p, "release", "idle")
    /\ \/ lock' = NoProc /\ UNCHANGED out
       \/ /\ UNCHANGED lock
          /\ out' = [out EXCEPT ![p] = IF @ = "ok" THEN "error" ELSE @]
    /\ Forget(p)
    /\ UNCHANGED <<disk, undo, sig, listing, bounds, hit, landed, residue>>

-----------------------------------------------------------------------------
(* OrphanCredentialsAt, doctor's read, under the same lock *)

\* Mutant: the read takes no lock.
ProbeUnlocked(p) ==
    /\ Goto(p, "idle", "ls")
    /\ out' = [out EXCEPT ![p] = "none"]
    /\ hit' = [hit EXCEPT ![p] = FALSE]
    /\ landed' = [landed EXCEPT ![p] = FALSE]
    /\ UNCHANGED <<lock, disk, mem, undo, sig, ops, listing, bounds, start, touched, wrote, residue>>

Probe(p) ==
    /\ Goto(p, "idle", "ls")
    /\ lock = NoProc
    /\ lock' = p
    /\ out' = [out EXCEPT ![p] = "none"]
    /\ hit' = [hit EXCEPT ![p] = FALSE]
    /\ landed' = [landed EXCEPT ![p] = FALSE]
    /\ UNCHANGED <<disk, mem, undo, sig, ops, listing, bounds, start, touched, wrote, residue>>

ListFiles(p) ==
    /\ Goto(p, "ls", "judge")
    /\ listing' = [listing EXCEPT ![p] = Files]
    /\ UNCHANGED <<lock, disk, mem, undo, sig, out, ops, bounds, history>>

\* The files no row names and that Stat still finds; then the lock is released.
Orphans(p) == {u \in listing[p] \cap Files : ~Named(doc, u)}

Judge(p) ==
    /\ Goto(p, "judge", "idle")
    /\ listing' = [listing EXCEPT ![p] = {}]
    /\ lock' = IF lock = p THEN NoProc ELSE lock
    /\ out' = [out EXCEPT ![p] = "ok"]
    /\ UNCHANGED <<disk, mem, undo, sig, ops, bounds, history>>

-----------------------------------------------------------------------------
(* Signals and crashes *)

\* The process dies: the kernel drops its flock, and whatever its transaction
\* had done to the credentials directory before the rename stays done.
Die(p) ==
    /\ pc' = [pc EXCEPT ![p] = "idle"]
    /\ lock' = IF lock = p THEN NoProc ELSE lock
    /\ residue' = IF landed[p] THEN residue
                  ELSE residue \cup {undo[p][i].uuid : i \in DOMAIN undo[p]}
    /\ Forget(p)
    /\ undo' = [undo EXCEPT ![p] = <<>>]
    /\ sig' = [sig EXCEPT ![p] = "default"]
    /\ out' = [out EXCEPT ![p] = "none"]
    /\ listing' = [listing EXCEPT ![p] = {}]
    /\ hit' = [hit EXCEPT ![p] = FALSE]
    /\ landed' = [landed EXCEPT ![p] = FALSE]
    /\ UNCHANGED disk

Crash(p) ==
    /\ crashes < MaxCrashes
    /\ crashes' = crashes + 1
    /\ Die(p)
    /\ UNCHANGED interrupts

\* SIGINT: held for the span of the transaction, fatal outside it.
Interrupt(p) ==
    /\ interrupts < MaxInterrupts
    /\ interrupts' = interrupts + 1
    /\ pc[p] # "idle"
    /\ \/ /\ sig[p] = "default"
          /\ Die(p)
       \/ /\ sig[p] # "default"
          /\ sig' = [sig EXCEPT ![p] = "arrived"]
          /\ hit' = [hit EXCEPT ![p] = TRUE]
          /\ UNCHANGED <<lock, disk, pc, mem, undo, out, ops, listing, start, touched, wrote, landed, residue>>
    /\ UNCHANGED crashes

-----------------------------------------------------------------------------
Callback(p) ==
    \E u \in Uuid :
        \/ \E b \in Blob : Add(p, u, b) \/ SetCredentials(p, u, b)
        \/ Remove(p, u)
        \/ \E s \in Setting : SetField(p, u, s)
        \/ SetActive(p, u)

\* The steps a running process takes on its own.
Step(p) ==
    \/ TakeLock(p) \/ GiveUp(p) \/ Load(p) \/ LoadFails(p)
    \/ FnFails(p) \/ FnReturns(p) \/ Save(p) \/ SaveFails(p) \/ CloseCommitted(p)
    \/ Reverse(p) \/ Reversed(p) \/ CloseFailed(p) \/ Release(p)
    \/ ListFiles(p) \/ Judge(p)

Next ==
    \E p \in Proc : Begin(p) \/ Probe(p) \/ Callback(p) \/ Step(p) \/ Crash(p) \/ Interrupt(p)

Spec == Init /\ [][Next]_vars

\* A process that is running keeps running: the fairness of the OS scheduler.
FairSpec == Spec /\ \A p \in Proc : WF_vars(Step(p))

-----------------------------------------------------------------------------
(* Properties *)

TypeOK ==
    /\ lock \in Proc \cup {NoProc}
    /\ doc \in Document
    /\ cred \in [Uuid -> Blob \cup {NoFile}]
    /\ pc \in [Proc -> PC]
    /\ mem \in [Proc -> Document]
    /\ undo \in [Proc -> Seq(Undo)]
    /\ sig \in [Proc -> {"default", "held", "arrived"}]
    /\ out \in [Proc -> Outcome]
    /\ ops \in [Proc -> 0..MaxOps]
    /\ listing \in [Proc -> SUBSET Uuid]
    /\ crashes \in 0..MaxCrashes /\ interrupts \in 0..MaxInterrupts
    /\ start \in [Proc -> [doc: Document, cred: [Uuid -> Blob \cup {NoFile}]]]
    /\ touched \in [Proc -> SUBSET (Uuid \cup {NoUuid})] /\ wrote \in [Proc -> SUBSET Uuid]
    /\ hit \in [Proc -> BOOLEAN] /\ landed \in [Proc -> BOOLEAN]
    /\ residue \subseteq Uuid

\* No lost update: a save changes only the rows the transaction's own
\* operations named, and the active pointer only if they set it, however many other processes wrote accounts.toml in
\* between (lock.go: "two processes that each read accounts.toml, add an account
\* and write it back lose one of the two accounts").
NoLostUpdate ==
    [][\A p \in Proc : Save(p) =>
         /\ \A u \in Uuid \ touched[p] : doc'.rows[u] = doc.rows[u]
         /\ NoUuid \notin touched[p] => doc'.active = doc.active]_vars

\* Between transactions a row and its credential file stand or fall together:
\* no live token that no account names, no account with nothing to log in as,
\* except what a crash or a reversal the file system refused left behind.
RowsAndFilesAgree ==
    (\A p \in Proc : ~InTx(p)) =>
        \A u \in Uuid \ residue : Named(doc, u) <=> cred[u] # NoFile

\* A transaction that did not commit is reversed: the document is what it
\* found, and a credential file differs only if it was there before and the
\* transaction overwrote it (WithStore's contract).
RefusedIsReversed ==
    \A p \in Proc :
        (pc[p] = "release" /\ ~landed[p] /\ out[p] \in {"error", "reversed"}) =>
            /\ doc = start[p].doc
            /\ \A u \in Uuid \ residue :
                 cred[u] # start[p].cred[u] =>
                     u \in wrote[p] /\ cred[u] # NoFile /\ start[p].cred[u] # NoFile

\* A signal whose default disposition the transaction removed is always acted
\* on, and the message says the right side of the commit.
InterruptsAreAnswered ==
    \A p \in Proc : pc[p] = "idle" =>
        /\ hit[p] => out[p] \in {"reversed", "saved"}
        /\ out[p] = "reversed" => ~landed[p]
        /\ out[p] = "saved" => landed[p]

\* What doctor tells the user to delete is a file nobody is about to claim:
\* when it is reported, no transaction in flight has a row for it.
OrphansAreNobodys ==
    [][\A p \in Proc : Judge(p) =>
         \A u \in Orphans(p), q \in Proc : InTx(q) => ~Named(mem[q], u)]_vars

\* Every call returns: a leaked or crashed lock is an error, never a hang.
CallsReturn == \A p \in Proc : pc[p] = "acquire" ~> pc[p] = "idle"
=============================================================================
