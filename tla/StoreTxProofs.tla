--------------------------- MODULE StoreTxProofs ---------------------------
(***************************************************************************)
(* What is proved of StoreTx for every number of processes, accounts,      *)
(* contents, crashes and signals.                                          *)
(***************************************************************************)
EXTENDS StoreTx, TLAPS

-----------------------------------------------------------------------------
(* Types *)

LEMMA ForgottenType ==
    /\ EmptyDoc \in Document
    /\ NoStart \in [doc: Document, cred: [Uuid -> Blob \cup {NoFile}]]
<1>1. EmptyDoc \in Document
  BY DEF EmptyDoc, Document
<1> QED
  BY <1>1 DEF NoStart

LEMMA InitTypeOK == Init => TypeOK
<1> SUFFICES ASSUME Init PROVE TypeOK
  OBVIOUS
<1> USE StoreAssumption DEF Init, Document, EmptyDoc, NoStart
<1>1. lock \in Proc \cup {NoProc} /\ doc \in Document /\ cred \in [Uuid -> Blob \cup {NoFile}]
  BY DEF Document
<1>2. pc \in [Proc -> PC] /\ out \in [Proc -> Outcome] /\ mem \in [Proc -> Document]
  BY DEF PC, Outcome
<1>3. undo \in [Proc -> Seq(Undo)]
  OBVIOUS
<1>4. start \in [Proc -> [doc: Document, cred: [Uuid -> Blob \cup {NoFile}]]]
  OBVIOUS
<1> QED
  BY <1>1, <1>2, <1>3, <1>4 DEF TypeOK

LEMMA ForgetType ==
    ASSUME TypeOK, NEW p \in Proc, Forget(p)
    PROVE  /\ mem' \in [Proc -> Document] /\ ops' \in [Proc -> 0..MaxOps]
           /\ start' \in [Proc -> [doc: Document, cred: [Uuid -> Blob \cup {NoFile}]]]
           /\ touched' \in [Proc -> SUBSET (Uuid \cup {NoUuid})]
           /\ wrote' \in [Proc -> SUBSET Uuid]
<1>1. mem' \in [Proc -> Document]
  BY ForgottenType DEF TypeOK, Forget
<1>2. ops' \in [Proc -> 0..MaxOps]
  BY StoreAssumption DEF TypeOK, Forget
<1>3. \A S : NoStart \in S /\ start \in [Proc -> S] => start' \in [Proc -> S]
  BY DEF Forget
<1>4. start' \in [Proc -> [doc: Document, cred: [Uuid -> Blob \cup {NoFile}]]]
  BY <1>3, ForgottenType DEF TypeOK
<1> QED
  BY <1>1, <1>2, <1>4 DEF TypeOK, Forget

LEMMA TxTypeOK ==
    ASSUME TypeOK, NEW p \in Proc,
           \/ Begin(p) \/ TakeLock(p) \/ GiveUp(p) \/ Load(p) \/ LoadFails(p)
           \/ FnReturns(p) \/ Save(p) \/ SaveFails(p) \/ CloseCommitted(p)
           \/ Reversed(p) \/ CloseFailed(p) \/ Release(p)
           \/ Probe(p) \/ ListFiles(p) \/ Judge(p)
    PROVE  TypeOK'
<1> USE StoreAssumption
<1> USE DEF TypeOK, PC, Outcome, Goto, disk, bounds, history
<1>1. CASE Begin(p)
  BY <1>1 DEF Begin
<1>2. CASE TakeLock(p)
  BY <1>2 DEF TakeLock
<1>3. CASE GiveUp(p)
  BY <1>3 DEF GiveUp
<1>4. CASE Load(p)
  BY <1>4 DEF Load
<1>5. CASE LoadFails(p)
  BY <1>5 DEF LoadFails
<1>6. CASE FnReturns(p)
  BY <1>6 DEF FnReturns
<1>7. CASE Save(p)
  BY <1>7 DEF Save
<1>8. CASE SaveFails(p)
  BY <1>8 DEF SaveFails
<1>9. CASE CloseCommitted(p)
  BY <1>9 DEF CloseCommitted
<1>10. CASE Reversed(p)
  BY <1>10 DEF Reversed
<1>11. CASE CloseFailed(p)
  BY <1>11 DEF CloseFailed
<1>12. CASE Release(p)
  <2>1. lock' \in Proc \cup {NoProc} /\ out' \in [Proc -> Outcome]
    BY <1>12 DEF Release
  <2>2. Forget(p)
    BY <1>12 DEF Release
  <2> QED
    BY <1>12, <2>1, <2>2, ForgetType DEF Release
<1>13. CASE Probe(p)
  BY <1>13 DEF Probe
<1>14. CASE ListFiles(p)
  BY <1>14 DEF ListFiles, Files
<1>15. CASE Judge(p)
  BY <1>15 DEF Judge
<1> QED
  BY <1>1, <1>2, <1>3, <1>4, <1>5, <1>6, <1>7, <1>8, <1>9, <1>10, <1>11, <1>12, <1>13, <1>14, <1>15

LEMMA JournalType ==
    ASSUME TypeOK, NEW p \in Proc, NEW u \in Uuid
    PROVE  Journal(p, u) \in Seq(Undo) /\ JournalContent(p, u) \in Seq(Undo)
<1>1. undo[p] \in Seq(Undo) /\ cred[u] \in Blob \cup {NoFile}
  BY DEF TypeOK
<1>2. \A b \in Blob \cup {NoFile} : [uuid |-> u, prior |-> b] \in Undo
  BY DEF Undo
<1>3. \A e \in Undo : Append(undo[p], e) \in Seq(Undo)
  BY <1>1
<1> QED
  BY <1>1, <1>2, <1>3 DEF Journal, JournalContent

LEMMA CallbackTypeOK ==
    ASSUME TypeOK, NEW p \in Proc, Callback(p) \/ FnFails(p)
    PROVE  TypeOK'
<1> USE StoreAssumption
<1> USE DEF TypeOK, Goto, disk, bounds, history
<1>1. mem[p] \in Document
  OBVIOUS
<1>2. \A u \in Uuid : /\ Journal(p, u) \in Seq(Undo)
                      /\ JournalContent(p, u) \in Seq(Undo)
  BY JournalType
<1>3. \A d \in Document, u \in Uuid, s \in Setting \cup {NoRow}, a \in Uuid \cup {NoUuid} :
        /\ [d EXCEPT !.rows[u] = s] \in Document
        /\ [d EXCEPT !.active = a] \in Document
        /\ [d EXCEPT !.rows[u] = s, !.active = a] \in Document
        /\ d.rows[u] \in Setting \cup {NoRow} /\ d.active \in Uuid \cup {NoUuid}
  BY ZenonT(60) DEF Document
<1>4. InCallback(p) => ops' \in [Proc -> 0..MaxOps]
  BY DEF InCallback
<1>5. ASSUME NEW u \in Uuid, NEW b \in Blob, Add(p, u, b)
      PROVE  TypeOK'
  <2>1. mem' \in [Proc -> Document]
    BY <1>1, <1>3, <1>5 DEF Add, Named
  <2> QED
    BY <1>2, <1>4, <1>5, <2>1, SMTT(30) DEF Add, WriteCredentials
<1>6. ASSUME NEW u \in Uuid, NEW b \in Blob, SetCredentials(p, u, b)
      PROVE  TypeOK'
  BY <1>2, <1>4, <1>6 DEF SetCredentials, WriteCredentials
<1>7. ASSUME NEW u \in Uuid, Remove(p, u)
      PROVE  TypeOK'
  <2>1. mem' \in [Proc -> Document]
    BY <1>1, <1>3, <1>7 DEF Remove
  <2> QED
    BY <1>2, <1>4, <1>7, <2>1 DEF Remove
<1>8. ASSUME NEW u \in Uuid, NEW s \in Setting, SetField(p, u, s)
      PROVE  TypeOK'
  <2>1. mem' \in [Proc -> Document]
    BY <1>1, <1>3, <1>8 DEF SetField
  <2> QED
    BY <1>4, <1>8, <2>1 DEF SetField
<1>9. ASSUME NEW u \in Uuid, SetActive(p, u)
      PROVE  TypeOK'
  <2>1. mem' \in [Proc -> Document]
    BY <1>1, <1>3, <1>9 DEF SetActive
  <2> QED
    BY <1>4, <1>9, <2>1 DEF SetActive
<1>10. CASE FnFails(p)
  <2>1. undo' \in [Proc -> Seq(Undo)]
    <3>1. \A s \in Seq(Undo) : [undo EXCEPT ![p] = s] \in [Proc -> Seq(Undo)]
      OBVIOUS
    <3>2. undo' = undo \/ \E u \in Uuid : undo' = [undo EXCEPT ![p] = Journal(p, u)]
      BY <1>10 DEF FnFails
    <3>3. ASSUME NEW u \in Uuid, undo' = [undo EXCEPT ![p] = Journal(p, u)]
          PROVE  undo' \in [Proc -> Seq(Undo)]
      <4>1. Journal(p, u) \in Seq(Undo)
        BY <1>2
      <4> QED
        BY <3>1, <3>3, <4>1
    <3> QED
      BY <3>2, <3>3
  <2>2. pc' \in [Proc -> PC] /\ out' \in [Proc -> Outcome]
    BY <1>10 DEF FnFails, PC, Outcome
  <2> QED
    BY <1>10, <2>1, <2>2 DEF FnFails
<1> QED
  BY <1>5, <1>6, <1>7, <1>8, <1>9, <1>10 DEF Callback

LEMMA ReverseTypeOK ==
    ASSUME TypeOK, NEW p \in Proc, Reverse(p)
    PROVE  TypeOK'
<1> DEFINE e == undo[p][Len(undo[p])]
<1>1. undo[p] \in Seq(Undo) /\ undo[p] # <<>>
  BY DEF TypeOK, Reverse
<1>2. e \in Undo /\ SubSeq(undo[p], 1, Len(undo[p]) - 1) \in Seq(Undo)
  BY <1>1
<1>3. undo' \in [Proc -> Seq(Undo)]
  BY <1>2 DEF TypeOK, Reverse
<1>4. cred' \in [Uuid -> Blob \cup {NoFile}] /\ residue' \subseteq Uuid /\ out' \in [Proc -> Outcome]
  BY <1>2 DEF TypeOK, Reverse, Undo, Outcome
<1> QED
  BY <1>3, <1>4 DEF TypeOK, Reverse, bounds

LEMMA DieTypeOK ==
    ASSUME TypeOK, NEW p \in Proc, Crash(p) \/ Interrupt(p)
    PROVE  TypeOK'
<1> USE StoreAssumption
<1> USE DEF TypeOK, disk
<1>1. {undo[p][i].uuid : i \in DOMAIN undo[p]} \subseteq Uuid
  <2>1. undo[p] \in Seq(Undo)
    OBVIOUS
  <2>2. \A i \in DOMAIN undo[p] : undo[p][i] \in Undo
    BY <2>1
  <2> QED
    BY <2>2 DEF Undo
<1>2. Die(p) => /\ lock' \in Proc \cup {NoProc}
                /\ pc' \in [Proc -> PC] /\ out' \in [Proc -> Outcome]
                /\ residue' \subseteq Uuid
  BY <1>1 DEF Die, PC, Outcome
<1>3. Die(p) => Forget(p)
  BY DEF Die
<1>4. Die(p) => /\ doc' \in Document /\ cred' \in [Uuid -> Blob \cup {NoFile}]
                /\ sig' \in [Proc -> {"default", "held", "arrived"}]
                /\ listing' \in [Proc -> SUBSET Uuid]
  BY DEF Die
<1>5. Die(p) => hit' \in [Proc -> BOOLEAN] /\ landed' \in [Proc -> BOOLEAN]
  BY DEF Die
<1>6. Die(p) => undo' \in [Proc -> Seq(Undo)]
  <2>1. <<>> \in Seq(Undo)
    OBVIOUS
  <2>2. \A S : undo \in [Proc -> S] /\ <<>> \in S => [undo EXCEPT ![p] = <<>>] \in [Proc -> S]
    OBVIOUS
  <2> QED
    BY <2>1, <2>2 DEF Die
<1>7. CASE Crash(p)
  BY <1>2, <1>3, <1>4, <1>5, <1>6, <1>7, ForgetType DEF Crash
<1>8. CASE Interrupt(p)
  <2>1. crashes' \in 0..MaxCrashes /\ interrupts' \in 0..MaxInterrupts
    BY <1>8 DEF Interrupt
  <2>2. CASE Die(p)
    BY <1>2, <1>3, <1>4, <1>5, <1>6, <2>1, <2>2, ForgetType
  <2>3. CASE sig[p] # "default"
    BY <1>8, <2>1, <2>3 DEF Interrupt
  <2> QED
    BY <1>8, <2>2, <2>3 DEF Interrupt
<1> QED
  BY <1>7, <1>8

LEMMA TypeStep == TypeOK /\ [Next]_vars => TypeOK'
<1> SUFFICES ASSUME TypeOK, [Next]_vars PROVE TypeOK'
  OBVIOUS
<1>1. CASE UNCHANGED vars
  BY <1>1 DEF TypeOK, vars, disk, bounds, history
<1>2. CASE Next
  BY <1>2, TxTypeOK, CallbackTypeOK, ReverseTypeOK, DieTypeOK DEF Next, Step
<1> QED
  BY <1>1, <1>2

-----------------------------------------------------------------------------
(* The inductive invariant *)

\* Whoever is in a transaction, or in doctor's read, holds the lock.
HoldsLock == \A p \in Proc : InTx(p) \/ pc[p] \in {"ls", "judge"} => lock = p

\* Until its save, a transaction's memory is the document on disk but for what
\* its own operations touched.
MemoryIsCurrent ==
    \A p \in Proc : pc[p] \in {"fn", "save"} =>
        /\ \A u \in Uuid \ touched[p] : mem[p].rows[u] = doc.rows[u]
        /\ NoUuid \notin touched[p] => mem[p].active = doc.active

\* A signal that arrived is remembered until the close answers it, and a
\* process between calls answers with the right side of the commit.
Answer(p) ==
    /\ hit[p] => out[p] \in {"reversed", "saved"}
    /\ out[p] = "reversed" => ~landed[p]
    /\ out[p] = "saved" => landed[p]

SignalsKept ==
    \A p \in Proc :
        /\ pc[p] \in {"load", "fn", "save", "committed", "rollback", "close"} =>
             (hit[p] <=> sig[p] = "arrived")
        /\ pc[p] \in {"idle", "acquire", "release", "ls", "judge"} => sig[p] = "default"
        /\ pc[p] \in {"acquire", "load", "fn", "save", "rollback", "close", "ls", "judge"} => ~landed[p]
        /\ pc[p] = "committed" => landed[p]
        /\ pc[p] \in {"acquire", "ls", "judge"} => ~hit[p]
        /\ pc[p] \in {"acquire", "load", "fn", "save", "ls", "judge"} => out[p] = "none"
        /\ pc[p] \in {"rollback", "close"} => out[p] \in {"error", "reversed"}
        /\ pc[p] \in {"release", "idle"} => Answer(p)

LEMMA LockStep ==
    ASSUME TypeOK, HoldsLock, [Next]_vars
    PROVE  HoldsLock'
<1> USE StoreAssumption DEF HoldsLock, TypeOK, InTx, PC, Goto
<1>1. CASE UNCHANGED vars
  BY <1>1 DEF vars
<1>2. ASSUME NEW p \in Proc, Begin(p) \/ Load(p) \/ LoadFails(p) \/ FnFails(p) \/ FnReturns(p)
                             \/ Save(p) \/ SaveFails(p) \/ CloseCommitted(p) \/ Reversed(p)
                             \/ CloseFailed(p) \/ ListFiles(p) \/ GiveUp(p)
      PROVE  HoldsLock'
  BY <1>2 DEF Begin, Load, LoadFails, FnFails, FnReturns, Save, SaveFails, CloseCommitted,
              Reversed, CloseFailed, ListFiles, GiveUp
<1>3. ASSUME NEW p \in Proc, TakeLock(p) \/ Probe(p)
      PROVE  HoldsLock'
  BY <1>3 DEF TakeLock, Probe
<1>4. ASSUME NEW p \in Proc, Release(p) \/ Judge(p)
      PROVE  HoldsLock'
  BY <1>4 DEF Release, Judge
<1>5. ASSUME NEW p \in Proc, Callback(p) \/ Reverse(p)
      PROVE  HoldsLock'
  BY <1>5 DEF Callback, Reverse, Add, SetCredentials, Remove, SetField, SetActive
<1>6. ASSUME NEW p \in Proc, Crash(p) \/ Interrupt(p)
      PROVE  HoldsLock'
  BY <1>6 DEF Crash, Interrupt, Die
<1> QED
  BY <1>1, <1>2, <1>3, <1>4, <1>5, <1>6 DEF Next, Step

LEMMA MemoryStep ==
    ASSUME TypeOK, HoldsLock, MemoryIsCurrent, [Next]_vars
    PROVE  MemoryIsCurrent'
<1> USE StoreAssumption DEF MemoryIsCurrent, TypeOK, PC, Goto
<1>1. CASE UNCHANGED vars
  BY <1>1 DEF vars, disk, history
<1>2. ASSUME NEW p \in Proc, Begin(p) \/ TakeLock(p) \/ GiveUp(p) \/ LoadFails(p) \/ FnFails(p)
                             \/ FnReturns(p) \/ SaveFails(p) \/ CloseCommitted(p)
                             \/ CloseFailed(p) \/ ListFiles(p) \/ Probe(p) \/ Judge(p)
      PROVE  MemoryIsCurrent'
  <2>1. doc' = doc /\ mem' = mem /\ touched' = touched
    BY <1>2 DEF Begin, TakeLock, GiveUp, LoadFails, FnFails, FnReturns, SaveFails, CloseCommitted,
                CloseFailed, ListFiles, Probe, Judge, disk, history
  <2>2. \A q \in Proc : pc'[q] \in {"fn", "save"} => pc[q] \in {"fn", "save"}
    BY <1>2 DEF Begin, TakeLock, GiveUp, LoadFails, FnFails, FnReturns, SaveFails, CloseCommitted,
                CloseFailed, ListFiles, Probe, Judge
  <2> QED
    BY <2>1, <2>2
<1>3. ASSUME NEW p \in Proc, Load(p) \/ Reversed(p) \/ Reverse(p)
      PROVE  MemoryIsCurrent'
  BY <1>3 DEF Load, Reversed, Reverse, disk, history
<1>4. ASSUME NEW p \in Proc, Save(p)
      PROVE  MemoryIsCurrent'
  <2>1. \A q \in Proc \ {p} : pc[q] \notin {"fn", "save"}
    BY <1>4 DEF Save, HoldsLock, InTx
  <2> QED
    BY <1>4, <2>1 DEF Save
<1>5. ASSUME NEW p \in Proc, Callback(p)
      PROVE  MemoryIsCurrent'
  <2>1. ASSUME NEW u \in Uuid, NEW b \in Blob, Add(p, u, b)
        PROVE  MemoryIsCurrent'
    BY <2>1 DEF Add, InCallback, WriteCredentials, Document
  <2>2. ASSUME NEW u \in Uuid, NEW b \in Blob, SetCredentials(p, u, b)
        PROVE  MemoryIsCurrent'
    BY <2>2 DEF SetCredentials, InCallback, WriteCredentials
  <2>3. ASSUME NEW u \in Uuid, Remove(p, u)
        PROVE  MemoryIsCurrent'
    BY <2>3 DEF Remove, InCallback, Document
  <2>4. ASSUME NEW u \in Uuid, NEW s \in Setting, SetField(p, u, s)
        PROVE  MemoryIsCurrent'
    BY <2>4 DEF SetField, InCallback, Document, disk
  <2>5. ASSUME NEW u \in Uuid, SetActive(p, u)
        PROVE  MemoryIsCurrent'
    BY <2>5 DEF SetActive, InCallback, Document, disk
  <2> QED
    BY <1>5, <2>1, <2>2, <2>3, <2>4, <2>5 DEF Callback
<1>6. ASSUME NEW p \in Proc, Release(p) \/ Crash(p) \/ Interrupt(p)
      PROVE  MemoryIsCurrent'
  BY <1>6 DEF Release, Crash, Interrupt, Die, Forget, disk
<1> QED
  BY <1>1, <1>2, <1>3, <1>4, <1>5, <1>6 DEF Next, Step

LEMMA SignalStep ==
    ASSUME TypeOK, SignalsKept, [Next]_vars
    PROVE  SignalsKept'
<1> USE DEF SignalsKept, Answer, TypeOK, PC, Outcome, Goto
<1>1. CASE UNCHANGED vars
  BY <1>1 DEF vars, history
<1>2. ASSUME NEW p \in Proc, Begin(p) \/ TakeLock(p) \/ GiveUp(p) \/ Probe(p) \/ ListFiles(p) \/ Judge(p)
      PROVE  SignalsKept'
  BY <1>2 DEF Begin, TakeLock, GiveUp, Probe, ListFiles, Judge, history
<1>3. ASSUME NEW p \in Proc, Load(p) \/ LoadFails(p) \/ FnFails(p) \/ FnReturns(p)
      PROVE  SignalsKept'
  BY <1>3 DEF Load, LoadFails, FnFails, FnReturns, history
<1>4. ASSUME NEW p \in Proc, Save(p) \/ SaveFails(p) \/ CloseCommitted(p)
      PROVE  SignalsKept'
  <2>1. CASE Save(p)
    BY <2>1 DEF Save, history
  <2>2. CASE SaveFails(p)
    BY <2>2 DEF SaveFails, history
  <2>3. CASE CloseCommitted(p)
    BY <2>3 DEF CloseCommitted, history
  <2> QED
    BY <1>4, <2>1, <2>2, <2>3
<1>5. ASSUME NEW p \in Proc, Reverse(p) \/ Reversed(p) \/ CloseFailed(p)
      PROVE  SignalsKept'
  BY <1>5 DEF Reverse, Reversed, CloseFailed, history
<1>6. ASSUME NEW p \in Proc, Release(p)
      PROVE  SignalsKept'
  BY <1>6 DEF Release
<1>7. ASSUME NEW p \in Proc, Callback(p)
      PROVE  SignalsKept'
  <2>1. UNCHANGED <<pc, sig, out, hit, landed>>
    BY <1>7 DEF Callback, Add, SetCredentials, Remove, SetField, SetActive
  <2> QED
    BY <2>1
<1>8. ASSUME NEW p \in Proc, Die(p)
      PROVE  SignalsKept'
  <2>1. pc' = [pc EXCEPT ![p] = "idle"] /\ sig' = [sig EXCEPT ![p] = "default"]
        /\ out' = [out EXCEPT ![p] = "none"]
        /\ hit' = [hit EXCEPT ![p] = FALSE] /\ landed' = [landed EXCEPT ![p] = FALSE]
    BY <1>8 DEF Die
  <2> QED
    BY <2>1
<1>9. ASSUME NEW p \in Proc, Interrupt(p), ~Die(p)
      PROVE  SignalsKept'
  <2>1. /\ sig[p] # "default" /\ pc[p] # "idle"
        /\ sig' = [sig EXCEPT ![p] = "arrived"] /\ hit' = [hit EXCEPT ![p] = TRUE]
        /\ UNCHANGED <<pc, out, landed>>
    BY <1>9 DEF Interrupt
  <2>2. \A q \in Proc \ {p} : sig'[q] = sig[q] /\ hit'[q] = hit[q]
    BY <2>1
  <2>3. sig'[p] = "arrived" /\ hit'[p]
    BY <2>1
  <2> QED
    BY <2>1, <2>2, <2>3
<1> QED
  BY <1>1, <1>2, <1>3, <1>4, <1>5, <1>6, <1>7, <1>8, <1>9 DEF Next, Step, Crash

-----------------------------------------------------------------------------
(* The journal *)

\* Replaying journal s over the credentials c leaves u a file exactly when
\* document d names it: the entry that is replayed last for u is the first made.
Restores(d, c, s, u) ==
    /\ (\A i \in 1..Len(s) : s[i].uuid # u) => (Named(d, u) <=> c[u] # NoFile)
    /\ \A i \in 1..Len(s) :
         (s[i].uuid = u /\ \A j \in 1..(i - 1) : s[j].uuid # u)
            => (Named(d, u) <=> s[i].prior # NoFile)

\* A journal entry made before the file changes: what it restores is what was
\* there.
LEMMA AppendRestores ==
    ASSUME NEW d, NEW c, NEW c2, NEW s \in Seq(Undo), NEW e \in Undo, NEW u,
           Restores(d, c, s, u),
           e.uuid = u => (e.prior # NoFile <=> c[u] # NoFile),
           e.uuid # u => c2[u] = c[u]
    PROVE  Restores(d, c2, Append(s, e), u)
<1> DEFINE t == Append(s, e)
<1>1. /\ Len(t) = Len(s) + 1 /\ Len(s) \in Nat
      /\ t[Len(s) + 1] = e
      /\ \A i \in 1..Len(s) : t[i] = s[i]
  OBVIOUS
<1> HIDE DEF t
<1>2. ASSUME \A i \in 1..Len(t) : t[i].uuid # u
      PROVE  Named(d, u) <=> c2[u] # NoFile
  <2>1. e.uuid # u /\ \A i \in 1..Len(s) : s[i].uuid # u
    BY <1>1, <1>2
  <2> QED
    BY <2>1 DEF Restores
<1>3. ASSUME NEW i \in 1..Len(t), t[i].uuid = u, \A j \in 1..(i - 1) : t[j].uuid # u
      PROVE  Named(d, u) <=> t[i].prior # NoFile
  <2>1. CASE i \in 1..Len(s)
    <3>1. t[i] = s[i] /\ \A j \in 1..(i - 1) : s[j].uuid # u
      BY <1>1, <1>3, <2>1
    <3> QED
      BY <1>3, <2>1, <3>1 DEF Restores
  <2>2. CASE i = Len(s) + 1
    <3>1. t[i] = e /\ \A j \in 1..Len(s) : s[j].uuid # u
      BY <1>1, <1>3, <2>2
    <3> QED
      BY <1>3, <3>1 DEF Restores
  <2> QED
    BY <1>1, <2>1, <2>2
<1> QED
  BY <1>2, <1>3 DEF Restores, t

LEMMA PrefixProperties ==
    ASSUME NEW S, NEW s \in Seq(S), NEW k \in 0..Len(s)
    PROVE  /\ Len(SubSeq(s, 1, k)) = k
           /\ \A i \in 1..k : SubSeq(s, 1, k)[i] = s[i]
<1>1. Len(SubSeq(s, 1, k)) = k
  OBVIOUS
<1>2. ASSUME NEW i \in 1..k
      PROVE  SubSeq(s, 1, k)[i] = s[i]
  OBVIOUS
<1> QED
  BY <1>1, <1>2

\* Replaying one entry, last first.
LEMMA PopRestores ==
    ASSUME NEW d, NEW c, NEW c2, NEW s \in Seq(Undo), s # <<>>, NEW u,
           Restores(d, c, s, u),
           s[Len(s)].uuid # u => c2[u] = c[u],
           s[Len(s)].uuid = u => c2[u] = s[Len(s)].prior
    PROVE  Restores(d, c2, SubSeq(s, 1, Len(s) - 1), u)
<1> DEFINE t == SubSeq(s, 1, Len(s) - 1)
           n == Len(s)
<1>1. /\ n \in Nat \ {0} /\ Len(t) = n - 1
      /\ \A i \in 1..(n - 1) : t[i] = s[i]
  <2>1. n \in Nat \ {0}
    OBVIOUS
  <2>2. n - 1 \in 0..Len(s)
    BY <2>1
  <2> QED
    BY <2>1, <2>2, PrefixProperties
<1> HIDE DEF t
<1>2. ASSUME \A i \in 1..Len(t) : t[i].uuid # u
      PROVE  Named(d, u) <=> c2[u] # NoFile
  <2>1. \A i \in 1..(n - 1) : s[i].uuid # u
    BY <1>1, <1>2
  <2>2. CASE s[n].uuid = u
    BY <1>1, <2>1, <2>2 DEF Restores
  <2>3. CASE s[n].uuid # u
    <3>1. \A i \in 1..n : s[i].uuid # u
      BY <1>1, <2>1, <2>3
    <3> QED
      BY <2>3, <3>1 DEF Restores
  <2> QED
    BY <2>2, <2>3
<1>3. ASSUME NEW i \in 1..Len(t), t[i].uuid = u, \A j \in 1..(i - 1) : t[j].uuid # u
      PROVE  Named(d, u) <=> t[i].prior # NoFile
  <2>1. i \in 1..n /\ t[i] = s[i] /\ \A j \in 1..(i - 1) : s[j].uuid # u
    BY <1>1, <1>3
  <2> QED
    BY <1>3, <2>1 DEF Restores
<1> QED
  BY <1>2, <1>3 DEF Restores, t

-----------------------------------------------------------------------------
(* Rows and files *)

Agrees(d, c, u) == Named(d, u) <=> c[u] # NoFile

\* Where a transaction has nothing to take back, rows and files agree; while it
\* may have, its journal restores the agreement, and until its save its memory
\* agrees with the files already.
JournalRestores(p) ==
    /\ pc[p] \in {"load", "committed", "close", "release"} =>
         \A u \in Uuid \ residue : Agrees(doc, cred, u)
    /\ pc[p] \notin {"fn", "save", "rollback", "committed"} => undo[p] = <<>>
    /\ pc[p] \in {"fn", "save", "rollback"} =>
         \A u \in Uuid \ residue : Restores(doc, cred, undo[p], u)
    /\ pc[p] \in {"fn", "save"} => \A u \in Uuid \ residue : Agrees(mem[p], cred, u)

FilesKept == RowsAndFilesAgree /\ \A p \in Proc : JournalRestores(p)

LEMMA EmptyRestores ==
    ASSUME NEW d, NEW c, NEW u
    PROVE  Restores(d, c, <<>>, u) <=> Agrees(d, c, u)
BY DEF Restores, Agrees

\* A step of p that leaves the other processes alone: what remains to show.
LEMMA FilesStepOf ==
    ASSUME TypeOK, HoldsLock, FilesKept, NEW p \in Proc,
           \A q \in Proc \ {p} : pc'[q] = pc[q] /\ mem'[q] = mem[q] /\ undo'[q] = undo[q],
           UNCHANGED <<doc, cred, residue>> \/ InTx(p),
           JournalRestores(p)',
           InTx(p) => InTx(p)' \/ \A u \in Uuid \ residue' : Agrees(doc', cred', u)
    PROVE  FilesKept'
<1>1. InTx(p) => \A q \in Proc \ {p} : ~InTx(q)
  BY DEF HoldsLock
<1>2. ASSUME NEW q \in Proc \ {p}
      PROVE  JournalRestores(q)'
  <2>1. JournalRestores(q)
    BY DEF FilesKept
  <2>2. CASE UNCHANGED <<doc, cred, residue>>
    BY <2>1, <2>2 DEF JournalRestores
  <2>3. CASE ~InTx(q)
    BY <2>1, <2>3 DEF JournalRestores, InTx
  <2> QED
    BY <1>1, <2>2, <2>3
<1>3. RowsAndFilesAgree'
  <2> SUFFICES ASSUME \A q \in Proc : ~InTx(q)', NEW u \in Uuid \ residue'
               PROVE  Agrees(doc', cred', u)
    BY DEF RowsAndFilesAgree, Agrees
  <2>1. CASE InTx(p)
    BY <2>1
  <2>2. CASE ~InTx(p)
    <3>1. \A q \in Proc : ~InTx(q)
      BY <2>2 DEF InTx
    <3> QED
      BY <2>2, <3>1 DEF FilesKept, RowsAndFilesAgree, Agrees
  <2> QED
    BY <2>1, <2>2
<1> QED
  BY <1>2, <1>3 DEF FilesKept

\* The steps that change neither the document nor a file.
LEMMA FilesQuietStep ==
    ASSUME TypeOK, HoldsLock, FilesKept, NEW p \in Proc,
           \/ Begin(p) \/ TakeLock(p) \/ GiveUp(p) \/ Load(p) \/ LoadFails(p)
           \/ FnReturns(p) \/ SaveFails(p) \/ CloseCommitted(p) \/ CloseFailed(p)
           \/ Release(p) \/ Probe(p) \/ ListFiles(p) \/ Judge(p) \/ Reversed(p)
    PROVE  FilesKept'
<1> USE StoreAssumption
<1> USE DEF TypeOK, Goto
<1>1. UNCHANGED <<doc, cred, residue>>
  BY DEF Begin, TakeLock, GiveUp, Load, LoadFails, FnReturns, SaveFails, CloseCommitted, CloseFailed,
         Release, Probe, ListFiles, Judge, Reversed, disk, history
<1>2. \A q \in Proc \ {p} : pc'[q] = pc[q]
  BY DEF Begin, TakeLock, GiveUp, Load, LoadFails, FnReturns, SaveFails, CloseCommitted, CloseFailed,
         Release, Probe, ListFiles, Judge, Reversed
<1>3. \A q \in Proc \ {p} : mem'[q] = mem[q] /\ undo'[q] = undo[q]
  BY DEF Begin, TakeLock, GiveUp, Load, LoadFails, FnReturns, SaveFails, CloseCommitted, CloseFailed,
         Release, Probe, ListFiles, Judge, Reversed, Forget
<1>4. JournalRestores(p)
  BY DEF FilesKept
<1>5. JournalRestores(p)' /\ (InTx(p) => InTx(p)' \/ \A u \in Uuid \ residue' : Agrees(doc', cred', u))
  <2>1. CASE Begin(p) \/ GiveUp(p) \/ Probe(p) \/ ListFiles(p) \/ Judge(p)
    <3>1. pc[p] \in {"idle", "acquire", "ls", "judge"} /\ pc'[p] \in {"idle", "acquire", "ls", "judge"}
          /\ undo'[p] = undo[p]
      BY <2>1 DEF Begin, GiveUp, Probe, ListFiles, Judge
    <3> QED
      BY <3>1, <1>4 DEF JournalRestores, InTx
  <2>2. CASE TakeLock(p)
    <3>1. pc[p] = "acquire" /\ pc'[p] = "load" /\ undo' = undo
      BY <2>2 DEF TakeLock
    <3>2. \A q \in Proc : ~InTx(q)
      BY <2>2 DEF TakeLock, HoldsLock
    <3> QED
      BY <1>1, <1>4, <3>1, <3>2 DEF JournalRestores, FilesKept, RowsAndFilesAgree, Agrees, InTx
  <2>3. CASE Load(p)
    <3>1. pc[p] = "load" /\ pc'[p] = "fn" /\ undo' = undo /\ mem'[p] = doc
      BY <2>3 DEF Load
    <3> QED
      BY <1>1, <1>4, <3>1, EmptyRestores DEF JournalRestores, InTx
  <2>4. CASE LoadFails(p) \/ CloseFailed(p)
    <3>1. pc[p] \in {"load", "close"} /\ pc'[p] \in {"close", "release"} /\ undo' = undo
      BY <2>4 DEF LoadFails, CloseFailed
    <3> QED
      BY <1>1, <1>4, <3>1 DEF JournalRestores, InTx
  <2>5. CASE FnReturns(p) \/ SaveFails(p)
    <3>1. pc[p] \in {"fn", "save"} /\ pc'[p] \in {"save", "rollback"} /\ undo' = undo /\ mem' = mem
      BY <2>5 DEF FnReturns, SaveFails
    <3> QED
      BY <1>1, <1>4, <3>1 DEF JournalRestores, InTx
  <2>6. CASE CloseCommitted(p)
    <3>1. pc[p] = "committed" /\ pc'[p] = "release" /\ undo'[p] = <<>>
      BY <2>6 DEF CloseCommitted
    <3> QED
      BY <1>1, <1>4, <3>1 DEF JournalRestores, InTx
  <2>7. CASE Release(p)
    <3>1. pc[p] = "release" /\ pc'[p] = "idle" /\ undo' = undo
      BY <2>7 DEF Release
    <3> QED
      BY <1>1, <1>4, <3>1 DEF JournalRestores, InTx
  <2>8. CASE Reversed(p)
    <3>1. pc[p] = "rollback" /\ pc'[p] = "close" /\ undo' = undo /\ undo[p] = <<>>
      BY <2>8 DEF Reversed
    <3> QED
      BY <1>1, <1>4, <3>1, EmptyRestores DEF JournalRestores, InTx
  <2> QED
    BY <2>1, <2>2, <2>3, <2>4, <2>5, <2>6, <2>7, <2>8
<1> QED
  BY <1>1, <1>2, <1>3, <1>5, FilesStepOf

\* The operations of a callback, and the one that fails halfway: every change
\* to a file is journaled first, and memory follows.
LEMMA FilesCallbackStep ==
    ASSUME TypeOK, HoldsLock, FilesKept, NEW p \in Proc, Callback(p) \/ FnFails(p)
    PROVE  FilesKept'
<1> USE StoreAssumption
<1> USE DEF TypeOK, Goto
<1>1. pc[p] = "fn" /\ InTx(p) /\ UNCHANGED <<doc, residue>>
  BY DEF Callback, InCallback, Add, SetCredentials, Remove, SetField, SetActive, FnFails, InTx,
         disk, history
<1>2. \A q \in Proc \ {p} : pc'[q] = pc[q] /\ mem'[q] = mem[q] /\ undo'[q] = undo[q]
  BY ZenonT(60) DEF Callback, Add, SetCredentials, WriteCredentials, Remove, SetField, SetActive, FnFails
<1>3. \A u \in Uuid \ residue : Restores(doc, cred, undo[p], u) /\ Agrees(mem[p], cred, u)
  BY <1>1 DEF FilesKept, JournalRestores
<1>4. mem[p] \in Document /\ undo[p] \in Seq(Undo) /\ cred \in [Uuid -> Blob \cup {NoFile}]
  OBVIOUS
<1>5. \A u \in Uuid, b \in Blob \cup {NoFile} : [uuid |-> u, prior |-> b] \in Undo
  BY DEF Undo
<1> HIDE DEF TypeOK
\* What a journaled change of u's file to b leaves to be restored.
<1>6. ASSUME NEW u \in Uuid, NEW b, NEW s,
             cred' = [cred EXCEPT ![u] = b],
             \/ s = Append(undo[p], [uuid |-> u, prior |-> cred[u]])
             \/ s = undo[p] /\ (cred[u] # NoFile <=> b # NoFile)
      PROVE  \A v \in Uuid \ residue : Restores(doc, cred', s, v)
  <2> SUFFICES ASSUME NEW v \in Uuid \ residue PROVE Restores(doc, cred', s, v)
    OBVIOUS
  <2>1. cred'[v] = IF v = u THEN b ELSE cred[v]
    BY <1>4, <1>6
  <2>2. CASE s = undo[p] /\ (cred[u] # NoFile <=> b # NoFile)
    <3>1. cred'[v] # NoFile <=> cred[v] # NoFile
      BY <2>1, <2>2
    <3> QED
      BY <1>3, <2>2, <3>1 DEF Restores
  <2>3. CASE s = Append(undo[p], [uuid |-> u, prior |-> cred[u]])
    <3> DEFINE e == [uuid |-> u, prior |-> cred[u]]
    <3>1. e \in Undo /\ e.uuid = u /\ e.prior = cred[u]
      BY <1>4, <1>5
    <3>2. e.uuid = v => (e.prior # NoFile <=> cred[v] # NoFile)
      BY <3>1
    <3>3. e.uuid # v => cred'[v] = cred[v]
      BY <2>1, <3>1
    <3> HIDE DEF e
    <3> QED
      BY <1>3, <1>4, <2>3, <3>1, <3>2, <3>3, AppendRestores DEF e
  <2> QED
    BY <1>6, <2>2, <2>3
\* writeCredentials and remove journal exactly that.
<1>7. \A u \in Uuid, b \in Blob :
        \/ Journal(p, u) = Append(undo[p], [uuid |-> u, prior |-> cred[u]])
        \/ Journal(p, u) = undo[p] /\ (cred[u] # NoFile <=> b # NoFile)
  BY StoreAssumption DEF Journal
<1>8. \A u \in Uuid :
        \/ JournalContent(p, u) = Append(undo[p], [uuid |-> u, prior |-> cred[u]])
        \/ JournalContent(p, u) = undo[p] /\ (cred[u] # NoFile <=> NoFile # NoFile)
  BY DEF JournalContent
<1>9. JournalRestores(p)'
  <2>1. ASSUME NEW u \in Uuid, NEW b \in Blob, Add(p, u, b)
        PROVE  JournalRestores(p)'
    <3>1. /\ pc' = pc /\ cred' = [cred EXCEPT ![u] = b] /\ undo'[p] = Journal(p, u)
          /\ mem'[p] = [mem[p] EXCEPT !.rows[u] = IF Named(mem[p], u) THEN @ ELSE Fresh]
      BY <2>1 DEF Add, WriteCredentials, TypeOK
    <3>2. \A v \in Uuid \ residue : Restores(doc, cred', undo'[p], v)
      BY <1>6, <1>7, <3>1
    <3>3. \A v \in Uuid \ residue : Agrees(mem'[p], cred', v)
      BY <1>3, <1>4, <3>1 DEF Agrees, Named, Document
    <3> QED
      BY <1>1, <3>1, <3>2, <3>3 DEF JournalRestores
  <2>2. ASSUME NEW u \in Uuid, NEW b \in Blob, SetCredentials(p, u, b)
        PROVE  JournalRestores(p)'
    <3>1. /\ pc' = pc /\ cred' = [cred EXCEPT ![u] = b] /\ undo'[p] = Journal(p, u)
          /\ mem' = mem /\ Named(mem[p], u)
      BY <2>2 DEF SetCredentials, WriteCredentials, TypeOK
    <3>2. \A v \in Uuid \ residue : Restores(doc, cred', undo'[p], v)
      BY <1>6, <1>7, <3>1
    <3>3. \A v \in Uuid \ residue : Agrees(mem'[p], cred', v)
      BY <1>3, <1>4, <3>1 DEF Agrees
    <3> QED
      BY <1>1, <3>1, <3>2, <3>3 DEF JournalRestores
  <2>3. ASSUME NEW u \in Uuid, Remove(p, u)
        PROVE  JournalRestores(p)'
    <3>1. /\ pc' = pc /\ cred' = [cred EXCEPT ![u] = NoFile] /\ undo'[p] = JournalContent(p, u)
          /\ mem'[p] = [mem[p] EXCEPT !.rows[u] = NoRow, !.active = IF @ = u THEN NoUuid ELSE @]
      BY <2>3 DEF Remove, TypeOK
    <3>2. \A v \in Uuid \ residue : Restores(doc, cred', undo'[p], v)
      BY <1>6, <1>8, <3>1
    <3>3. \A v \in Uuid \ residue : Agrees(mem'[p], cred', v)
      BY <1>3, <1>4, <3>1 DEF Agrees, Named, Document
    <3> QED
      BY <1>1, <3>1, <3>2, <3>3 DEF JournalRestores
  <2>4. ASSUME NEW u \in Uuid, NEW s \in Setting, SetField(p, u, s)
        PROVE  JournalRestores(p)'
    <3>1. /\ pc' = pc /\ cred' = cred /\ undo' = undo /\ Named(mem[p], u)
          /\ mem'[p] = [mem[p] EXCEPT !.rows[u] = s]
      BY <2>4 DEF SetField, TypeOK, disk
    <3>2. \A v \in Uuid \ residue : Agrees(mem'[p], cred', v)
      BY <1>3, <1>4, <3>1 DEF Agrees, Named, Document
    <3> QED
      BY <1>1, <1>3, <3>1, <3>2 DEF JournalRestores
  <2>5. ASSUME NEW u \in Uuid, SetActive(p, u)
        PROVE  JournalRestores(p)'
    <3>1. pc' = pc /\ cred' = cred /\ undo' = undo /\ mem'[p] = [mem[p] EXCEPT !.active = u]
      BY <2>5 DEF SetActive, TypeOK, disk
    <3>2. mem'[p].rows = mem[p].rows
      BY <1>4, <3>1 DEF Document
    <3> QED
      BY <1>1, <1>3, <3>1, <3>2 DEF JournalRestores, Agrees, Named
  <2>6. CASE FnFails(p)
    <3>1. pc'[p] = "rollback" /\ cred' = cred
      BY <2>6 DEF FnFails, TypeOK, disk
    <3>2. CASE undo' = undo
      BY <1>1, <1>3, <3>1, <3>2 DEF JournalRestores
    <3>3. ASSUME NEW u \in Uuid, undo' = [undo EXCEPT ![p] = Journal(p, u)]
          PROVE  JournalRestores(p)'
      <4>1. undo'[p] = Journal(p, u)
        BY <3>3 DEF TypeOK
      <4>2. cred' = [cred EXCEPT ![u] = cred[u]]
        BY <1>4, <3>1
      <4>3. \/ undo'[p] = Append(undo[p], [uuid |-> u, prior |-> cred[u]])
            \/ undo'[p] = undo[p] /\ (cred[u] # NoFile <=> cred[u] # NoFile)
        BY <4>1 DEF Journal
      <4>4. \A v \in Uuid \ residue : Restores(doc, cred', undo'[p], v)
        BY <1>6, <4>2, <4>3
      <4> QED
        BY <1>1, <3>1, <4>4 DEF JournalRestores
    <3> QED
      BY <2>6, <3>2, <3>3 DEF FnFails
  <2> QED
    BY <2>1, <2>2, <2>3, <2>4, <2>5, <2>6 DEF Callback
<1>10. InTx(p)'
  BY <1>1 DEF Callback, Add, SetCredentials, Remove, SetField, SetActive, FnFails, InTx, TypeOK
<1> QED
  BY <1>1, <1>2, <1>9, <1>10, FilesStepOf

\* The commit: memory, which agreed with the files, becomes the document.
LEMMA FilesSaveStep ==
    ASSUME TypeOK, HoldsLock, FilesKept, NEW p \in Proc, Save(p)
    PROVE  FilesKept'
<1>1. /\ pc[p] = "save" /\ pc'[p] = "committed" /\ InTx(p) /\ InTx(p)'
      /\ doc' = mem[p] /\ cred' = cred /\ residue' = residue
      /\ \A q \in Proc \ {p} : pc'[q] = pc[q] /\ mem'[q] = mem[q] /\ undo'[q] = undo[q]
  BY DEF Save, Goto, InTx, TypeOK
<1>2. \A u \in Uuid \ residue : Agrees(mem[p], cred, u)
  BY <1>1 DEF FilesKept, JournalRestores
<1>3. JournalRestores(p)'
  BY <1>1, <1>2 DEF JournalRestores
<1> QED
  BY <1>1, <1>3, FilesStepOf

\* One entry of the journal is replayed, or is refused and named in residue.
LEMMA FilesReverseStep ==
    ASSUME TypeOK, HoldsLock, FilesKept, NEW p \in Proc, Reverse(p)
    PROVE  FilesKept'
<1> DEFINE s == undo[p]
           e == s[Len(s)]
<1>1. /\ pc[p] = "rollback" /\ pc' = pc /\ mem' = mem /\ doc' = doc
      /\ s \in Seq(Undo) /\ s # <<>> /\ undo' = [undo EXCEPT ![p] = SubSeq(s, 1, Len(s) - 1)]
      /\ \/ cred' = [cred EXCEPT ![e.uuid] = e.prior] /\ residue' = residue
         \/ cred' = cred /\ residue' = residue \cup {e.uuid}
  BY DEF Reverse, TypeOK
<1>2. InTx(p) /\ InTx(p)'
  BY <1>1 DEF InTx
<1>3. \A q \in Proc \ {p} : undo'[q] = undo[q]
  BY <1>1 DEF TypeOK
<1>4. undo'[p] = SubSeq(s, 1, Len(s) - 1)
  BY <1>1 DEF TypeOK
<1>5. ASSUME NEW u \in Uuid \ residue'
      PROVE  Restores(doc, cred', undo'[p], u)
  <2>1. u \in Uuid \ residue /\ Restores(doc, cred, s, u)
    BY <1>1, <1>5 DEF FilesKept, JournalRestores
  <2>2. (e.uuid # u => cred'[u] = cred[u]) /\ (e.uuid = u => cred'[u] = e.prior)
    BY <1>1, <1>5, <2>1 DEF TypeOK
  <2> QED
    BY <1>1, <1>4, <2>1, <2>2, PopRestores
<1>6. JournalRestores(p)'
  BY <1>1, <1>5 DEF JournalRestores
<1> QED
  BY <1>1, <1>2, <1>3, <1>6, FilesStepOf

\* A process dies: past its save it had nothing to take back, and before it
\* every file its journal names is residue.
LEMMA FilesDieStep ==
    ASSUME TypeOK, HoldsLock, SignalsKept, FilesKept, NEW p \in Proc, Die(p)
    PROVE  FilesKept'
<1>1. /\ pc'[p] = "idle" /\ undo'[p] = <<>> /\ UNCHANGED <<doc, cred>>
      /\ \A q \in Proc \ {p} : pc'[q] = pc[q] /\ mem'[q] = mem[q] /\ undo'[q] = undo[q]
  BY DEF Die, Forget, disk, TypeOK
<1>2. residue' = IF landed[p] THEN residue ELSE residue \cup {undo[p][i].uuid : i \in DOMAIN undo[p]}
  BY DEF Die
<1>3. JournalRestores(p)'
  BY <1>1 DEF JournalRestores
<1>4. ASSUME NEW u \in Uuid \ residue', InTx(p)
      PROVE  Agrees(doc, cred, u)
  <2>1. u \in Uuid \ residue /\ JournalRestores(p)
    BY <1>2 DEF FilesKept
  <2>2. CASE pc[p] \in {"load", "committed", "close", "release"}
    BY <2>1, <2>2 DEF JournalRestores
  <2>3. CASE pc[p] \in {"fn", "save", "rollback"}
    <3>1. ~landed[p]
      BY <2>3 DEF SignalsKept
    <3>2. undo[p] \in Seq(Undo)
      BY DEF TypeOK
    <3>3. \A i \in 1..Len(undo[p]) : undo[p][i].uuid # u
      BY <1>2, <3>1, <3>2
    <3> QED
      BY <2>1, <2>3, <3>3 DEF JournalRestores, Restores, Agrees
  <2> QED
    BY <1>4, <2>2, <2>3 DEF InTx
<1>5. ~InTx(p) => residue' = residue
  <2>1. ~InTx(p) => undo[p] = <<>>
    BY DEF FilesKept, JournalRestores, InTx
  <2> QED
    BY <1>2, <2>1
<1> QED
  BY <1>1, <1>3, <1>4, <1>5, FilesStepOf

LEMMA FilesStep ==
    ASSUME TypeOK, HoldsLock, SignalsKept, FilesKept, [Next]_vars
    PROVE  FilesKept'
<1>1. CASE UNCHANGED vars
  BY <1>1 DEF vars, disk, history, FilesKept, RowsAndFilesAgree, JournalRestores, Restores, Agrees,
              Named, InTx
<1>2. ASSUME NEW p \in Proc, Interrupt(p), ~Die(p)
      PROVE  FilesKept'
  BY <1>2 DEF Interrupt, disk, history, FilesKept, RowsAndFilesAgree, JournalRestores, Restores, Agrees,
              Named, InTx
<1> QED
  BY <1>1, <1>2, FilesQuietStep, FilesCallbackStep, FilesSaveStep, FilesReverseStep, FilesDieStep
     DEF Next, Step, Crash

-----------------------------------------------------------------------------
(* Refused transactions *)

\* Content b may be what a refused transaction leaves where it found x: x itself,
\* or the transaction wrote over a file that was there.
Excused(b, x, written) == b # x => written /\ b # NoFile /\ x # NoFile

\* Replaying journal s over the credentials c leaves u what is excused.
Returns(c, s, u, x, over) ==
    /\ (\A i \in 1..Len(s) : s[i].uuid # u) => Excused(c[u], x, u \in over)
    /\ \A i \in 1..Len(s) :
         (s[i].uuid = u /\ \A j \in 1..(i - 1) : s[j].uuid # u) => Excused(s[i].prior, x, u \in over)

\* Until its save, a transaction has its document to go back to, and its journal
\* takes the files back.
Undone(p) ==
    InTx(p) /\ ~landed[p] =>
        /\ doc = start[p].doc
        /\ \A u \in Uuid \ residue : Returns(cred, undo[p], u, start[p].cred[u], wrote[p])

AllUndone == \A p \in Proc : Undone(p)

\* An entry that holds what the file held.
LEMMA AppendReturns ==
    ASSUME NEW c, NEW c2, NEW s \in Seq(Undo), NEW e \in Undo, NEW u, NEW x, NEW w, NEW w2, w \subseteq w2,
           Returns(c, s, u, x, w),
           e.uuid = u => e.prior = c[u],
           e.uuid # u => c2[u] = c[u]
    PROVE  Returns(c2, Append(s, e), u, x, w2)
<1> DEFINE t == Append(s, e)
<1>1. /\ Len(t) = Len(s) + 1 /\ Len(s) \in Nat
      /\ t[Len(s) + 1] = e
      /\ \A i \in 1..Len(s) : t[i] = s[i]
  OBVIOUS
<1> HIDE DEF t
<1>2. ASSUME \A i \in 1..Len(t) : t[i].uuid # u
      PROVE  Excused(c2[u], x, u \in w2)
  <2>1. e.uuid # u /\ \A i \in 1..Len(s) : s[i].uuid # u
    BY <1>1, <1>2
  <2> QED
    BY <2>1 DEF Returns, Excused
<1>3. ASSUME NEW i \in 1..Len(t), t[i].uuid = u, \A j \in 1..(i - 1) : t[j].uuid # u
      PROVE  Excused(t[i].prior, x, u \in w2)
  <2>1. CASE i \in 1..Len(s)
    <3>1. t[i] = s[i] /\ \A j \in 1..(i - 1) : s[j].uuid # u
      BY <1>1, <1>3, <2>1
    <3> QED
      BY <1>3, <2>1, <3>1 DEF Returns, Excused
  <2>2. CASE i = Len(s) + 1
    <3>1. t[i] = e /\ \A j \in 1..Len(s) : s[j].uuid # u
      BY <1>1, <1>3, <2>2
    <3> QED
      BY <1>3, <3>1 DEF Returns, Excused
  <2> QED
    BY <1>1, <2>1, <2>2
<1> QED
  BY <1>2, <1>3 DEF Returns, t

\* Replaying one entry, last first.
LEMMA PopReturns ==
    ASSUME NEW c, NEW c2, NEW s \in Seq(Undo), s # <<>>, NEW u, NEW x, NEW w,
           Returns(c, s, u, x, w),
           s[Len(s)].uuid # u => c2[u] = c[u],
           s[Len(s)].uuid = u => c2[u] = s[Len(s)].prior
    PROVE  Returns(c2, SubSeq(s, 1, Len(s) - 1), u, x, w)
<1> DEFINE t == SubSeq(s, 1, Len(s) - 1)
           n == Len(s)
<1>1. /\ n \in Nat \ {0} /\ Len(t) = n - 1
      /\ \A i \in 1..(n - 1) : t[i] = s[i]
  <2>1. n \in Nat \ {0}
    OBVIOUS
  <2>2. n - 1 \in 0..Len(s)
    BY <2>1
  <2> QED
    BY <2>1, <2>2, PrefixProperties
<1> HIDE DEF t
<1>2. ASSUME \A i \in 1..Len(t) : t[i].uuid # u
      PROVE  Excused(c2[u], x, u \in w)
  <2>1. \A i \in 1..(n - 1) : s[i].uuid # u
    BY <1>1, <1>2
  <2>2. CASE s[n].uuid = u
    BY <1>1, <2>1, <2>2 DEF Returns
  <2>3. CASE s[n].uuid # u
    <3>1. \A i \in 1..n : s[i].uuid # u
      BY <1>1, <2>1, <2>3
    <3> QED
      BY <2>3, <3>1 DEF Returns
  <2> QED
    BY <2>2, <2>3
<1>3. ASSUME NEW i \in 1..Len(t), t[i].uuid = u, \A j \in 1..(i - 1) : t[j].uuid # u
      PROVE  Excused(t[i].prior, x, u \in w)
  <2>1. i \in 1..(n - 1)
    BY <1>1, <1>3
  <2>2. t[i] = s[i]
    BY <1>1, <2>1
  <2>3. ASSUME NEW j \in 1..(i - 1) PROVE s[j].uuid # u
    <3>1. j \in 1..(n - 1)
      BY <1>1, <2>1
    <3>2. t[j] = s[j]
      BY <1>1, <3>1
    <3> QED
      BY <1>3, <3>2
  <2>4. i \in 1..n
    BY <1>1, <2>1
  <2> QED
    BY <1>3, <2>2, <2>3, <2>4 DEF Returns
<1> QED
  BY <1>2, <1>3 DEF Returns, t

\* A step of p leaves the others' claims: the one in a transaction is p, or p
\* changes neither the document nor a file.
LEMMA UndoneStepOf ==
    ASSUME HoldsLock, AllUndone, NEW p \in Proc,
           \A q \in Proc \ {p} : /\ pc'[q] = pc[q] /\ undo'[q] = undo[q] /\ landed'[q] = landed[q]
                                 /\ start'[q] = start[q] /\ wrote'[q] = wrote[q],
           UNCHANGED <<doc, cred>> \/ InTx(p), residue \subseteq residue',
           Undone(p)'
    PROVE  AllUndone'
<1>1. ASSUME NEW q \in Proc \ {p} PROVE Undone(q)'
  <2>1. Undone(q)
    BY DEF AllUndone
  <2>2. CASE UNCHANGED <<doc, cred>>
    BY <2>1, <2>2 DEF Undone, InTx, Returns
  <2>3. CASE InTx(p)
    BY <2>3 DEF HoldsLock, Undone, InTx
  <2> QED
    BY <2>2, <2>3
<1> QED
  BY <1>1 DEF AllUndone

\* The steps that change neither the document nor a file.
LEMMA UndoneQuietStep ==
    ASSUME TypeOK, HoldsLock, SignalsKept, FilesKept, AllUndone, NEW p \in Proc,
           \/ Begin(p) \/ TakeLock(p) \/ GiveUp(p) \/ Load(p) \/ LoadFails(p)
           \/ FnReturns(p) \/ SaveFails(p) \/ CloseCommitted(p) \/ CloseFailed(p)
           \/ Release(p) \/ Probe(p) \/ ListFiles(p) \/ Judge(p) \/ Reversed(p)
    PROVE  AllUndone'
<1> USE StoreAssumption
<1> USE DEF TypeOK, Goto
<1>1. UNCHANGED <<doc, cred, residue>>
  BY DEF Begin, TakeLock, GiveUp, Load, LoadFails, FnReturns, SaveFails, CloseCommitted, CloseFailed,
         Release, Probe, ListFiles, Judge, Reversed, disk, history
<1>2. \A q \in Proc \ {p} : pc'[q] = pc[q] /\ undo'[q] = undo[q]
  BY DEF Begin, TakeLock, GiveUp, Load, LoadFails, FnReturns, SaveFails, CloseCommitted, CloseFailed,
         Release, Probe, ListFiles, Judge, Reversed
<1>3. \A q \in Proc \ {p} : landed'[q] = landed[q] /\ start'[q] = start[q] /\ wrote'[q] = wrote[q]
  BY DEF Begin, TakeLock, GiveUp, Load, LoadFails, FnReturns, SaveFails, CloseCommitted, CloseFailed,
         Release, Probe, ListFiles, Judge, Reversed, Forget, history
<1>4. Undone(p)'
  <2>1. CASE Begin(p) \/ GiveUp(p) \/ Probe(p) \/ ListFiles(p) \/ Judge(p) \/ Release(p)
    <3>1. pc'[p] \in {"idle", "acquire", "ls", "judge"}
      BY <2>1 DEF Begin, GiveUp, Probe, ListFiles, Judge, Release
    <3> QED
      BY <3>1 DEF Undone, InTx
  <2>2. CASE TakeLock(p)
    <3>1. start'[p] = [doc |-> doc, cred |-> cred] /\ undo' = undo
      BY <2>2 DEF TakeLock
    <3>2. undo[p] = <<>>
      BY <2>2 DEF TakeLock, FilesKept, JournalRestores
    <3> QED
      BY <1>1, <3>1, <3>2 DEF Undone, Returns, Excused
  <2>3. CASE CloseCommitted(p)
    BY <2>3 DEF CloseCommitted, SignalsKept, Undone, history
  <2>4. CASE Load(p) \/ LoadFails(p) \/ FnReturns(p) \/ SaveFails(p) \/ CloseFailed(p) \/ Reversed(p)
    <3>1. /\ InTx(p) /\ undo' = undo /\ landed' = landed /\ start' = start /\ wrote' = wrote
      BY <2>4 DEF Load, LoadFails, FnReturns, SaveFails, CloseFailed, Reversed, InTx, history
    <3> QED
      BY <1>1, <3>1 DEF AllUndone, Undone, Returns
  <2> QED
    BY <2>1, <2>2, <2>3, <2>4
<1> QED
  BY <1>1, <1>2, <1>3, <1>4, UndoneStepOf

\* The operations of a callback: a file that was not there is journaled, and so
\* is one that is removed.
LEMMA UndoneCallbackStep ==
    ASSUME TypeOK, HoldsLock, SignalsKept, AllUndone, NEW p \in Proc, Callback(p) \/ FnFails(p)
    PROVE  AllUndone'
<1> USE StoreAssumption
<1> USE DEF TypeOK, Goto
<1>1. pc[p] = "fn" /\ InTx(p) /\ UNCHANGED <<doc, residue, landed, start>>
  BY DEF Callback, InCallback, Add, SetCredentials, Remove, SetField, SetActive, FnFails, InTx,
         disk, history
<1>2. \A q \in Proc \ {p} : pc'[q] = pc[q] /\ undo'[q] = undo[q] /\ wrote'[q] = wrote[q]
  BY ZenonT(60) DEF Callback, Add, SetCredentials, WriteCredentials, Remove, SetField, SetActive, FnFails,
         history
<1>3. ~landed[p] /\ doc = start[p].doc
      /\ \A u \in Uuid \ residue : Returns(cred, undo[p], u, start[p].cred[u], wrote[p])
  BY <1>1 DEF SignalsKept, AllUndone, Undone
<1>4. undo[p] \in Seq(Undo) /\ cred \in [Uuid -> Blob \cup {NoFile}]
  OBVIOUS
<1> HIDE DEF TypeOK
<1>5. ASSUME NEW u \in Uuid, NEW b, cred' = [cred EXCEPT ![u] = b],
             \/ undo'[p] = Append(undo[p], [uuid |-> u, prior |-> cred[u]]) /\ wrote[p] \subseteq wrote'[p]
             \/ /\ undo'[p] = undo[p]
                /\ \/ b = cred[u] /\ wrote'[p] = wrote[p]
                   \/ cred[u] # NoFile /\ b # NoFile /\ wrote'[p] = wrote[p] \cup {u}
      PROVE  Undone(p)'
  <2>1. ASSUME NEW v \in Uuid \ residue
        PROVE  Returns(cred', undo'[p], v, start[p].cred[v], wrote'[p])
    <3>1. cred'[v] = IF v = u THEN b ELSE cred[v]
      BY <1>4, <1>5
    <3>2. Returns(cred, undo[p], v, start[p].cred[v], wrote[p])
      BY <1>3
    <3>3. CASE undo'[p] = Append(undo[p], [uuid |-> u, prior |-> cred[u]]) /\ wrote[p] \subseteq wrote'[p]
      <4> DEFINE e == [uuid |-> u, prior |-> cred[u]]
                 w == wrote[p]
                 w2 == wrote'[p]
                 x == start[p].cred[v]
      <4>1. e \in Undo /\ e.uuid = u /\ e.prior = cred[u]
        BY <1>4 DEF Undo
      <4>2. w \subseteq w2
        BY <3>3
      <4>3. Returns(cred, undo[p], v, x, w) /\ undo'[p] = Append(undo[p], e)
        BY <3>2, <3>3
      <4>4. (e.uuid = v => e.prior = cred[v]) /\ (e.uuid # v => cred'[v] = cred[v])
        BY <3>1, <4>1
      <4> HIDE DEF e, w, w2, x
      <4>5. Returns(cred', Append(undo[p], e), v, x, w2)
        BY <1>4, <4>1, <4>2, <4>3, <4>4, AppendReturns
      <4> QED
        BY <4>3, <4>5 DEF w2, x
    <3>4. CASE undo'[p] = undo[p] /\ b = cred[u] /\ wrote'[p] = wrote[p]
      BY <3>1, <3>2, <3>4 DEF Returns
    <3>5. CASE undo'[p] = undo[p] /\ cred[u] # NoFile /\ b # NoFile /\ wrote'[p] = wrote[p] \cup {u}
      BY <3>1, <3>2, <3>5 DEF Returns, Excused
    <3> QED
      BY <1>5, <3>3, <3>4, <3>5
  <2> QED
    BY <1>1, <1>3, <2>1 DEF Undone
<1>6. ASSUME NEW u \in Uuid, NEW b \in Blob, WriteCredentials(p, u, b)
      PROVE  Undone(p)'
  <2>1. cred' = [cred EXCEPT ![u] = b] /\ undo'[p] = Journal(p, u) /\ wrote'[p] = wrote[p] \cup {u}
    BY <1>6 DEF WriteCredentials, TypeOK
  <2>2. b # NoFile
    BY StoreAssumption
  <2> QED
    BY <1>5, <2>1, <2>2 DEF Journal
<1>7. ASSUME NEW u \in Uuid, Remove(p, u)
      PROVE  Undone(p)'
  <2>1. cred' = [cred EXCEPT ![u] = NoFile] /\ undo'[p] = JournalContent(p, u) /\ wrote' = wrote
    BY <1>7 DEF Remove, TypeOK
  <2> QED
    BY <1>5, <2>1 DEF JournalContent
<1>8. ASSUME cred' = cred, undo' = undo, wrote' = wrote
      PROVE  Undone(p)'
  <2>1. ASSUME NEW u \in Uuid \ residue
        PROVE  Returns(cred', undo'[p], u, start'[p].cred[u], wrote'[p])
    <3>1. Returns(cred, undo[p], u, start[p].cred[u], wrote[p])
      BY <1>3
    <3> QED
      BY <1>1, <1>8, <3>1
  <2> QED
    BY <1>1, <1>3, <2>1 DEF Undone
<1>9. ASSUME FnFails(p), NEW u \in Uuid, undo' = [undo EXCEPT ![p] = Journal(p, u)]
      PROVE  Undone(p)'
  <2>1. undo'[p] = Journal(p, u) /\ cred' = cred /\ wrote' = wrote
    BY <1>9 DEF TypeOK, FnFails, disk, history
  <2>2. cred' = [cred EXCEPT ![u] = cred[u]]
    BY <1>4, <2>1
  <2> QED
    BY <1>5, <2>1, <2>2 DEF Journal
<1>10. ASSUME Callback(p) PROVE Undone(p)'
  <2>1. ASSUME NEW u \in Uuid, NEW s \in Setting, SetField(p, u, s)
        PROVE  cred' = cred /\ undo' = undo /\ wrote' = wrote
    BY <2>1 DEF SetField, disk
  <2>2. ASSUME NEW u \in Uuid, SetActive(p, u)
        PROVE  cred' = cred /\ undo' = undo /\ wrote' = wrote
    BY <2>2 DEF SetActive, disk
  <2>3. ASSUME NEW u \in Uuid, NEW b \in Blob, Add(p, u, b) \/ SetCredentials(p, u, b)
        PROVE  WriteCredentials(p, u, b)
    BY <2>3 DEF Add, SetCredentials
  <2> QED
    BY <1>6, <1>7, <1>8, <1>10, <2>1, <2>2, <2>3 DEF Callback
<1>11. ASSUME FnFails(p) PROVE Undone(p)'
  <2>1. cred' = cred /\ wrote' = wrote
    BY <1>11 DEF FnFails, disk, history
  <2> QED
    BY <1>8, <1>9, <1>11, <2>1 DEF FnFails
<1> QED
  BY <1>1, <1>2, <1>10, <1>11, UndoneStepOf

LEMMA UndoneReverseStep ==
    ASSUME TypeOK, HoldsLock, AllUndone, NEW p \in Proc, Reverse(p)
    PROVE  AllUndone'
<1> DEFINE s == undo[p]
           e == s[Len(s)]
<1>1. /\ pc[p] = "rollback" /\ pc' = pc /\ doc' = doc /\ landed' = landed /\ start' = start /\ wrote' = wrote
      /\ s \in Seq(Undo) /\ s # <<>> /\ undo' = [undo EXCEPT ![p] = SubSeq(s, 1, Len(s) - 1)]
      /\ \/ cred' = [cred EXCEPT ![e.uuid] = e.prior] /\ residue' = residue
         \/ cred' = cred /\ residue' = residue \cup {e.uuid}
  BY DEF Reverse, TypeOK
<1>2. InTx(p) /\ residue \subseteq residue'
  BY <1>1 DEF InTx
<1>3. undo'[p] = SubSeq(s, 1, Len(s) - 1) /\ \A q \in Proc \ {p} : undo'[q] = undo[q]
  BY <1>1 DEF TypeOK
<1>4. ASSUME NEW u \in Uuid \ residue', ~landed[p]
      PROVE  Returns(cred', undo'[p], u, start[p].cred[u], wrote[p])
  <2>1. u \in Uuid \ residue /\ Returns(cred, s, u, start[p].cred[u], wrote[p])
    BY <1>2, <1>4 DEF AllUndone, Undone
  <2>2. (e.uuid # u => cred'[u] = cred[u]) /\ (e.uuid = u => cred'[u] = e.prior)
    BY <1>1, <1>4, <2>1 DEF TypeOK
  <2> QED
    BY <1>1, <1>3, <2>1, <2>2, PopReturns
<1>5. Undone(p)'
  BY <1>1, <1>2, <1>4 DEF AllUndone, Undone
<1> QED
  BY <1>1, <1>2, <1>3, <1>5, UndoneStepOf

LEMMA UndoneStep ==
    ASSUME TypeOK, HoldsLock, SignalsKept, FilesKept, AllUndone, [Next]_vars
    PROVE  AllUndone'
<1>1. CASE UNCHANGED vars
  BY <1>1 DEF vars, disk, history, AllUndone, Undone, Returns, InTx
<1>2. ASSUME NEW p \in Proc, Save(p)
      PROVE  AllUndone'
  <2>1. /\ InTx(p) /\ landed'[p] /\ residue' = residue
        /\ \A q \in Proc \ {p} : /\ pc'[q] = pc[q] /\ undo'[q] = undo[q] /\ landed'[q] = landed[q]
                                 /\ start'[q] = start[q] /\ wrote'[q] = wrote[q]
    BY <1>2 DEF Save, Goto, InTx, TypeOK
  <2>2. Undone(p)'
    BY <2>1 DEF Undone
  <2> QED
    BY <2>1, <2>2, UndoneStepOf
<1>3. ASSUME NEW p \in Proc, Die(p)
      PROVE  AllUndone'
  <2>1. /\ pc'[p] = "idle" /\ UNCHANGED <<doc, cred>> /\ residue \subseteq residue'
        /\ \A q \in Proc \ {p} : /\ pc'[q] = pc[q] /\ undo'[q] = undo[q] /\ landed'[q] = landed[q]
                                 /\ start'[q] = start[q] /\ wrote'[q] = wrote[q]
    BY <1>3 DEF Die, Forget, disk, TypeOK
  <2>2. Undone(p)'
    BY <2>1 DEF Undone, InTx
  <2> QED
    BY <2>1, <2>2, UndoneStepOf
<1>4. ASSUME NEW p \in Proc, Interrupt(p), ~Die(p)
      PROVE  AllUndone'
  BY <1>4 DEF Interrupt, disk, AllUndone, Undone, Returns, InTx
<1> QED
  BY <1>1, <1>2, <1>3, <1>4, UndoneQuietStep, UndoneCallbackStep, UndoneReverseStep
     DEF Next, Step, Crash

IInv == TypeOK /\ HoldsLock /\ MemoryIsCurrent /\ SignalsKept /\ FilesKept /\ AllUndone

LEMMA Inductive == Spec => []IInv
<1>1. Init => IInv
  <2> SUFFICES ASSUME Init PROVE IInv
    OBVIOUS
  <2>1. TypeOK
    BY InitTypeOK
  <2>2. HoldsLock /\ MemoryIsCurrent /\ SignalsKept
    BY DEF Init, HoldsLock, InTx, MemoryIsCurrent, SignalsKept, Answer
  <2>3. FilesKept
    BY DEF Init, EmptyDoc, FilesKept, RowsAndFilesAgree, JournalRestores, InTx, Named
  <2>4. AllUndone
    BY DEF Init, AllUndone, Undone, InTx
  <2> QED
    BY <2>1, <2>2, <2>3, <2>4 DEF IInv
<1>2. IInv /\ [Next]_vars => IInv'
  BY TypeStep, LockStep, MemoryStep, SignalStep, FilesStep, UndoneStep DEF IInv
<1> QED
  BY <1>1, <1>2, PTL DEF Spec

-----------------------------------------------------------------------------
(* Theorems *)

\* Every variable of the store's transactions keeps its type: in particular a
\* journal is always a sequence of reversals of files.
THEOREM StoreTypeOK == Spec => []TypeOK
BY Inductive, PTL DEF IInv

\* Two processes that each change accounts.toml never lose one of the changes,
\* however many processes there are (lock.go's reason for the lock).
THEOREM StoreNoLostUpdate == Spec => NoLostUpdate
<1>1. IInv => [\A p \in Proc : Save(p) =>
                 /\ \A u \in Uuid \ touched[p] : doc'.rows[u] = doc.rows[u]
                 /\ NoUuid \notin touched[p] => doc'.active = doc.active]_vars
  BY DEF IInv, MemoryIsCurrent, Save, Goto
<1> QED
  BY <1>1, Inductive, PTL DEF NoLostUpdate

\* A credential file doctor reports as an orphan is in no transaction's hands.
THEOREM StoreOrphansAreNobodys == Spec => OrphansAreNobodys
<1>1. ASSUME IInv, NEW p \in Proc, Judge(p), NEW q \in Proc
      PROVE  ~InTx(q)
  BY <1>1 DEF IInv, HoldsLock, InTx, Judge, Goto, TypeOK
<1>2. IInv => [\A p \in Proc : Judge(p) =>
                 \A u \in Orphans(p), q \in Proc : InTx(q) => ~Named(mem[q], u)]_vars
  BY <1>1
<1> QED
  BY <1>2, Inductive, PTL DEF OrphansAreNobodys

\* No signal is lost in a transaction, and its message never claims the wrong
\* side of the commit (interrupt.go).
THEOREM StoreInterruptsAreAnswered == Spec => []InterruptsAreAnswered
<1>1. IInv => InterruptsAreAnswered
  BY DEF IInv, SignalsKept, Answer, InterruptsAreAnswered
<1> QED
  BY <1>1, Inductive, PTL

\* Between transactions every row has its credential file and every file its
\* row, but for what a crash or a refused reversal left (residue).
THEOREM StoreRowsAndFilesAgree == Spec => []RowsAndFilesAgree
<1>1. IInv => RowsAndFilesAgree
  BY DEF IInv, FilesKept
<1> QED
  BY <1>1, Inductive, PTL

\* A refused transaction, or one a signal ended, leaves the document it found and
\* every file it found, but for those it wrote over (WithStore's contract).
THEOREM StoreRefusedIsReversed == Spec => []RefusedIsReversed
<1>1. ASSUME IInv PROVE RefusedIsReversed
  <2>1. ASSUME NEW p \in Proc, pc[p] = "release", ~landed[p]
        PROVE  /\ doc = start[p].doc
               /\ \A u \in Uuid \ residue : Excused(cred[u], start[p].cred[u], u \in wrote[p])
    <3>1. Undone(p) /\ undo[p] = <<>>
      BY <1>1, <2>1 DEF IInv, AllUndone, FilesKept, JournalRestores
    <3> QED
      BY <2>1, <3>1 DEF Undone, InTx, Returns
  <2> QED
    BY <2>1 DEF RefusedIsReversed, Excused
<1> QED
  BY <1>1, Inductive, PTL
=============================================================================
