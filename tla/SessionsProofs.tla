--------------------------- MODULE SessionsProofs ---------------------------
(***************************************************************************)
(* What is proved of Sessions for any number of sessions, exchanges, logins *)
(* and failures.                                                            *)
(***************************************************************************)
EXTENDS Sessions, TLAPS

-----------------------------------------------------------------------------
(* The inductive invariant *)

Homes == Sess \cup {Profile}

\* No grant is numbered past the last one minted.
Numbered ==
    /\ stored <= minted /\ \A g \in honoured : g <= minted
    /\ \A h \in Homes : home[h] \in Grant => home[h] <= minted

\* What a session is seeded with was stored once; what it carries back is what
\* its own home holds.
Carried ==
    \A i \in Sess :
        /\ s[i].pc = "read" => s[i].held \in Grant /\ s[i].held <= stored
        /\ s[i].pc = "back" => s[i].held \in Grant /\ s[i].held <= minted
        /\ s[i].pc = "back" /\ s[i].mode = "own" => home[i] = s[i].held

\* A grant that is in two homes was stored once, and the store moves forward.
Single ==
    \A g, h \in Homes : g # h /\ home[g] = home[h] /\ home[g] \in Grant => home[g] <= stored

\* So a grant that was spent under a home is no later than the stored one.
Outrun == \A h \in Homes : home[h] \in Grant /\ home[h] \notin honoured => home[h] <= stored

\* A home that is about to be removed holds nothing of its own.
Settled ==
    \A i \in Sess : s[i].pc = "adopted" /\ s[i].mode = "own" /\ home[i] \in honoured
        => home[i] = stored \/ home[i] \in forgone

IInv == SessionsTypeOK /\ Numbered /\ Carried /\ Single /\ Outrun /\ Settled /\ SessionGrantKept

-----------------------------------------------------------------------------

\* A session's record.
Job == [pc : {"idle", "read", "running", "ended", "back", "adopted"},
        mode : Modes \cup {"own"}, held : Record]

LEMMA InitHolds == ASSUME SessionsInit PROVE IInv
<1>1. SessionsTypeOK
  <2>1. 0 \in Grant /\ 0 \in 0..MaxMishaps
    BY SessionsAssumption DEF Grant
  <2>2. NoRun \in Job
    BY DEF NoRun, Job, Record
  <2> QED
    BY <2>1, <2>2 DEF SessionsInit, SessionsTypeOK, Job, Record
<1>2. Numbered /\ Single /\ Outrun
  BY SessionsAssumption DEF SessionsInit, Numbered, Single, Outrun, Homes, Grant
<1>3. Carried /\ Settled
  BY DEF SessionsInit, Carried, Settled, NoRun
<1>4. SessionGrantKept
  BY DEF SessionsInit, SessionGrantKept, Held
<1> QED
  BY <1>1, <1>2, <1>3, <1>4 DEF IInv

LEMMA BeginKeeps == ASSUME IInv, NEW i \in Sess, NEW mode \in Modes, Begin(i, mode) PROVE IInv'
<1>0. SessionsTypeOK /\ Numbered /\ Carried /\ Single /\ Outrun /\ Settled /\ SessionGrantKept
  BY DEF IInv
<1>1. SessionsTypeOK'
  BY <1>0 DEF Begin, SessionsTypeOK, Record
<1>2. Numbered'
  BY <1>0 DEF Begin, Numbered
<1>3. Carried'
  BY <1>0 DEF Begin, SessionsTypeOK, Carried, Grant
<1>4. Single'
  BY <1>0 DEF Begin, Single
<1>5. Outrun'
  BY <1>0 DEF Begin, Outrun
<1>6. Settled'
  BY <1>0 DEF Begin, Settled
<1>7. SessionGrantKept'
  BY <1>0 DEF Begin, SessionGrantKept, Held
<1> QED
  BY <1>1, <1>2, <1>3, <1>4, <1>5, <1>6, <1>7 DEF IInv

LEMMA SeedKeeps == ASSUME IInv, NEW i \in Sess, Seed(i) PROVE IInv'
<1>0. SessionsTypeOK /\ Numbered /\ Carried /\ Single /\ Outrun /\ Settled /\ SessionGrantKept
  BY DEF IInv
<1>1. SessionsTypeOK'
  BY <1>0 DEF Seed, SessionsTypeOK, Home
<1>2. Numbered'
  BY <1>0 DEF Seed, SessionsTypeOK, Numbered, Carried, Grant
<1>3. Carried'
  BY SessionsAssumption, <1>0 DEF Seed, Carried, Home
<1>4. Single'
  BY <1>0 DEF Seed, Carried, Single
<1>5. Outrun'
  BY <1>0 DEF Seed, Carried, Outrun
<1>6. Settled'
  BY SessionsAssumption, <1>0 DEF Seed, Settled, Home
<1>7. SessionGrantKept'
  BY <1>0 DEF Seed, SessionGrantKept, Held
<1> QED
  BY <1>1, <1>2, <1>3, <1>4, <1>5, <1>6, <1>7 DEF IInv

LEMMA SeedFailsKeeps == ASSUME IInv, NEW i \in Sess, SeedFails(i) PROVE IInv'
<1>0. SessionsTypeOK /\ Numbered /\ Carried /\ Single /\ Outrun /\ Settled /\ SessionGrantKept
  BY DEF IInv
<1>1. SessionsTypeOK'
  BY SessionsAssumption, <1>0 DEF SeedFails, Mishap, SessionsTypeOK
<1>2. Numbered'
  BY <1>0 DEF SeedFails, Numbered
<1>3. Carried'
  BY <1>0 DEF SeedFails, Carried
<1>4. Single'
  BY <1>0 DEF SeedFails, Single
<1>5. Outrun'
  BY <1>0 DEF SeedFails, Outrun
<1>6. Settled'
  BY <1>0 DEF SeedFails, Settled
<1>7. SessionGrantKept'
  BY <1>0 DEF SeedFails, SessionGrantKept, Held
<1> QED
  BY <1>1, <1>2, <1>3, <1>4, <1>5, <1>6, <1>7 DEF IInv

LEMMA RotateKeeps == ASSUME IInv, NEW h \in Homes, Rotate(h) PROVE IInv'
<1>0. SessionsTypeOK /\ Numbered /\ Carried /\ Single /\ Outrun /\ Settled /\ SessionGrantKept
  BY DEF IInv
<1>1. SessionsTypeOK'
  BY SessionsAssumption, <1>0 DEF Rotate, Mint, SessionsTypeOK, Grant, Record
<1>2. Numbered'
  BY SessionsAssumption, <1>0 DEF Rotate, Mint, SessionsTypeOK, Numbered, Homes, Grant
<1>3. Carried'
  BY SessionsAssumption, <1>0 DEF Rotate, Mint, SessionsTypeOK, Carried, Home, Grant
<1>4. Single'
  BY SessionsAssumption, <1>0 DEF Rotate, Mint, SessionsTypeOK, Numbered, Single, Homes, Grant
<1>5. Outrun'
  BY SessionsAssumption, <1>0 DEF Rotate, SessionsTypeOK, Single, Outrun, Homes, Grant
<1>6. Settled'
  BY SessionsAssumption, <1>0 DEF Rotate, Mint, SessionsTypeOK, Numbered, Settled, Homes, Home, Grant
<1>7. SessionGrantKept'
  BY <1>0 DEF Rotate, SessionsTypeOK, SessionGrantKept, Held, Home
<1> QED
  BY <1>1, <1>2, <1>3, <1>4, <1>5, <1>6, <1>7 DEF IInv

LEMMA EndKeeps == ASSUME IInv, NEW i \in Sess, End(i) PROVE IInv'
<1>0. SessionsTypeOK /\ Numbered /\ Carried /\ Single /\ Outrun /\ Settled /\ SessionGrantKept
  BY DEF IInv
<1>1. SessionsTypeOK'
  BY <1>0 DEF End, SessionsTypeOK
<1>2. Numbered'
  BY <1>0 DEF End, Numbered
<1>3. Carried'
  BY <1>0 DEF End, Carried
<1>4. Single'
  BY <1>0 DEF End, Single
<1>5. Outrun'
  BY <1>0 DEF End, Outrun
<1>6. Settled'
  BY <1>0 DEF End, Settled
<1>7. SessionGrantKept'
  BY <1>0 DEF End, SessionGrantKept, Held
<1> QED
  BY <1>1, <1>2, <1>3, <1>4, <1>5, <1>6, <1>7 DEF IInv

LEMMA ReadBackKeeps == ASSUME IInv, NEW i \in Sess, ReadBack(i) PROVE IInv'
<1>0. SessionsTypeOK /\ Numbered /\ Carried /\ Single /\ Outrun /\ Settled /\ SessionGrantKept
  BY DEF IInv
<1>1. SessionsTypeOK'
  <2>1. s[i] \in Job /\ home[Home(i)] \in Record /\ NoFile \in Record
    BY <1>0 DEF SessionsTypeOK, Job, Home, Record
  <2>2. [s[i] EXCEPT !.pc = "back", !.held = home[Home(i)]] \in Job
    BY <2>1 DEF Job
  <2>3. [s[i] EXCEPT !.pc = "adopted", !.held = NoFile] \in Job
    BY <2>1 DEF Job
  <2>4. s' \in [Sess -> Job]
    BY <1>0, <2>2, <2>3 DEF ReadBack, Finish, SessionsTypeOK, Job
  <2> QED
    BY <1>0, <2>4 DEF ReadBack, SessionsTypeOK, Job
<1>2. Numbered'
  BY <1>0 DEF ReadBack, Numbered
<1>3. Carried'
  <2>1. \/ s' = [s EXCEPT ![i] = [s[i] EXCEPT !.pc = "back", !.held = home[Home(i)]]] /\ home[Home(i)] \in Grant
        \/ s' = [s EXCEPT ![i] = [s[i] EXCEPT !.pc = "adopted", !.held = NoFile]]
    BY DEF ReadBack, Finish, CarriesGrant
  <2>2. UNCHANGED <<stored, minted, home>>
    BY DEF ReadBack
  <2>3. Home(i) \in Homes /\ (s[i].mode = "own" => Home(i) = i)
    BY DEF Home, Homes
  <2>4. /\ s'[i].pc \in {"back", "adopted"} /\ s'[i].mode = s[i].mode
        /\ s'[i].pc = "back" => s'[i].held = home[Home(i)] /\ home[Home(i)] \in Grant
        /\ \A j \in Sess \ {i} : s'[j] = s[j]
    <3>1. s \in [Sess -> Job]
      BY <1>0 DEF SessionsTypeOK, Job
    <3>2. CASE s' = [s EXCEPT ![i] = [s[i] EXCEPT !.pc = "back", !.held = home[Home(i)]]] /\ home[Home(i)] \in Grant
      BY <3>1, <3>2 DEF Job
    <3>3. CASE s' = [s EXCEPT ![i] = [s[i] EXCEPT !.pc = "adopted", !.held = NoFile]]
      BY <3>1, <3>3 DEF Job
    <3> QED
      BY <2>1, <3>2, <3>3
  <2> QED
    BY <1>0, <2>2, <2>3, <2>4 DEF Carried, Numbered
<1>4. Single'
  BY <1>0 DEF ReadBack, Single
<1>5. Outrun'
  BY <1>0 DEF ReadBack, Outrun
<1>6. Settled'
  <2>1. \/ s' = [s EXCEPT ![i] = [s[i] EXCEPT !.pc = "back", !.held = home[Home(i)]]]
        \/ s' = [s EXCEPT ![i] = [s[i] EXCEPT !.pc = "adopted", !.held = NoFile]] /\ home[Home(i)] \notin Grant
    BY DEF ReadBack, Finish, CarriesGrant
  <2>2. UNCHANGED <<stored, forgone, honoured, home>>
    BY DEF ReadBack
  <2>3. s[i].mode = "own" => Home(i) = i
    BY DEF Home
  <2>4. /\ s'[i].mode = s[i].mode /\ \A j \in Sess \ {i} : s'[j] = s[j]
        /\ s'[i].pc = "adopted" => home[Home(i)] \notin Grant
    <3>1. s \in [Sess -> Job]
      BY <1>0 DEF SessionsTypeOK, Job
    <3>2. CASE s' = [s EXCEPT ![i] = [s[i] EXCEPT !.pc = "back", !.held = home[Home(i)]]]
      BY <3>1, <3>2 DEF Job
    <3>3. CASE s' = [s EXCEPT ![i] = [s[i] EXCEPT !.pc = "adopted", !.held = NoFile]] /\ home[Home(i)] \notin Grant
      BY <3>1, <3>3 DEF Job
    <3> QED
      BY <2>1, <3>2, <3>3
  <2>5. honoured \subseteq Grant
    BY <1>0 DEF SessionsTypeOK
  <2> QED
    BY <1>0, <2>2, <2>3, <2>4, <2>5 DEF Settled
<1>7. SessionGrantKept'
  BY <1>0 DEF ReadBack, SessionGrantKept, Held
<1> QED
  BY <1>1, <1>2, <1>3, <1>4, <1>5, <1>6, <1>7 DEF IInv

LEMMA AdoptBackKeeps == ASSUME IInv, NEW i \in Sess, AdoptBack(i) PROVE IInv'
<1>0. SessionsTypeOK /\ Numbered /\ Carried /\ Single /\ Outrun /\ Settled /\ SessionGrantKept
  BY DEF IInv
<1>1. SessionsTypeOK'
  <2>1. s[i] \in Job /\ NoFile \in Record /\ NoRun \in Job
    BY <1>0 DEF SessionsTypeOK, Job, Record, NoRun
  <2>2. [s[i] EXCEPT !.pc = "adopted", !.held = NoFile] \in Job
    BY <2>1 DEF Job
  <2>3. s' \in [Sess -> Job]
    BY <1>0, <2>1, <2>2 DEF AdoptBack, Keep, Finish, SessionsTypeOK, Job
  <2>4. home' \in [Sess \cup {Profile} -> Record] /\ left' \subseteq Grant
    BY <1>0, <2>1 DEF AdoptBack, Keep, Leave, Finish, SessionsTypeOK
  <2>5. stored' \in Grant /\ forgone' \subseteq Grant /\ mishaps' \in 0..MaxMishaps
    BY SessionsAssumption, <1>0 DEF AdoptBack, Mishap, Keep, SessionsTypeOK, Carried
  <2> QED
    BY <1>0, <2>3, <2>4, <2>5 DEF AdoptBack, SessionsTypeOK, Job
<1>2. Numbered'
  BY SessionsAssumption, <1>0 DEF AdoptBack, Keep, Leave, SessionsTypeOK, Numbered, Carried, Homes, Grant
<1>3. Carried'
  <2>1. stored <= stored' /\ UNCHANGED minted
    BY SessionsAssumption, <1>0 DEF AdoptBack, Keep, Outdated, Carried, SessionsTypeOK, Grant
  <2>2. s'[i].pc \in {"adopted", "idle"} /\ \A j \in Sess \ {i} : s'[j] = s[j]
    <3>1. CASE s' = [s EXCEPT ![i] = NoRun]
      BY <1>0, <3>1 DEF NoRun, SessionsTypeOK
    <3>2. CASE s' = [s EXCEPT ![i] = [s[i] EXCEPT !.pc = "adopted", !.held = NoFile]]
      BY <1>0, <3>2 DEF SessionsTypeOK
    <3> QED
      BY <3>1, <3>2 DEF AdoptBack, Keep, Finish
  <2>3. \A j \in Sess \ {i} : home'[j] = home[j]
    BY <1>0 DEF AdoptBack, Keep, Leave, Finish, SessionsTypeOK
  <2> QED
    BY SessionsAssumption, <1>0, <1>1, <2>1, <2>2, <2>3 DEF Carried, SessionsTypeOK, Grant
<1>4. Single'
  BY SessionsAssumption, <1>0 DEF AdoptBack, Keep, Leave, Outdated, SessionsTypeOK, Carried, Single, Homes, Grant
<1>5. Outrun'
  BY SessionsAssumption, <1>0 DEF AdoptBack, Keep, Leave, Outdated, SessionsTypeOK, Carried, Outrun, Homes, Grant
<1>6. Settled'
  <2>1. CASE s' = [s EXCEPT ![i] = NoRun] /\ UNCHANGED stored
    <3>1. s'[i].pc = "idle" /\ \A j \in Sess \ {i} : s'[j] = s[j]
      BY <1>0, <2>1 DEF NoRun, SessionsTypeOK
    <3>2. \A j \in Sess \ {i} : home'[j] = home[j]
      BY <1>0 DEF AdoptBack, Keep, Leave, Finish, SessionsTypeOK
    <3>3. forgone \subseteq forgone' /\ UNCHANGED honoured
      BY DEF AdoptBack
    <3> QED
      BY <1>0, <2>1, <3>1, <3>2, <3>3 DEF Settled
  <2>2. CASE /\ s[i].pc = "back" /\ ~Outdated(s[i].held) /\ stored' = s[i].held /\ Finish(i)
             /\ forgone' = IF s[i].mode = "profile" \/ s[i].held \in honoured
                           THEN forgone \cup ({stored} \cap honoured) ELSE forgone
             /\ UNCHANGED <<home, honoured>>
    <3>1. /\ s'[i].mode = s[i].mode /\ \A j \in Sess \ {i} : s'[j] = s[j]
      BY <1>0, <2>2 DEF Finish, SessionsTypeOK
    <3>2. s[i].mode = "own" => home[i] = stored'
      BY <1>0, <2>2 DEF Carried
    <3>3. stored' # stored /\ stored \in honoured => stored \in forgone'
      <4>1. s[i].mode \in {"own", "profile"}
        BY SessionsAssumption, <1>0 DEF SessionsTypeOK
      <4>2. s[i].mode = "own" /\ s[i].held \notin honoured => s[i].held = stored
        BY SessionsAssumption, <1>0, <2>2, <3>2 DEF Outrun, Homes, Outdated, Carried, SessionsTypeOK, Grant
      <4> QED
        BY <2>2, <4>1, <4>2
    <3>4. forgone \subseteq forgone'
      BY <2>2
    <3> QED
      BY <1>0, <2>2, <3>1, <3>2, <3>3, <3>4 DEF Settled
  <2> QED
    BY <2>1, <2>2 DEF AdoptBack, Keep
<1>7. SessionGrantKept'
  BY SessionsAssumption, <1>0 DEF AdoptBack, Keep, Leave, Finish, Outdated, SessionsTypeOK, Numbered, Carried, Outrun, SessionGrantKept, Held, Homes, Grant
<1> QED
  BY <1>1, <1>2, <1>3, <1>4, <1>5, <1>6, <1>7 DEF IInv

LEMMA RemoveKeeps == ASSUME IInv, NEW i \in Sess, RemoveSession(i) PROVE IInv'
<1>0. SessionsTypeOK /\ Numbered /\ Carried /\ Single /\ Outrun /\ Settled /\ SessionGrantKept
  BY DEF IInv
<1>1. SessionsTypeOK'
  BY <1>0 DEF RemoveSession, NoRun, SessionsTypeOK, Record
<1>2. Numbered'
  BY SessionsAssumption, <1>0 DEF RemoveSession, SessionsTypeOK, Numbered, Homes, Grant
<1>3. Carried'
  BY <1>0 DEF RemoveSession, NoRun, SessionsTypeOK, Carried
<1>4. Single'
  BY SessionsAssumption, <1>0 DEF RemoveSession, SessionsTypeOK, Single, Homes, Grant
<1>5. Outrun'
  BY SessionsAssumption, <1>0 DEF RemoveSession, SessionsTypeOK, Outrun, Homes, Grant
<1>6. Settled'
  BY <1>0 DEF RemoveSession, NoRun, SessionsTypeOK, Settled
<1>7. SessionGrantKept'
  BY <1>0 DEF RemoveSession, Settled, SessionGrantKept, Held
<1> QED
  BY <1>1, <1>2, <1>3, <1>4, <1>5, <1>6, <1>7 DEF IInv

LEMMA DieKeeps == ASSUME IInv, NEW i \in Sess, Die(i) PROVE IInv'
<1>0. SessionsTypeOK /\ Numbered /\ Carried /\ Single /\ Outrun /\ Settled /\ SessionGrantKept
  BY DEF IInv
<1>1. SessionsTypeOK'
  BY SessionsAssumption, <1>0 DEF Die, Mishap, Leave, NoRun, SessionsTypeOK, Record
<1>2. Numbered'
  BY SessionsAssumption, <1>0 DEF Die, Leave, SessionsTypeOK, Numbered, Homes, Grant
<1>3. Carried'
  BY <1>0 DEF Die, Leave, NoRun, SessionsTypeOK, Carried
<1>4. Single'
  BY SessionsAssumption, <1>0 DEF Die, Leave, SessionsTypeOK, Single, Homes, Grant
<1>5. Outrun'
  BY SessionsAssumption, <1>0 DEF Die, Leave, SessionsTypeOK, Outrun, Homes, Grant
<1>6. Settled'
  BY <1>0 DEF Die, Leave, NoRun, SessionsTypeOK, Settled
<1>7. SessionGrantKept'
  BY <1>0 DEF Die, Leave, SessionGrantKept, Held
<1> QED
  BY <1>1, <1>2, <1>3, <1>4, <1>5, <1>6, <1>7 DEF IInv

LEMMA PollKeeps == ASSUME IInv, DaemonPolls PROVE IInv'
<1>0. SessionsTypeOK /\ Numbered /\ Carried /\ Single /\ Outrun /\ Settled /\ SessionGrantKept
  BY DEF IInv
<1>1. SessionsTypeOK'
  <2>1. minted' \in Grant
    BY SessionsAssumption, <1>0 DEF DaemonPolls, Mint, SessionsTypeOK, Grant
  <2>2. honoured' \subseteq Grant /\ stored' \in Grant
    BY <1>0, <2>1 DEF DaemonPolls, SessionsTypeOK
  <2> QED
    BY SessionsAssumption, <1>0, <2>1, <2>2 DEF DaemonPolls, Mishap, SessionsTypeOK
<1>2. Numbered'
  BY <1>0 DEF DaemonPolls, Mint, SessionsTypeOK, Numbered, Grant
<1>3. Carried'
  BY <1>0 DEF DaemonPolls, Mint, SessionsTypeOK, Numbered, Carried, Grant
<1>4. Single'
  BY <1>0 DEF DaemonPolls, Mint, SessionsTypeOK, Numbered, Single, Grant
<1>5. Outrun'
  BY <1>0 DEF DaemonPolls, Mint, SessionsTypeOK, Numbered, Outrun, Grant
<1>6. Settled'
  BY <1>0 DEF DaemonPolls, Settled
<1>7. SessionGrantKept'
  BY <1>0 DEF DaemonPolls, SessionGrantKept, Held
<1> QED
  BY <1>1, <1>2, <1>3, <1>4, <1>5, <1>6, <1>7 DEF IInv

LEMMA LoginKeeps == ASSUME IInv, Login PROVE IInv'
<1>0. SessionsTypeOK /\ Numbered /\ Carried /\ Single /\ Outrun /\ Settled /\ SessionGrantKept
  BY DEF IInv
<1>1. SessionsTypeOK'
  <2>1. minted' \in Grant
    BY SessionsAssumption, <1>0 DEF Login, Mint, SessionsTypeOK, Grant
  <2>2. honoured' \subseteq Grant /\ stored' \in Grant /\ forgone' \subseteq Grant
    BY <1>0, <2>1 DEF Login, SessionsTypeOK
  <2>3. mishaps' \in 0..MaxMishaps
    BY SessionsAssumption, <1>0 DEF Login, Mishap, SessionsTypeOK
  <2> QED
    BY <1>0, <2>1, <2>2, <2>3 DEF Login, SessionsTypeOK
<1>2. Numbered'
  BY <1>0 DEF Login, Mint, SessionsTypeOK, Numbered, Grant
<1>3. Carried'
  BY <1>0 DEF Login, Mint, SessionsTypeOK, Numbered, Carried, Grant
<1>4. Single'
  BY <1>0 DEF Login, Mint, SessionsTypeOK, Numbered, Single, Grant
<1>5. Outrun'
  BY <1>0 DEF Login, Mint, SessionsTypeOK, Numbered, Outrun, Grant
<1>6. Settled'
  BY <1>0 DEF Login, Settled
<1>7. SessionGrantKept'
  BY <1>0 DEF Login, SessionGrantKept, Held
<1> QED
  BY <1>1, <1>2, <1>3, <1>4, <1>5, <1>6, <1>7 DEF IInv

LEMMA StepKeeps == ASSUME IInv, [SessionsNext]_sessionVars PROVE IInv'
<1>1. CASE UNCHANGED sessionVars
  BY <1>1 DEF sessionVars, IInv, SessionsTypeOK, Numbered, Carried, Single, Outrun, Settled, SessionGrantKept, Held, Homes
<1>2. CASE \E i \in Sess, mode \in Modes : Begin(i, mode)
  BY <1>2, BeginKeeps
<1>3. CASE \E i \in Sess : Seed(i) \/ SeedFails(i)
  BY <1>3, SeedKeeps, SeedFailsKeeps
<1>4. CASE \E i \in Sess : End(i) \/ ReadBack(i) \/ AdoptBack(i)
  BY <1>4, EndKeeps, ReadBackKeeps, AdoptBackKeeps
<1>5. CASE \E i \in Sess : RemoveSession(i) \/ Die(i)
  BY <1>5, RemoveKeeps, DieKeeps
<1>6. CASE \E h \in Sess \cup {Profile} : Rotate(h)
  BY <1>6, RotateKeeps DEF Homes
<1>7. CASE DaemonPolls \/ Login
  BY <1>7, PollKeeps, LoginKeeps
<1> QED
  BY <1>1, <1>2, <1>3, <1>4, <1>5, <1>6, <1>7 DEF SessionsNext

LEMMA Invariance == SessionsSpec => []IInv
BY InitHolds, StepKeeps, PTL DEF SessionsSpec

-----------------------------------------------------------------------------
(* Theorems *)

\* Every variable keeps its type.
THEOREM TypesHold == SessionsSpec => []SessionsTypeOK
<1>1. IInv => SessionsTypeOK
  BY DEF IInv
<1> QED
  BY <1>1, Invariance, PTL

\* No honoured grant leaves the machine but one that was forgone: whatever order
\* sessions end in, a home is not deleted before the store holds what is in it.
THEOREM GrantKept == SessionsSpec => []SessionGrantKept
<1>1. IInv => SessionGrantKept
  BY DEF IInv
<1> QED
  BY <1>1, Invariance, PTL

\* What the own home of a session carries back is honoured whenever what it
\* replaces is: a dead grant is no later than the stored one.
THEOREM AdoptionIsAlive == SessionsSpec => AdoptedIsAlive
<1>1. ASSUME IInv, [SessionsNext]_sessionVars PROVE AdoptsAlive
  <2> SUFFICES ASSUME NEW i \in Sess, s[i].pc = "back", s[i].mode = "own", s'[i].pc # "back",
                      stored \in honoured
               PROVE  stored' \in honoured
    BY DEF AdoptsAlive
  <2>0. SessionsTypeOK /\ Carried /\ Outrun
    BY <1>1 DEF IInv
  <2>1. CASE AdoptBack(i)
    <3>1. CASE Outdated(s[i].held) /\ Keep(i)
      BY <3>1 DEF Keep
    <3>2. CASE ~Outdated(s[i].held) /\ stored' = s[i].held
      <4>1. home[i] = s[i].held /\ s[i].held \in Grant
        BY <2>0 DEF Carried
      <4>2. s[i].held \notin honoured => s[i].held = stored
        BY SessionsAssumption, <2>0, <3>2, <4>1 DEF Outrun, Homes, Outdated, SessionsTypeOK, Grant
      <4> QED
        BY <3>2, <4>2
    <3>3. CASE Mishap /\ Keep(i)
      BY <3>3 DEF Keep
    <3> QED
      BY <2>1, <3>1, <3>2, <3>3 DEF AdoptBack
  <2>2. CASE Die(i)
    BY <2>2 DEF Die
  <2>3. CASE UNCHANGED s
    BY <2>3
  <2>4. ASSUME NEW j \in Sess, j # i,
               \/ \E mode \in Modes : Begin(j, mode)
               \/ Seed(j) \/ SeedFails(j) \/ End(j) \/ ReadBack(j) \/ AdoptBack(j) \/ RemoveSession(j) \/ Die(j)
        PROVE  FALSE
    BY <2>0, <2>4 DEF Begin, Seed, SeedFails, End, ReadBack, AdoptBack, RemoveSession, Die, Finish, Keep, SessionsTypeOK
  <2>5. ASSUME \/ \E mode \in Modes : Begin(i, mode)
               \/ Seed(i) \/ SeedFails(i) \/ End(i) \/ ReadBack(i) \/ RemoveSession(i)
        PROVE  FALSE
    BY <2>5 DEF Begin, Seed, SeedFails, End, ReadBack, RemoveSession
  <2> QED
    BY <1>1, <2>1, <2>2, <2>3, <2>4, <2>5 DEF SessionsNext, Rotate, DaemonPolls, Login, sessionVars
<1> QED
  BY <1>1, Invariance, PTL DEF SessionsSpec, AdoptedIsAlive

=============================================================================
