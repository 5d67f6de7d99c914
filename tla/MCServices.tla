----------------------------- MODULE MCServices -----------------------------
\* Small instances of three components that share nothing here, one per
\* behaviour: "proxy" of CodexProxy, "session" of Sessions and "poll" of Polling.
EXTENDS CodexProxy, Sessions, Polling, TLC

CONSTANTS acct1, acct2, thread1, s1, s2

VARIABLE scene

\* An unshared idle account is looked at in every unit of time, the ceiling of
\* the backoff is three of them.
CoarseTable ==
    [danger |-> TRUE, urgent |-> TRUE, dangerBand |-> 95, urgentBand |-> 15,
     min |-> 1, urgentInterval |-> 1, activeMax |-> 1, candidateMax |-> 1,
     exhausted |-> 1, post429Min |-> 1, post429Max |-> 3, recent429 |-> 4, serveTTL |-> 1]
CoarseLadder == <<4, 4, 5, 5, 5>>

AnyPin == Acct \cup {None}
Symmetry == Permutations(Acct)

\* The pointer is unset at first, an account that shares its allowance is not the
\* live one; the components of the other behaviours stay in an initial state.
ServicesInit ==
    /\ scene \in {"proxy", "session", "poll"}
    /\ Init /\ SessionsInit /\ PollingInit
    /\ serving = None
    /\ mates > 1 => ~live
    /\ scene # "proxy" => pin = [t \in Thread |-> None]
    /\ scene # "poll" => mates = 1 /\ ~live /\ meter = [pct |-> 0, stop |-> Absent]
ServicesNext ==
    /\ \/ scene = "proxy" /\ Next /\ UNCHANGED <<sessionVars, pollVars>>
       \/ scene = "session" /\ SessionsNext /\ UNCHANGED <<vars, pollVars>>
       \/ scene = "poll" /\ PollingNext /\ UNCHANGED <<vars, sessionVars>>
    /\ UNCHANGED scene
ServicesSpec == ServicesInit /\ [][ServicesNext]_<<scene, vars, sessionVars, pollVars>>

-----------------------------------------------------------------------------

\* Every variable of the three has its type.
ServicesTypeOK == TypeOK /\ SessionsTypeOK /\ PollingTypeOK
=============================================================================
