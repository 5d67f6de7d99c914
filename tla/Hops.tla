-------------------------------- MODULE Hops --------------------------------
(***************************************************************************)
(* What the engine promises about moving (the rule antiflap.go opens with): *)
(* until something new is learned, it does not come back to an account it   *)
(* has left.                                                                *)
(***************************************************************************)
CONSTANTS Acct, None

VARIABLES at,   \* the account Claude Code is on, None when it is on none
          been  \* the accounts left since the last news

Init == at \in Acct \cup {None} /\ been = {}

Hop(a) ==
    /\ a \notin been \cup {at}
    /\ at' = a /\ been' = been \cup ({at} \ {None})

News == been' = {} /\ at' \in Acct \cup {None}

Next == News \/ \E a \in Acct : Hop(a)

Spec == Init /\ [][Next]_<<at, been>>

\* So between two readings the engine moves fewer times than there are accounts.
NeverBack == been \subseteq Acct /\ at \notin been
=============================================================================
