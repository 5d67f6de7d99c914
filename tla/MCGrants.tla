------------------------------ MODULE MCGrants ------------------------------
\* Small instances of Grants.
EXTENDS Grants, TLC

CONSTANTS a, b, f, poller, poller2, ticker, cli, human

Two       == {a, b}
One       == {a}
Stranger  == {f}
Nobody    == {}
ThePoller == {poller}
Pollers   == {poller, poller2}
TheTicker == {ticker}
TheCli    == {cli}
TheHuman  == {human}
Symmetry  == Permutations(Two)
=============================================================================
