--------------------------- MODULE MCCodexRefresh ---------------------------
\* Small instances of CodexRefresh.
EXTENDS CodexRefresh

CONSTANTS poller, r1, r2

ThePoller   == {poller}
OneRequest  == {r1}
TwoRequests == {r1, r2}
=============================================================================
