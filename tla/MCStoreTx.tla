----------------------------- MODULE MCStoreTx -----------------------------
\* A small instance of StoreTx: two processes over two accounts.
EXTENDS StoreTx, TLC

CONSTANTS p1, p2, u1, u2, b1, b2, plain

MCProc    == {p1, p2}
MCUuid    == {u1, u2}
MCBlob    == {b1, b2}
MCSetting == {plain}
OneUuid   == {u1}
OneBlob   == {b1}
Symmetry  == Permutations(MCProc) \cup Permutations(MCUuid) \cup Permutations(MCBlob)
=============================================================================
