----------------------------- MODULE MCDirLock -----------------------------
\* Small instances of DirLock.
EXTENDS DirLock, TLC

CONSTANTS p1, p2, p3

Two      == {p1, p2}
Three    == {p1, p2, p3}
FourMtimes == 1..4
FiveMtimes == 1..5
=============================================================================
