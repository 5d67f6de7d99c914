----------------------------- MODULE MCSessions -----------------------------
EXTENDS Sessions, TLC
CONSTANTS s1, s2
Two == {s1, s2}
Symmetry == Permutations(Two)
=============================================================================
