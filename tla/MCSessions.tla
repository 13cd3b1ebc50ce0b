----------------------------- MODULE MCSessions -----------------------------
EXTENDS Sessions, TLC

MCSymmetry == Permutations(Attempts) \cup Permutations(Opened)
=============================================================================
