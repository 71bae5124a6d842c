---------------------------- MODULE MCUserStats -----------------------------
EXTENDS UserStats, TLC

Symmetry == Permutations(Users) \cup Permutations(Calls)
=============================================================================
