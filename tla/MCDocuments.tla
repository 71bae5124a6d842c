---------------------------- MODULE MCDocuments -----------------------------
EXTENDS Documents, TLC

Symmetry == Permutations(Uploads) \cup Permutations(Removals)
=============================================================================
