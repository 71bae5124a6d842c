-------------------------- MODULE MCSubscriptions ---------------------------
EXTENDS Subscriptions, TLC

Symmetry == Permutations(Users) \cup Permutations(Toggles)
=============================================================================
