---------------------------- MODULE MCAccounts ------------------------------
EXTENDS Accounts, TLC

Symmetry == Permutations(Signups) \cup Permutations(Logouts) \cup Permutations(Edits)

\* Everything but rkey, which no action and no property depends on.
View == <<account, email, akey, tokens, profile, pc, now, faults, unsaved>>
=============================================================================
