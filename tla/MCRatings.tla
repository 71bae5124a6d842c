----------------------------- MODULE MCRatings ------------------------------
EXTENDS Ratings, TLC

\* The author is one of the users and not like the others.
Symmetry == Permutations(Users \ {Author}) \cup Permutations(Calls)
=============================================================================
