----------------------------- MODULE MCBookmarks ----------------------------
EXTENDS Bookmarks, TLC
CONSTANTS u1, author

MCAuthor == [d \in Decks |-> author]
Symmetry == Permutations(Toggles) \cup Permutations(Starts)
=============================================================================
