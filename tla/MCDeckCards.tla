---------------------------- MODULE MCDeckCards -----------------------------
EXTENDS DeckCards, TLC

Symmetry == Permutations(Decks) \cup Permutations(Cards)
              \cup Permutations(Imports) \cup Permutations(Deletes)
=============================================================================
