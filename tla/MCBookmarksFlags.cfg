CONSTANTS
  u1 = u1
  author = u2
  Users = {u1, u2}
  Decks = {1, 2}
  Author <- MCAuthor
  Toggles = {t1, t2}
  Starts = {s1, s2}
  Nowhere = Nowhere
  MaxFaults = 1
SYMMETRY Symmetry
SPECIFICATION Spec
INVARIANTS
  ListFlagExact
CHECK_DEADLOCK FALSE
