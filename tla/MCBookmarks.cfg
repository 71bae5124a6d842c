CONSTANTS
  u1 = u1
  author = u1
  Users = {u1}
  Decks = {1, 2}
  Author <- MCAuthor
  Toggles = {t1, t2}
  Starts = {s1, s2}
  Nowhere = Nowhere
  MaxFaults = 1
SYMMETRY Symmetry
SPECIFICATION Spec
INVARIANTS
  TypeOK
  LoneToggleFlips
  StudiedIsListed
CHECK_DEADLOCK FALSE
