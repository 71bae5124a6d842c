CONSTANTS
  Decks = {d1, d2}
  Cards = {c1, c2, c3, c4}
  Imports = {i1, i2}
  Deletes = {r1, r2, r3}
  MaxRows = 2
  MaxFaults = 1
  NoCard = NoCard
  NoDeck = NoDeck
SYMMETRY Symmetry
SPECIFICATION Spec
INVARIANTS
  TypeOK
  CountDriftExplained
CHECK_DEADLOCK FALSE
