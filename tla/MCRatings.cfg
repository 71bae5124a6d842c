CONSTANTS
  Users = {a, u1, u2}
  Author = a
  Calls = {c1, c2, c3}
  Scores = {2, 5}
  MaxFaults = 1
SYMMETRY Symmetry
SPECIFICATION Spec
INVARIANTS
  TypeOK
  VotesEarned
  AverageAccounted
PROPERTIES
  LoneRatingRepairs
