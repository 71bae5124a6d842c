CONSTANTS
  Users = {u1}
  Calls = {c1, c2, c3, c4}
  MaxCards = 1
  MaxDay = 3
SYMMETRY Symmetry
SPECIFICATION Spec
INVARIANTS
  TypeOK
  StreakNeverOverstated
  TotalsAddUp
PROPERTIES
  StreakFollowsDays
CHECK_DEADLOCK FALSE
