CONSTANTS
  Users = {u1, u2}
  Toggles = {t1, t2, t3, t4}
  MaxFaults = 1
SPECIFICATION FairSpec
INVARIANTS
  TypeOK
  CountAccounted
  DecrementNeverHeldBack
PROPERTIES
  EveryToggleReturns
