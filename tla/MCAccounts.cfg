CONSTANTS
  Emails = {e1}
  Signups = {s1, s2}
  Logins = {l1}
  Refreshes = {f1}
  Logouts = {o1}
  Edits = {d1, d2}
  NoName = NoName
  Nobody = Nobody
  AccessLife = 2
  RefreshLife = 3
  MaxTime = 2
  MaxFaults = 1
VIEW View
SYMMETRY Symmetry
SPECIFICATION Spec
INVARIANTS
  TypeOK
  SignupOwnsEmail
  IssuedWorks
  LogoutHolds
  NameAccounted
CHECK_DEADLOCK FALSE
