CONSTANTS
  Uploads = {u1, u2, u3}
  Removals = {r1, r2}
  Edits = {e1}
  MaxFaults = 2
  Nobody = Nobody
SYMMETRY Symmetry
SPECIFICATION Spec
INVARIANTS
  TypeOK
  RowsAccounted
  DeadLinkAccounted
  LoneUploadSettles
  LoneRemovalClears
CHECK_DEADLOCK FALSE
