SPECIFICATION Spec
CONSTANTS
  None = None
  u1 = u1 u2 = u2 t1 = t1 t2 = t2 i1 = i1 i2 = i2 r1 = r1 r2 = r2 n1 = n1 n2 = n2 q1 = q1 q2 = q2 q3 = q3
  Users = {u1}
  Tokens = {t1}
  Installations = {i1, i2}
  Repos = {r1, r2}
  Names = {n1, n2}
  Requests = {q1, q2}
  Owner <- MCOwner
  Limit = 1
  MaxDay = 2
  MaxActs = 1
  MaxErrors = 1
SYMMETRY MCSymmetry
INVARIANTS TypeOK FoundWasAccessible WithinLimit
CHECK_DEADLOCK FALSE
