SPECIFICATION Spec
CONSTANTS
  Members = {m1, m2}
  Unlucky = {m2}
  Logins = {l1}
  Scopes = {s1}
  NoScopes = NoScopes
  Keys = {k1}
  Faults = {"overlap"}
  None = None
  Window = 3
  Recheck = 1
  Lifetime = 4
  MaxGap = 2
  MaxClock = 6
  MaxGrants = 2
SYMMETRY Symmetry
CHECK_DEADLOCK FALSE
INVARIANT TypeOK
INVARIANT RowIsOfOnePiece
INVARIANT NobodyDropsOff
INVARIANT WarnedInTime
PROPERTY SignInRestores
