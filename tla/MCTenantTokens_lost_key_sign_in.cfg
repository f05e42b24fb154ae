SPECIFICATION Spec
CONSTANTS
  Members = {m1}
  Unlucky = {}
  Logins = {l1}
  Scopes = {s1}
  NoScopes = NoScopes
  Keys = {k1, k2}
  Faults = {"keyloss"}
  None = None
  Window = 3
  Recheck = 1
  Lifetime = 4
  MaxGap = 2
  MaxClock = 6
  MaxGrants = 2
SYMMETRY Symmetry
CHECK_DEADLOCK FALSE
PROPERTY SignInRestores
