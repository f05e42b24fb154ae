SPECIFICATION Spec
CONSTANTS
  Members = {m1}
  Unlucky = {}
  Logins = {l1}
  Scopes = {s1, s2}
  NoScopes = NoScopes
  Keys = {k1}
  Faults = {"overlap"}
  None = None
  Window = 3
  Recheck = 1
  Lifetime = 4
  MaxGap = 2
  MaxClock = 6
  MaxGrants = 2
SYMMETRY Symmetry
CHECK_DEADLOCK FALSE
PROPERTY GrantsOnlyAdvance
