SPECIFICATION Spec
CONSTANTS
  Members = {m1}
  AllowedMembers = {m1}
  Clients = {c1, c2}
  RedirectURIs = {u1}
  Verifiers = {v1, v2}
  States = {s1, s2}
  Codes = {k1, k2}
  RefreshTokens = {r1, r2, r3}
  TenantIDs = {t1, t2}
  Callbacks = {b1, b2}
  Grants = {g1, g2}
  None = None
  LoginStateTTL = 1
  AuthCodeTTL = 1
  AccessTokenTTL = 1
  RefreshTokenTTL = 1
  MaxTime = 1
SYMMETRY Symmetry
INVARIANT BoundToTheRequest
PROPERTY RefreshRowsOnlyAge
PROPERTY ImplementsSessions
PROPERTY TenantIdStable
