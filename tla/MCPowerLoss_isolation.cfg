SPECIFICATION LossSpec
CONSTANTS
  Members = {m1, m2, m3}
  AllowedMembers = {m1, m2}
  Clients = {c1}
  RedirectURIs = {u1, u2}
  Verifiers = {v1}
  States = {s1, s2}
  Codes = {k1, k2}
  RefreshTokens = {r1, r2, r3}
  TenantIDs = {t1, t2}
  Callbacks = {b1, b2}
  Grants = {g1}
  None = None
  LoginStateTTL = 1
  AuthCodeTTL = 1
  AccessTokenTTL = 1
  RefreshTokenTTL = 1
  MaxTime = 0
  MaxLosses = 1
SYMMETRY Symmetry
INVARIANT TypeOK
INVARIANT Isolation
INVARIANT OnlyRegisteredRedirects
INVARIANT OneLiveCredentialPerSignIn
