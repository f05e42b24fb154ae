SPECIFICATION FairSpec
CONSTANTS
  Members = {m1}
  AllowedMembers = {m1}
  Clients = {c1}
  RedirectURIs = {u1}
  Verifiers = {v1}
  States = {s1, s2}
  Codes = {k1}
  RefreshTokens = {r1}
  TenantIDs = {t1, t2}
  Callbacks = {b1}
  Grants = {g1}
  None = None
  LoginStateTTL = 1
  AuthCodeTTL = 1
  AccessTokenTTL = 1
  RefreshTokenTTL = 1
  MaxTime = 2
PROPERTY ExpiredRowsGo
INVARIANT CodesNameATenant
