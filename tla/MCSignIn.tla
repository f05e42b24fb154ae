------------------------------ MODULE MCSignIn ------------------------------
\* SignIn on small instances.  Secrets, tenant ids, requests, clients and
\* allowed members are interchangeable; a run with a liveness property does
\* not use the symmetry.
EXTENDS SignIn, TLC

Symmetry ==
       Permutations(States) \cup Permutations(Codes) \cup Permutations(RefreshTokens)
  \cup Permutations(TenantIDs) \cup Permutations(Callbacks) \cup Permutations(Grants)
  \cup Permutations(Clients) \cup Permutations(AllowedMembers)
=============================================================================
