--------------------------- MODULE MCTenantTokens ---------------------------
\* TenantTokens on small instances.  Members that fare alike, sign-ins,
\* scope lists and cipher keys are interchangeable.
EXTENDS TenantTokens, TLC

Symmetry ==
  Permutations(Members \ Unlucky) \cup Permutations(Unlucky)
    \cup Permutations(Logins) \cup Permutations(Scopes) \cup Permutations(Keys)
=============================================================================
