----------------------------- MODULE MCPowerLoss -----------------------------
\* PowerLoss on a small instance, with the symmetry of MCSignIn.
EXTENDS PowerLoss, TLC

Symmetry ==
       Permutations(States) \cup Permutations(Codes) \cup Permutations(RefreshTokens)
  \cup Permutations(TenantIDs) \cup Permutations(Callbacks) \cup Permutations(Grants)
  \cup Permutations(Clients) \cup Permutations(AllowedMembers)
=============================================================================
