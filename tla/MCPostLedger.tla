---------------------------- MODULE MCPostLedger ----------------------------
\* PostLedger on small instances.  Posts, texts and calls are
\* interchangeable; tenants are not, as only some are unlucky.
EXTENDS PostLedger, TLC

Symmetry ==
  Permutations(Posts) \cup Permutations(Texts) \cup Permutations(Calls)
=============================================================================
