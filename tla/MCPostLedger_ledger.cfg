SPECIFICATION Spec
CONSTANTS
  Tenants = {t1, t2}
  Posts = {p1, p2}
  Texts = {x1, x2}
  Calls = {k1, k2}
  Unlucky = {t1}
  None = None
SYMMETRY Symmetry
INVARIANT TypeOK
INVARIANT OnlyOwnPosts
INVARIANT TombstonesAreHonest
INVARIANT LedgerNeverInvents
INVARIANT LedgerHoldsEverything
INVARIANT OnePostPerCall
PROPERTY LedgerOnlyGrows
