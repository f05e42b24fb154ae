SPECIFICATION Spec
CONSTANTS
  Tenants = {t1}
  Posts = {p1}
  Texts = {x1, x2}
  Calls = {k1, k2}
  Unlucky = {}
  None = None
SYMMETRY Symmetry
INVARIANT LedgerInStep
