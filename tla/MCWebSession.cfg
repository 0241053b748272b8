CONSTANTS
  Tabs = {a, b}
  Tokens = {t1, t2}
  Bases = 2
  Clicks = {k1, k2}
  None = None
SPECIFICATION Spec
INVARIANTS
  DashboardIsOwn
  SignedOutStaysOut
  FormStuckForCause
SYMMETRY Symmetry
