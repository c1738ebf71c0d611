SPECIFICATION Spec
CONSTANTS
  Adapters = {a1, a2}
  Helpers = {h1, h2}
  StartupTimeout = 2
  Grace = 2
INVARIANTS
  ForeignUnharmed
  CleanCloseLeavesNone
  ClosedWithTheLast
PROPERTY
  RunSettles
