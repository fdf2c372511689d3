CONSTANTS
  Adapters = {a, b}
  Versions = {v1, v2}
  Procs = {p1, p2}
  None = None
SPECIFICATION Spec
CHECK_DEADLOCK FALSE
INVARIANTS
  AdaptersAreSupervised
  SupervisedRunsItsConfig
  SignalsStayHome
PROPERTY ReloadKeepsAdapters
SYMMETRY Symmetry
