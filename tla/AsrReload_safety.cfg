CONSTANTS
  Callers = {c1, c2}
  Providers = {p1, p2}
  Unselected = Unselected
  Scenes = {raw}
  ExternalEdits = TRUE
  MaxGeneration = 3
  MaxRecordings = 1
SPECIFICATION Spec
CHECK_DEADLOCK FALSE
INVARIANTS
  ReloadIsAccountedFor
  EffectiveIsSelected
PROPERTIES BackendsOnlyGetNewer ReloadsSettle
