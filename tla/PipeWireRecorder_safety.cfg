CONSTANTS
  Targets = {default, headset}
  NoTarget = NoTarget
  MaxTakes = 3
  MaxChunks = 2
SPECIFICATION Spec
CHECK_DEADLOCK FALSE
INVARIANTS
  SidesAreConsistent
  AudioStaysInItsTake
PROPERTIES
  StaleExpiryIsHarmless
  RecorderProgress
