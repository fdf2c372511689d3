CONSTANTS
  ChunkSizes = {1, 2, 5}
  BatchSize = 2
  MaxSamples = 6
  MaxEvents = 3
  Kinds = {"partial", "final", "error"}
  MayFail = FALSE
SPECIFICATION Spec
CHECK_DEADLOCK FALSE
PROPERTY TextsMoveForward
