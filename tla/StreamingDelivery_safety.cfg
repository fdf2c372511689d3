CONSTANTS
  ChunkSizes = {1, 2, 5}
  BatchSize = 2
  MaxSamples = 6
  MaxEvents = 3
  Kinds = {"partial", "final", "error"}
  MayFail = TRUE
SPECIFICATION Spec
CHECK_DEADLOCK FALSE
INVARIANT NothingLostOrDoubled
PROPERTY FailureIsNoticed
