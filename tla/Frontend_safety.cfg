SPECIFICATION Spec
CONSTANTS
  MaxCalls = 3
  MaxEvents = 1
INVARIANTS
  DictationIsSeen
  TimersMatchTrigger
PROPERTIES
  OnlyExcusedLosses
  StopEndsDictation
CHECK_DEADLOCK FALSE
