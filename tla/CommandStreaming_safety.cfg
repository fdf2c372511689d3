CONSTANTS
  MaxPushes = 2
  MaxLines = 2
SPECIFICATION Spec
CHECK_DEADLOCK FALSE
INVARIANTS HelperTextIsUsed SessionIsSound
PROPERTY SessionCallsReturn
