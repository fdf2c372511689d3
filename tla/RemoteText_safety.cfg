CONSTANTS
  Inputs = {i1, i2}
  Outputs = {o1, o2}
  NoClient = NoClient
  MaxTimers = 2
SPECIFICATION RemoteSpec
CHECK_DEADLOCK FALSE
INVARIANTS ClientsSeeEachOther BufferedTextIsTimed
PROPERTY RemoteDelivery
