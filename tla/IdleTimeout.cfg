CONSTANTS
  Conns = {c1}
  Lines = {"get"}
  MaxInput = 2
  SndBuf = 1
  Response = 2
SPECIFICATION FairSpec
PROPERTIES ClosedOnTimeout
CHECK_DEADLOCK FALSE
