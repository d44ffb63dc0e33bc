CONSTANTS
  Conns = {c1}
  Lines = {"get", "missing", "post", "head"}
  MaxInput = 2
  SndBuf = 1
  Response = 2
SPECIFICATION FairSpec
INVARIANTS HandledAlive TimedUnlessLingering NoInputForgotten NoOutputForgotten
PROPERTIES NoTruncation InputServed
CHECK_DEADLOCK FALSE
