SPECIFICATION FairSpec
CONSTANTS
  BufferSize = 3
  DropLimit = 3
  MaxLines = 9
  Null = Null
INVARIANTS AssertsHold SpareUnlessBacklog OnceInOrder
PROPERTIES LineWritten StopReturns
CHECK_DEADLOCK FALSE
