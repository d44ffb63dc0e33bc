CONSTANTS
  Threads = {main, user}
  Owner = main
  Tasks = {f1, f2}
  EventfdMax = 2
SPECIFICATION LifeFairSpec
INVARIANTS AliveUntilQuit
PROPERTIES StartLoopReturns DestructorReturns
CHECK_DEADLOCK FALSE
