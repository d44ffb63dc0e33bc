CONSTANTS
  Threads = {t1, t2}
  Tasks = {f1, f2, f3}
  EventfdMax = 2
SPECIFICATION FairSpec
INVARIANTS NoLostWakeup NoLostQuit
PROPERTIES ImplementsTaskQueue EveryTaskRuns QuitStopsLoop
CHECK_DEADLOCK FALSE
