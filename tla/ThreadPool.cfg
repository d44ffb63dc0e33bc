SPECIFICATION FairSpec
CONSTANTS
  Workers = {w1, w2}
  Clients = {c1}
  Tasks = {t1, t2, t3}
  None = None
INVARIANTS TakenInOrder WorkNoticed
PROPERTIES EveryTaskRuns JoinReturns
CHECK_DEADLOCK FALSE
