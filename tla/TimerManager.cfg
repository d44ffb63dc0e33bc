CONSTANTS
  Conns = {c1, c2}
  Timers = {t1, t2, t3, t4}
  Timeouts = {1, 3}
  Wrap = 4
  MaxEra = 2
  None = None
SYMMETRY Symmetry
SPECIFICATION TimerSpec
INVARIANTS OneTimer
PROPERTIES NeverEarly NoneOverdue
CHECK_DEADLOCK FALSE
