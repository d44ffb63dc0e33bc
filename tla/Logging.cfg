CONSTANTS
  Threads = {t1, t2}
  NoOne = NoOne
  rollSize_ = 4100
  flushInterval_ = 0
  checkEveryN_ = 2
  kRollPerSeconds_ = 2
  ShortWrites = {3000}
  kSmallBuffer = 4000
  kMaxNumericSize = 32
  Statements <- MCStatements
  BasenameSize = 9
  StartTime = 2
  MaxTime = 4
  MaxLines = 3
SYMMETRY Symmetry
SPECIFICATION Spec
CHECK_DEADLOCK FALSE
INVARIANTS
  WholeLines
  RolledInTime
  FlushedSoon
  FatalOnDisk
  LineText
