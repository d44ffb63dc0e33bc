CONSTANTS
  NumLoops = 2
  NumFds = 4
  Limit = 4
  MaxConns = 5
SPECIFICATION Spec
INVARIANTS DescriptorOwned TablesAgree NoBacklogForgotten
CHECK_DEADLOCK FALSE
