CONSTANTS
  Clients = {c1, c2}
  None = None
  Chars <- MCChars
  Requests <- MCRequests
  Files <- MCFiles
  MAXLINE = 4
  RIO_BUFSIZE = 3
  SendSizes = {2}
  SocketRoom = 1
  Garbage = {"junk"}
SPECIFICATION Spec
CHECK_DEADLOCK FALSE
INVARIANT ServedAsAsked
PROPERTY EachClosed
