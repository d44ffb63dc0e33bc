CONSTANTS
  Chars <- MCChars
  Sendable <- MCSendable
  MaxValue = 1
SPECIFICATION ParserSpec
CHECK_DEADLOCK FALSE
INVARIANT ParsedAsSent
