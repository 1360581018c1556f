CONSTANTS
  BufLen = 3
  Depth = 2
  Threshold = 1
  HasClock = FALSE
  TimeOut = 1
  IntMax = 4
  Bytes <- Two
  Typed <- Two
  Messages <- None
  Spaces <- None
  Flags <- Both
  Requests <- Request
  Connected = TRUE
SPECIFICATION MCFairSpec
INVARIANTS
  NeverStuck
PROPERTIES
  ImplementsStream
  EveryCallReturns
