CONSTANTS
  h1 = h1
  h2 = h2
  Isr <- Routines
  Lines <- Two
  Null = Null
  Within <- Making
  Withdraws = TRUE
  MaxRaise = 3
  MaxCalls = 2
  Length = 3
  Api = TRUE
  Width = 4
  PushedBytes = 6
  Met <- PairsAndNames
SPECIFICATION MCFairSpec
INVARIANTS
  PieIsRight
  DispatchesRight
  EachOnceInOrder
  EmulatesAll
PROPERTIES
  Served
CHECK_DEADLOCK FALSE
