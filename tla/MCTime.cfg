CONSTANTS
  a1 = a1
  a2 = a2
  a3 = a3
  Alarm <- ThreeAlarms
  Root = Root
  Null = Null
  Words = 4
  Delays <- Short
  Periods <- AnyPeriod
  Meddle = TRUE
  StopsNext = FALSE
  US = 12
  TickRate = 3
  Products = 64
  MaxTicks = 20
  Seconds <- FewSeconds
  IntMax = 63
  PerMicro = 5
  Asked <- Sleeps
  Levels <- EveryLevel
  Timer = TRUE
  Texts <- Messages
  Depth = 2
  Threshold = 1
  Ring = 3
  Length = 3
  ECHO_LEN = 2
  INTERVAL = 2
  TICKS = 2
SPECIFICATION MCFairSpec
INVARIANTS
  WalkInList
  TimeIsKept
  LogsRight
PROPERTIES
  ImplementsCountdown
  NothingIsHeldUp
