CONSTANTS
  null = null
  uart = uart
  other = other
  fs = fs
  Device <- All
  FileSystem <- Mounted
  NullDev = null
  None = None
  Name <- Names
  OpenNames <- Opens
  Can <- Drivers
  FcntlFlags <- NoFlags
  Stdin <- Other
  Stdout <- Uart
  Stderr <- Uart
  ALT_MAX_FD = 5
  Modes <- Writing
SPECIFICATION MCSpec
INVARIANTS
  NothingLeaks
  OneLock
  PrintsRight
PROPERTIES
  FilesRight
