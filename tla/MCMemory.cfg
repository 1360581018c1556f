CONSTANTS
  heap_start = 4
  heap_limit = 64
  Requests <- WordRequests
  Frames <- SmallFrames
  f1 = f1
  f2 = f2
  g1 = g1
  g2 = g2
  Processor <- TwoProcessors
  Bytes = 8
  Line = 2
  Word = 2
  DLines = 2
  ILines = 2
  Lengths <- FewLengths
  Self <- Functions
  From <- Callers
  hash <- OneBucket
  SLAB_INCREMENT = 3
  p_heap_limit = 12
  s_high_pc = 4
  BYTES_PER_BUCKET = 2
  MaxCalls = 2
SPECIFICATION MCFairSpec
INVARIANTS
  Apart
  BootsRight
  CachesRight
  ProfilesRight
PROPERTIES
  AllGoesOn
