CONSTANTS
  Beat = 3
  Rest = 4
  Reel = 4
  Bodies <- Body
  Rise = 1
  Ground = 7
  JumpFrom = 6
  Apex = 3
  HeadRoom = 2
  Width = 64
  StartX <- SmallStart
  XMax = 36
  YMax = 12
  Size = 4
  Edge = 4
  Arm = 16
  Step = 2
  Nudge = 1
  Knock = 3
  Range <- SmallRange
  Full = 3
  Hard <- SmallHard
  Soft <- SmallSoft
  Reach = 20
  Menu <- AnyKeys
  Choices <- AnyChoice
  Resettable = TRUE
  Habits = {"duel", "moves", "jumps"}
SPECIFICATION MCSpec
INVARIANTS
  OneMoveAtATime
  LandsOnGround
PROPERTIES
  KnockbackIsSeen
  KnockedAway
