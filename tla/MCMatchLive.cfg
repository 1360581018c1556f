CONSTANTS
  Beat = 3
  Rest = 3
  Reel = 3
  Bodies <- Body
  Rise = 1
  Ground = 7
  JumpFrom = 6
  Apex = 3
  HeadRoom = 2
  Width = 40
  StartX <- AiStart
  XMax = 32
  YMax = 12
  Size = 4
  Edge = 3
  Arm = 6
  Step = 2
  Nudge = 1
  Knock = 3
  Range <- AiRange
  Full = 3
  Hard <- SmallHard
  Soft <- SmallSoft
  Reach = 11
  Menu <- AnyKeys
  Choices <- AnyChoice
  Resettable = TRUE
  Habits = {"knockout", "jumps", "chase"}
SPECIFICATION MCFairSpec
PROPERTIES
  VictoryHalts
  ClkSettles
  AIClosesIn
