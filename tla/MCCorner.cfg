CONSTANTS
  Beat = 11
  Rest = 30
  Reel = 41
  Bodies <- Body
  Rise = 8
  Ground = 300
  JumpFrom = 284
  Apex = 120
  HeadRoom = 50
  Width = 1024
  StartX <- RealStart
  XMax = 639
  YMax = 479
  Size = 80
  Edge = 10
  Arm = 40
  Step = 5
  Nudge = 1
  Knock = 8
  Range <- RealRange
  Full = 200
  Hard <- RealHard
  Soft <- RealSoft
  Reach = 70
  Menu <- AnyKeys
  Choices <- AnyChoice
  Resettable = TRUE
  Habits = {"corner"}
SPECIFICATION MCSpec
INVARIANTS
  ColumnsOnScreen
