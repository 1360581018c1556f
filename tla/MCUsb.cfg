CONSTANTS
  Prompt = TRUE
  Patient = FALSE
  Pulled = TRUE
  Notices = TRUE
  Refuses = TRUE
  OtherBits = TRUE
  Retries <- Some
  Reports <- Two
  NoKeys <- Nothing
  Registers = {0, 2}
  Values = {1, 2}
  Idle = 0
  Gap = 2
SPECIFICATION MCSpec
INVARIANTS
  InStep
  PortsAgree
  NoticeEndsIt
  ListsAreRight
  WordsArrive
