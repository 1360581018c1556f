CONSTANTS
  Prompt = TRUE
  Patient = TRUE
  Pulled = TRUE
  Notices = FALSE
  Refuses = FALSE
  OtherBits = FALSE
  Retries <- NoErrors
  Reports <- NoneOrBoth
  NoKeys <- NoneDown
SPECIFICATION LiveSpec
INVARIANTS
  PolledInStep
PROPERTIES
  GetsPolled
  EveryKeyArrives
