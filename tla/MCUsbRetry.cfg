CONSTANTS
  Prompt = TRUE
  Patient = TRUE
  Pulled = FALSE
  Notices = FALSE
  Refuses = FALSE
  OtherBits = FALSE
  Retries <- Errors
  Reports <- NoneOrBoth
  NoKeys <- NoneDown
SPECIFICATION LiveSpec
PROPERTIES
  FailedIsRepeated
