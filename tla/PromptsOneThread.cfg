SPECIFICATION FairSpec
CONSTANTS
  main = main
  other = other
  Thread <- OneThread
  None = None
  Unanswered = Unanswered
  MaxPrompts = 2
  MaxRuns = 2
  Impatient = FALSE
  Modes = {"standard", "no_callbacks"}
  CanClose = TRUE
  CanDisconnect = TRUE

  
PROPERTIES
  
  CloseEndsWaits
CHECK_DEADLOCK FALSE
