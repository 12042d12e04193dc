SPECIFICATION Spec
CONSTANTS
  c1 = c1
  c2 = c2
  Call = {c1, c2}
  Home = Home
  None = None
  MaxTroubles = 1
INVARIANTS
  AnswersAreOwn
  CancelledByOthers
PROPERTIES
  CallsEnd
CHECK_DEADLOCK FALSE
