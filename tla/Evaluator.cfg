\* One socket, a batch of one case, a scoring request and /close, at any moment.
CONSTANTS
  s1 = s1  s2 = s2  b1 = b1  e1 = e1
  None = none
  none = none
  Socket <- OneSocket
  Batch <- OneBatch
  Request <- OneRequest
  Initializers <- Initialized
  Modes <- UnattendedMode
  Cases = 1
  MaxMessages = 1
SPECIFICATION Spec
INVARIANTS
  CasesScoreTheirRun
  UsageOfOneRun
PROPERTIES
  BatchEnds
CHECK_DEADLOCK FALSE
