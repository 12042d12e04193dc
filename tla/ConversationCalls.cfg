SPECIFICATION Spec
CONSTANTS
  alice = alice
  bob = bob
  Caller = {alice, bob}
  MaxRequests = 3
  MaxIterations = 2
  CanDelete = TRUE
INVARIANTS
  AnswersFollowQuestions
  StoredOnce
PROPERTIES
  DeletedStaysDeleted
CHECK_DEADLOCK FALSE
