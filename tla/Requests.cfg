\* Two calls of either driver over a list of two models, two posts before a 429 is given
\* up; and every input of MC_Requests.
CONSTANTS
  c1 = c1  c2 = c2
  None = None  Error = Error
  Call = {c1, c2}
  Models = 2
  MaxAttempts = 2
  Drivers = {"dial", "openai"}
  ResponseModes = {"text", "json_object"}
SPECIFICATION MCSpec
INVARIANTS
  GaveUpAfterAll
  RememberedAnswered
  ResultsAreData
  PromptsTakenWhole
  PromptsAsSent
  FailuresAreNotScores
  BestAreOffered
  LastWordCounts
PROPERTIES
  CallsEnd
CHECK_DEADLOCK FALSE
