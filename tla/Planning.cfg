\* Every kind of plan, two revisions of at most four steps, a timeout at any moment and a
\* parent agent that may answer a safety cap.
SPECIFICATION FairSpec
CONSTANTS
  a = a
  b = b
  c = c
  d = d
  StepId = {a, b, c, d}
  NoStep = NoStep
  Plans <- AllPlans
  ParallelExecution = TRUE
  MaxSteps = 3
  MaxRevisions = 2
  StepTimeout = 1
  Caller = "agent"
  ResolverRaises = TRUE
  PostHookContinues = TRUE
INVARIANTS
  DependenciesFirst
  WorkStartedOnce
PROPERTIES
  HistoryImmutable
  ImplementsLifecycle
  
