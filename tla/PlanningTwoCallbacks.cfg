SPECIFICATION Spec
CONSTANTS
  a = a
  b = b
  c = c
  d = d
  StepId = {a, b, c, d}
  NoStep = NoStep
  Plans <- TwoAskPlans
  ParallelExecution = TRUE
  MaxSteps = 5
  MaxRevisions = 1
  StepTimeout = 0
  Caller = "host"
  ResolverRaises = FALSE
  PostHookContinues = FALSE
INVARIANTS
  PlanNeverStuck
