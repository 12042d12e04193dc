SPECIFICATION Spec
CONSTANTS
  plain = plain
  chat = chat
  a = a
  b = b
  c = c
  d = d
  e = e
  x = x
  y = y
  Text = {x, y}
  StepId = {a, b, c, d, e}
  Workflow = {plain, chat}
  None = None
  First = {plain, chat}
  Entry <- EntryTable
  Steps <- StepTable
  MaxSteps <- MaxTable
  Mutations <- MutationTable
INVARIANTS
  ModelSeesTask
  EphemeralForgotten
PROPERTIES
  WorkflowEnds
CHECK_DEADLOCK FALSE
