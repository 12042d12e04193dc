SPECIFICATION Spec
CONSTANTS
  root = root
  mid = mid
  leaf = leaf
  search = search
  stop = stop
  skill = skill
  Agent = {root, mid, leaf}
  Root = root
  Tool = {search, stop}
  None = None
  Children <- Chain
  Tools <- ToolTable
  TerminalTools = {stop}
  Skill = {skill}
  QueriesCaller = {mid, leaf}
  AsksHost = {leaf}
  Policy <- Policies
  Routes <- RouteSet
  HasUser = TRUE
  MaxRuns = 5
  MaxTurns <- TurnBound
INVARIANTS
  OpenContextsAreWaiting
  CallbackClimbsCalls
  AnswererIsEntitled
  OnlyDeclaredExecuted
CHECK_DEADLOCK FALSE
