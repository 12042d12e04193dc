SPECIFICATION UsageSpec
CONSTANTS
  root = root
  left = left
  right = right
  leaf = leaf
  None = None
  Run <- Family
  Parent <- Parents
  Concurrent = TRUE
  Orphans = FALSE
  MaxStarts = 2
  MaxCalls = 3
INVARIANTS
  InclusiveCoversDescendants
CHECK_DEADLOCK FALSE
