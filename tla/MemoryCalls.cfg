SPECIFICATION MemorySpec
CONSTANTS
  c1 = c1
  c2 = c2
  c3 = c3
  c4 = c4
  session = session
  global = global
  group = group
  note = note
  Call = {c1, c2, c3, c4}
  None = None
  Parameter <- Parameters
  Session = session
  ConfiguredScopes = {global}
  AgentScopes <- CriticScope
  Scope = {session, global, group}
  Note = {note}
  Stored <- StoredEntries
  Writer = {c1, c2, c4}
  MaxUpdates = 1
INVARIANTS
  ParametersArrive
  UpdatesStay
CHECK_DEADLOCK FALSE
