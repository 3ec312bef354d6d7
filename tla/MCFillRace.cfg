SPECIFICATION Spec
CONSTANTS
  Readers = {r1}
  Editors = {e1}
  ScenarioIds = {1, 2}
  Verticals = {1}
  DefaultId = 2
  Lookups <- MCLookups
  TTL = 2
  FillDelay = 1
  MaxWrites = 1
  MaxTimeouts = 0
  MaxAttempts = 2
  None = None
INVARIANT CoherentAtHome
