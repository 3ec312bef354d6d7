SPECIFICATION Spec
CONSTANTS
  Readers = {r1}
  Editors = {e1, e2}
  ScenarioIds = {1, 2}
  Verticals = {1}
  DefaultId = 2
  Lookups <- MCLookups
  TTL = 2
  FillDelay = 1
  MaxWrites = 2
  MaxTimeouts = 1
  MaxAttempts = 2
  None = None
INVARIANTS
  TypeOK
  FreshWithin
  CoherentUnlessOvertaken
PROPERTY NoLostUpdate
SYMMETRY EditorSymmetry
