SPECIFICATION FairSpec
CONSTANTS
  None = None
  Models <- MCModels
  NATIVE_DIMENSIONS <- MCNative
  Documents <- MCDocuments
  Settings <- MCSettings
  MaxElements = 4
  MaxRefused = 2
  PageBreak = 2
  MaxInputTokens = 4
  MaxBatchSize = 3
  batch_size = 2
  MaxAttempts = 2
  MaxFaults = 2
INVARIANTS
  TypeOK
  ContentKept
  InOrder
  TableAlone
  OvershootBounded
  DescribesItsStart
  VectorsMatch
  DimensionsAgree
PROPERTY ContentSettles
CHECK_DEADLOCK FALSE
