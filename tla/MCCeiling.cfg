SPECIFICATION Spec
CONSTANTS
  None = None
  Models <- MCModels
  NATIVE_DIMENSIONS <- MCNative
  Documents <- MCDocuments
  Settings <- BelowCeiling
  MaxElements = 3
  MaxRefused = 2
  PageBreak = 2
  MaxInputTokens = 4
  MaxBatchSize = 3
  batch_size = 2
  MaxAttempts = 2
  MaxFaults = 0
INVARIANT HardCeiling
CHECK_DEADLOCK FALSE
