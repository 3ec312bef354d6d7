SPECIFICATION Spec
CONSTANTS
  Callers = {c1, c2}
  Versions <- MCVersions
  NumChunks <- MCNumChunks
  TooLarge <- MCTooLarge
  BatchSize = 2
  MaxAttempts = 2
  MaxLate = 1
  None = None
INVARIANTS
  TypeOK
  ReceiptIsComplete
  OneVersion
SYMMETRY CallerSymmetry
