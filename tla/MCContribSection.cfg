SPECIFICATION Spec
CONSTANTS
  MaxStrings = 3
  MaxSyms = 3
  MaxScopes = 6
  MaxPieces = 2
  MaxFields = 3
  MaxRecords = 3
  MinChunkLen = 18
INVARIANTS ContribsOfSection
