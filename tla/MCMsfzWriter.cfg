SPECIFICATION Spec
CONSTANTS
  Nil = Nil
  Error = Error
  NoWriter = NoWriter
  NoImage = NoImage
  NilSize = 5
  MaxFileOffset = 7
  Lengths = {1, 2}
  DefaultThreshold = 3
  Thresholds = {2}
  Alignments = {1}
  CompressedSizes = {2}
  MinFileSizes = {16}
  MaxStreams = 3
  MaxCalls = 3
  MaxFailures = 1
  AnyCalls = FALSE
INVARIANTS TypeOK ChunkShape ReadsBack ReadAtAgrees
PROPERTY ImplementsArchive
CHECK_DEADLOCK FALSE
