SPECIFICATION Spec
CONSTANTS
  Nil = Nil
  Error = Error
  NoWriter = NoWriter
  NoImage = NoImage
  NilSize = 5
  MaxFileOffset = 20
  Lengths = {1, 2}
  DefaultThreshold = 10
  Thresholds = {}
  Alignments = {1}
  CompressedSizes = {1, 2}
  MinFileSizes = {16}
  MaxStreams = 3
  MaxCalls = 3
  MaxFailures = 0
  AnyCalls = TRUE
INVARIANT OwnBytes
CHECK_DEADLOCK FALSE
