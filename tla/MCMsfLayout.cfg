SPECIFICATION MCFairSpec
CONSTANTS
  d1 = d1
  d2 = d2
  Data <- Contents2
  Blank = Blank
  Nil = Nil
  NoHeader = NoHeader
  PageSize = 5
  MaxPages = 26
  MaxStreams = 2
  FixedStreams = 1
  MaxStreamPages = 2
  EntriesPerPage = 2
  BitsPerFpmPage = 5
  AppendErrors = FALSE
  ShrinkAfterFailure = TRUE
  MaxEdits = 5
INVARIANTS RecoveryInv
PROPERTIES CommittedUntouched ImplementsStore CommitEnds
CHECK_DEADLOCK FALSE
