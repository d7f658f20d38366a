SPECIFICATION MCSpec
CONSTANTS
  d1 = d1
  d2 = d2
  Data <- Contents2
  Blank = Blank
  Nil = Nil
  NoHeader = NoHeader
  PageSize = 4
  MaxPages = 18
  MaxStreams = 3
  FixedStreams = 1
  MaxStreamPages = 2
  EntriesPerPage = 8
  BitsPerFpmPage = 8
  AppendErrors = TRUE
  ShrinkAfterFailure = TRUE
  MaxEdits = 4
SYMMETRY Sym
INVARIANTS ReopenSucceeds
CHECK_DEADLOCK FALSE
