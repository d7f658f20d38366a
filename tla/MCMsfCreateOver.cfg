SPECIFICATION OverSpec
CONSTANTS
  d1 = d1
  d2 = d2
  Data <- Contents2
  Blank = Blank
  Nil = Nil
  NoHeader = NoHeader
  PageSize = 4
  MaxPages = 14
  MaxStreams = 2
  FixedStreams = 1
  MaxStreamPages = 2
  EntriesPerPage = 8
  BitsPerFpmPage = 8
  AppendErrors = FALSE
PROPERTIES CommittedUntouched
CHECK_DEADLOCK FALSE
