SPECIFICATION MCSpec
CONSTANTS
  Names = {"/names", "/src/a", "/src/b"}
  NamesStream = "/names"
  Contents = {"text", "names"}
  EmptyNames = "names"
  Malformed = {"text"}
  Torn = Torn
  Closed = Closed
  Empty = Empty
  FirstStream = 5
  MaxStreams = 8
  MaxEdits = 5
  Clients = {c1, c2}
  Aliases = {a}
  Files = {f1, f2}
  Absent = Absent
INVARIANTS NamesResolve NoOrphans AddSrcAllOrNothing NamesCurrent
PROPERTIES ImplementsNamedStore ReplacedOnlyByOverlap
CHECK_DEADLOCK FALSE
