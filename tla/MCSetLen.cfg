SPECIFICATION Spec
CONSTANTS
  PageSize = 4
  MaxPages = 30
  Layouts <- SomeLayouts
  Zero = Zero
  Stale = Stale
  MaxLen = 10
  MaxCalls = 2
  GrowthCalls <- AnyGrowth
  ShortWrites = FALSE
INVARIANTS BytesAsWritten
CHECK_DEADLOCK FALSE
