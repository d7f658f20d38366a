SPECIFICATION FairSpec
CONSTANTS
  PageSize = 4
  MaxPages = 30
  Layouts <- SomeLayouts
  Zero = Zero
  Stale = Stale
  MaxLen = 10
  MaxCalls = 2
  GrowthCalls <- SomeGrowth
  ShortWrites = FALSE
INVARIANTS TypeOK BytesAsWritten PagesMatchSize ReadsSeeContents
PROPERTIES StraightLine CallsEnd
CHECK_DEADLOCK FALSE
