CONSTANTS
  HeaderGap = 2
  Dict <- MCDict
  Starts <- MCStarts
  Source <- MCSource
  ReadTags <- MCReadTags
  MaxRead <- MCMaxRead
  MaxCount = 2
  MaxEdits = 2
  ReadEdits = 1
SPECIFICATION Spec
INVARIANTS TypeOK ReadsBack
PROPERTIES EditsDocument EditsKeepValid
CHECK_DEADLOCK FALSE
