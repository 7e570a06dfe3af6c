SPECIFICATION Spec
CONSTANTS
  RootSide = 8
  Spacing = 8
  EntryBytes = 32
  MaxPageBytes = 96
  MaxTotalBytes = 256
  MaxChunkBytes = 20
  MaxFaults = 1
  Files <- ChainOnly
  Queries <- ValidQueries
INVARIANT AnswerAlwaysComplete
CHECK_DEADLOCK FALSE
