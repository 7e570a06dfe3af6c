SPECIFICATION Spec
CONSTANTS
  RootSide = 8
  Spacing = 8
  EntryBytes = 32
  MaxPageBytes = 96
  MaxTotalBytes = 160
  MaxChunkBytes = 20
  MaxFaults = 1
  Files <- MCFiles
  Queries <- MCQueries
INVARIANTS
  OpensWellFormed
  TotalExact
PROPERTIES
  ImplementsService
CHECK_DEADLOCK FALSE
