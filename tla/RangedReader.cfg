SPECIFICATION FairSpec
CONSTANTS
  RootSide = 8
  Spacing = 8
  EntryBytes = 32
  MaxPageBytes = 96
  MaxTotalBytes = 160
  MaxChunkBytes = 20
  MaxFaults = 1
  Files <- MCFiles
  Queries <- MCQueries
INVARIANTS
  AnswerComplete
  ChunksDisjoint
  AcceptedTotalExact
  BytesWithinBudget
PROPERTIES
  CompletedOnce
  FetchedWhenReachable
  CallReturns
  ImplementsService
CHECK_DEADLOCK FALSE
