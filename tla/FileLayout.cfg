CONSTANTS
  RootSide = 8
  Spacing = 8
  EntryBytes = 32
  MaxPageBytes = 288
  MaxTotalBytes = 2000
  MaxChunkBytes = 20
  PageMaxEntries = 9
  MaxVlrCount = 7
  MaxEvlrCount = 4
  MaxSourceEvlrBytes = 90200
  MaxVlrSectionBytes = 66200
  WktBytes = 25
  U16Max = 65535
  LazBytes = 46
  ChunkBytes = 10
  TableBytes = 12
  Jobs <- MCJobs
  Damaged <- MCDamaged
SPECIFICATION Spec
INVARIANTS
  NeverRefused
  WrittenWellFormed
  AllNodesWritten
  PagesWithinLimit
  RecordsCarried
  ReadersAgree
CHECK_DEADLOCK FALSE
