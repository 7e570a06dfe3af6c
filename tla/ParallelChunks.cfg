CONSTANTS
  NodeLists <- MCNodeLists
  Start = 5
  ChunkBytes = {2, 3, 9}
  TableBytes = 4
  I32Max = 8
  BatchSize = 2
SPECIFICATION Spec
INVARIANTS
  EntriesLead
  SectionClosed
PROPERTIES
  ImplementsStream
CHECK_DEADLOCK FALSE
