CONSTANTS
  Records <- MCRecords
  Width = 2
  Capacity = 3
  MaxPushes = 3
  Sources <- MCSources
  Declared <- MCDeclared
  Offsets <- MCOffsets
  Scale = 4
  MaxQuantized = 9
  Stride = 2
SPECIFICATION CallSpec
INVARIANTS
  RecordsFaithful
  SummaryFaithful
  ConversionWhole
CHECK_DEADLOCK FALSE
