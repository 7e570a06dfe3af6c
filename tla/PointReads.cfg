CONSTANTS
  PointFiles <- MCPointFiles
  Everywhere = Everywhere
  Within = {{11, 13, 16}, {}}
  Noise = 99
  Columns = {"x", "gps_time"}
  BatchSizes = {1, 2}
  Gap = 2
  MaxRange = 5
SPECIFICATION Spec
INVARIANTS
  ReadsInsideChunks
  HintBrackets
  RequestsFrugal
PROPERTY
  ImplementsAnswer
CHECK_DEADLOCK FALSE
