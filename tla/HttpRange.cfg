CONSTANTS
  Versions <- MCVersions
  Asks <- MCAsks
  MaxRequests = 3
SPECIFICATION HttpSpec
INVARIANTS
  RightBytes
  OneLength
