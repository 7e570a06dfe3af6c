CONSTANTS
  RootSide = 8
  Spacing = 8
  MaxPointsPerNode = 2
  MaxOctreeDepth = 2
  Scale = 3
  Clouds <- SmallClouds
SPECIFICATION Spec
INVARIANT
  PointsFindable
CHECK_DEADLOCK FALSE
