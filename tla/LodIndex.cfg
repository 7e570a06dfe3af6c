CONSTANTS
  RootSide = 8
  Spacing = 8
  MaxPointsPerNode = 2
  MaxOctreeDepth = 2
  Scale = 1
  Clouds <- MCClouds
SPECIFICATION Spec
INVARIANTS
  EachPointOnce
  NodesTile
  NodesFormTree
  PointsFindable
  RefusedOnlyIfCrowded
PROPERTY
  BuildEnds
CHECK_DEADLOCK FALSE
