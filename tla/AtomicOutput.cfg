CONSTANTS
  w1 = w1
  w2 = w2
  older = older
  Writers = {w1, w2}
  Before = older
  MaxLosses = 2
SPECIFICATION OutputSpec
INVARIANTS
  NeverPartial
  OkIsDurable
  NoLitter
PROPERTIES
  ImplementsPublish
CHECK_DEADLOCK FALSE
