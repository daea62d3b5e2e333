SPECIFICATION Spec
CONSTANTS
  Localities = {0, 1}
  Main = 0
  LoopDepth <- OneTwo
  Kinds = {"closure"}
  Movable = {"closure"}
INVARIANT NeighboursRanBefore
CHECK_DEADLOCK FALSE
