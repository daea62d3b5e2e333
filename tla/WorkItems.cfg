SPECIFICATION Spec
CONSTANTS
  Localities = {0, 1}
  Main = 0
  LoopDepth <- OneTwo
  Kinds = {"closure", "after"}
  Movable = {"after"}
INVARIANT NothingAfterWait
PROPERTIES ImplementsLoopOrder WaitReturns
CHECK_DEADLOCK FALSE
