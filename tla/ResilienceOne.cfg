SPECIFICATION FairSpec
CONSTANTS
  N = 4
  Items = {w1}
  Delta = 1
  Mortal = {2}
  MaxCrashes = 1
  Overlapping = FALSE
INVARIANTS
  TypeOK
  OnlyDeadSuspected
  CountInStep
  LoopsEnded
PROPERTIES
  RingRepaired
  ShutdownReturns
