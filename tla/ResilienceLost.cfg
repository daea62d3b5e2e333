SPECIFICATION Spec
CONSTANTS
  N = 3
  Items = {w1, w2}
  Delta = 1
  Mortal <- AllButConsole
  MaxCrashes = 1
  Overlapping = TRUE
INVARIANT
  NoItemLost
