CONSTANTS
  MaxThreads = 2
  Frequencies = 2
  Types <- MCTypes
  Leeway <- MCLeeway
  Values <- MCValues
  Gaps = {1, 6}
  Limits = {2}
  Word = 64
  MAXITERATIONS = 1
SPECIFICATION FairSpec
INVARIANTS
  EnoughSamples
PROPERTIES
  BestKept
  AllConverge
CHECK_DEADLOCK FALSE
