CONSTANTS
  N = 3
  Granularity = 2
  Target = 30
  TargetLeeway = 70
  ExplorationSteps = 2
  RandomEvery = 1
  SoftLimit = 3
  ForgetAfter = 2
  Loads = {1}
  Times = {1, 2}
  Energies = {1, 2}
  Scale = 12
SPECIFICATION FairSpec
INVARIANTS
  Evenly
PROPERTIES
  ParetoOptimal
  TriedAgain
