SPECIFICATION Spec
CONSTANTS
  N = 3
  Granularity = 2
  Frequencies = {1}
  InoMappings <- SomeMappings
  PolicyNames = {"tuned", "ino"}
  Toggled = {0}
INVARIANTS
  TypeOK
  Routed
  Realised
PROPERTIES
  SameNodesTakePart
  SomebodyStaysActive
