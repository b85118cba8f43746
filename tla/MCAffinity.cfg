SPECIFICATION Spec
CONSTANTS
  Paths <- SmallPaths
  Slots = {s1, s2}
  Ttl = 1
  MaxCascade = 4
  Nodes = {n1}
  Fleet = {b1, b2, b3}
  Reqs = {q1, q2, q3}
  RefusalTtl = 1
  MinRebalanceLoad = 4
  MaxOther = 3
  Null = Null
  Configs <- SmallConfigs
  Loads <- SmallLoads
  Tokens = 1
SYMMETRY Symmetry
INVARIANTS IndexExact
           GuardIsHolders ForecastKept
PROPERTIES ImplementsStore RefusalEnds
CHECK_DEADLOCK FALSE
