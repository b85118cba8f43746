SPECIFICATION Spec
CONSTANTS
  Requests = {r1, r2, r3}
  Backends = {b1}
  Flapping = {b1}
  Limit = 1
  Depth = 2
  None = None
  Gone = Gone
INVARIANT EveryWakeFindsAWaiter
