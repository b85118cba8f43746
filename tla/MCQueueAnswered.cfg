SPECIFICATION Spec
CONSTANTS
  Requests = {r1, r2}
  Backends = {b1, b2}
  Flapping = {b2}
  Limit = 1
  Depth = 1
  None = None
  Gone = Gone
PROPERTY
  EveryRequestAnswered
