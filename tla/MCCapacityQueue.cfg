SPECIFICATION Spec
CONSTANTS
  Requests = {r1, r2, r3, r4}
  Backends = {b1}
  Flapping = {}
  Limit = 1
  Depth = 2
  None = None
  Gone = Gone
SYMMETRY Symmetry
INVARIANTS
  TicketInOnePlace
  FreeSlotHasWake
