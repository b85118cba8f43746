SPECIFICATION ServeSpec
CONSTANTS
  Backends = {b1, b2, b3}
  Tripping = {}
  MaxAttempts = 2
  None = None
INVARIANT DiscardedIsReplaced
CHECK_DEADLOCK FALSE
