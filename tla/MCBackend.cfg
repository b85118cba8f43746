SPECIFICATION Spec
CONSTANTS
  Leases = {l1, l2, l3}
  Estimates = {0, 1, 2}
  Requests = {r1, r2}
  Window = 2
  Buckets = 3
  MinRequests = 2
  RateNum = 1
  RateDen = 2
  OpenFor = 2
  HalfOpenMax = 1
  HalfOpenSuccesses = 2
  MaxPerSecond = 2
  Durations = {1, 2, 3}
  TtftKept = 2
  MinSamples = 2
  WindowCap = 3
  CacheTTL = 2
  NotCached = NotCached
  Urls = {u1, u2}
  Droppers = {d1}
  Inferences = {i1}
  None = None
INVARIANTS InflightIsLeases GaugesAreLeases ReleasedHoldsNothing GateHasHolder
           TokensAreProbes RingIsWindow PercentileIsRecent SlotInOnePlace NoInheritance
PROPERTY Recovers
CHECK_DEADLOCK FALSE
