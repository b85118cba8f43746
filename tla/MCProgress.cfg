SPECIFICATION Spec
CONSTANTS
  Backends = {b1, b2, b3}
  Tripping = {b1, b2}
  MaxAttempts = 2
  None = None
  MaxChunks = 2
  NoVerdict = NoVerdict
  PdBackends = {p1, p2, d1}
  PrefillUrls = {p1, p2}
  BodyShapes <- SomeBodies
  NotJson = NotJson
  NoParams = NoParams
  RemoteDecode = RemoteDecode
  ProbeUrls = {a}
  Passive = {a}
  MaxRegistrations = 3
  Interval = 3
  UnhealthyInterval = 2
  SuccessThreshold = 2
  FailureThreshold = 2
  Never = Never
  Names = {n1, n2}
  PodShapes <- SomePods
  SliceShapes <- SomeSlices
  PortName = "http"
  Port = 8080
  StaticUrls <- Static
  Unset = Unset
INVARIANTS AttemptsSound BlamelessBackend DecodeIsTheRequest AdmittedByOwnProbe
PROPERTIES ServeReturns AttemptEnds HealthFollows DiscoveryFollows
CHECK_DEADLOCK FALSE
