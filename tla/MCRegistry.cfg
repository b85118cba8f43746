SPECIFICATION Spec
CONSTANTS
  Urls = {u1}
  Objects = {o1, o2, o3}
  Writers = {w1, w2}
  Drainers = {d1, d2}
  Requests = {r1}
  None = None
SYMMETRY Symmetry
INVARIANTS DrainHasWatcher IndexFollows
PROPERTIES ReconcileDrains
