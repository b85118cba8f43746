SPECIFICATION Spec
CONSTANTS
  Urls = {u1, u2}
  Objects = {o1, o2}
  Writers = {w1}
  Drainers = {d1}
  Requests = {r1}
  None = None
PROPERTIES DrainEnds
