SPECIFICATION Spec
CONSTANTS
  s1 = s1
  s2 = s2
  yes = yes
  no = no
  d1 = d1
  d2 = d2
  d3 = d3
  p1 = p1
  p2 = p2
  None = None
  Specs = {s1, s2}
  OpenAt <- MCOpenAt
  CloseAt <- MCCloseAt
  Outcomes = {yes, no}
  YES = yes
  DisputeIds = {d1, d2, d3}
  MaxDisputes = 2
  Providers = {p1, p2}
  Durations = {1, 2}
  MaxTime = 6
SYMMETRY Symmetry
INVARIANT OpenToDispute
CHECK_DEADLOCK FALSE
