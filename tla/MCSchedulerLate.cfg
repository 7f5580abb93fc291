SPECIFICATION Spec
CONSTANTS
  p1 = p1
  p2 = p2
  p3 = p3
  k1 = k1
  k2 = k2
  yes = yes
  no = no
  None = None
  Passes = {p1, p2}
  Keys = {k1}
  Outcomes = {yes}
  CloseAt = 1
  Challenge = 1
  MaxDisputes = 1
  MaxTime = 4
  Lease = 2
  AITimeout = 1
  Counted = 1
  Delays <- MCDelays
  MaxTransitions = 4
SYMMETRY Symmetry
INVARIANT LateAnswersRefused
CHECK_DEADLOCK FALSE
