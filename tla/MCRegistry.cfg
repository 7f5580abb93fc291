SPECIFICATION MCSpec
CONSTANTS
  k1 = k1
  k2 = k2
  k3 = k3
  k4 = k4
  u1 = u1
  u2 = u2
  r1 = r1
  r2 = r2
  c1 = c1
  Zero = Zero
  Keys = {k1, k2, k3, k4}
  InitialAdmin = k1
  Default = Default
  MaxChanges = 3
  MaxSigned = 3
  Users = {u1, u2}
  Resolutions = {r1, r2}
  Yes = {r1}
  Commitments = {c1}
  OpenAt = 1
  CloseAt = 2
  MinChallenge = 2
  MaxDisputes = 1
  BodyLength = 1
  Untils = {3}
  MaxLag = 1
  MaxEpoch = 2
  MaxTime = 5
SYMMETRY Symmetry
INVARIANTS
  NeverBricked
  FullChainWindow
  SealedStaysFinalizable
  SealsRespectReviews
  ReadAsWritten
PROPERTIES
  NoStaleAppointment
  ReplacedOnlyReviewed
CHECK_DEADLOCK FALSE
