SPECIFICATION MCSpec
CONSTANTS
  u1 = u1
  u2 = u2
  f1 = f1
  f2 = f2
  j1 = j1
  j2 = j2
  p1 = p1
  a1 = a1
  a2 = a2
  b1 = b1
  b2 = b2
  c1 = c1
  c2 = c2
  s1 = s1
  k1 = k1
  k2 = k2
  g1 = g1
  r1 = r1
  r2 = r2
  m1 = m1
  Users = {u1, u2}
  Forecasts = {f1}
  Addresses = {}
  Jobs = {j1, j2}
  Urls = {p1}
  Grant = 2
  WalletGrant = 1
  RewardPoints = 1
  Stakes = {0, 2, 3}
  Page = 1
  CloseAt = 2
  MaxTime = 2
  MaxSubmissions = 2
  MaxHolds = 2
  MaxReports = 0
  Nil = Nil
  Profiles = {u1, u2}
  Owners = {a1, a2}
  Mints = {m1}
  Refreshes = {r1, r2}
  Balances = {3}
  MaxMoves = 2
  MaxRelinks = 1
  MaxRevision = 2
  None = Nil
  ProfileIds = {u1, u2}
  Pubkeys = {a1}
  Contexts = {c1, c2}
  Calls = {r1, r2}
  ChallengeLife = 1
  SessionLife = 2
  Switches = {TRUE}
  Befores = {"none"}
  MaxClock = 0
  MaxChallenges = 1
  MaxSessions = 3
  Null = Nil
  Requests = {r1, r2}
  Wallets = {a1}
  Signatures = {k1, k2}
  Limit = 2
  MaxReceipts = 2
  MaxAsks = 4
  Absent = Absent
SYMMETRY Symmetry
INVARIANTS
  PointsBalance
  BooksBalance
  TradesAsQuoted
  RefundsMeetPrefix
  SignInHolds
  CentsAccounted
PROPERTIES
  CutoffsGuarded
  EvidenceNeverOlder
  StampsKept
CHECK_DEADLOCK FALSE
