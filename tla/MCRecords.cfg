SPECIFICATION MCSpec
CONSTANTS
  s1 = s1
  s2 = s2
  yes = yes
  no = no
  invalid = invalid
  d1 = d1
  d2 = d2
  d3 = d3
  p1 = p1
  p2 = p2
  m1 = m1
  m2 = m2
  m3 = m3
  op = op
  None = None
  Specs = {s1, s2}
  OpenAt <- MCOpenAt
  CloseAt <- MCCloseAt
  Outcomes = {yes, no}
  YES = yes
  DisputeIds = {d1, d2, d3}
  MaxDisputes = 2
  Providers = {p1, p2}
  Durations = {1, 2}
  MaxTime = 5
  Configs = {m1, m2, m3}
  Provider <- MCProvider
  Orders <- MCOrders
  Primary = {s1, s2}
  Fallback = {yes}
  Announced = s1
  CitedPage = no
  Opening = 2
  Close = 4
  Observed = 3
  Day = 2
  MaxChanges = 1
  Absent = None
  Passes = {p1, p2}
  Operator = op
  Publication <- MCPublication
  Unknown = None
  Evidences <- MCEvidences
  Results = {yes, invalid}
  INVALID = invalid
  ClosesAt = 2
  CollectedAt = 4
  MaxAnswers = 2
  Nil = None
  Requests = {p1, p2}
  Languages = {yes, no}
  Editions = {s1, s2}
  EditionFacts <- MCEditionFacts
  OriginalFacts = 0
  Fingerprint <- MCFingerprint
  Limit <- MCLimit
  Minute = 1
  Lease = 1
  MaxClock = 1
  MaxEdits = 2
  MaxCrashes = 1
  Null = None
  Ticks = {p1, p2}
  Users = {yes}
  Last = 2
  Cadence = 2
  Window = 3
  LeadTime = 2
  Mappings = {TRUE}
  Grid = 1
  MaxAge = 2
  Ttl = 1
  Retry = 1
  RefreshLease = 1
  MaxInstant = 2
  MaxTicks = 3
  MaxEvents = 1
  Empty = None
SYMMETRY Symmetry
INVARIANTS
  WellFormed
  WindowHonoured
  NeverStuck
  JudgedApart
PROPERTIES
  ReplacedOnlyIfRefuted
  RecordKept
  FeedFollowsStore
  TranslatedAsShown
  PlacedInTime
\* ARCHIVED accepts no command, and no time is left once MaxTime is reached.
CHECK_DEADLOCK FALSE
