SPECIFICATION MCSpec
CONSTANTS
  w1 = w1
  w2 = w2
  s1 = s1
  s2 = s2
  u1 = u1
  c1 = c1
  c2 = c2
  a1 = a1
  Workers = {w1, w2}
  MaxRev = 2
  Lease = 1
  Backoff = 1
  Resend = 4
  TxLife = 1
  Challenge = 1
  MaxLate = 1
  MaxSends = 1
  MaxFaults = 2
  Lag = TRUE
  MaxEarly = 0
  Held = FALSE
  None = None
  Callers = {s1, s2}
  Amounts = {1, 2, 4}
  Limit = 3
  Days = {0, 1}
  Requesters = {w1, w2}
  Users = {u1}
  Candidates = {c1, c2}
  MaxEpoch = 1
  MaxSlot = 5
  MaxRevisions = 2
  MaxGeneration = 1
  Missing = None
  Watchers = {w1, w2}
  Articles = {a1}
  Contents = {c1, c2}
  MaxAttempts = 1
  Budget = 3
  MaxDue = 1
  MaxCrashes = 0
  MaxOps = 0
  MaxClaims = 2
  Nil = None
SYMMETRY Symmetry
INVARIANTS
  NeverMisjudged
  FinalOnlyAfterChain
  LedgerWithinLimit
  FoundStaysHeld
PROPERTIES
  MirrorsThePast
  ChainFollows
CHECK_DEADLOCK FALSE
