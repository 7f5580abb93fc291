SPECIFICATION Spec
CONSTANTS
  Workers = {w1}
  MaxRev = 2
  Lease = 1
  Backoff = 1
  Resend = 4
  TxLife = 1
  Challenge = 1
  MaxLate = 1
  MaxSends = 2
  MaxFaults = 1
  Lag = FALSE
  MaxEarly = 0
  Held = FALSE
  None = None
INVARIANT TransportFailuresRetried
CHECK_DEADLOCK FALSE
