SPECIFICATION WatchSpec
CONSTANTS
  Watchers = {w1, w2}
  Articles = {a1}
  Contents = {c1}
  MaxAttempts = 2
  Budget = 2
  MaxDue = 0
  MaxClaims = 2
  MaxCrashes = 0
  MaxOps = 0
  Nil = Nil
SYMMETRY Symmetry
INVARIANT HeldWhileAsked
CHECK_DEADLOCK FALSE
