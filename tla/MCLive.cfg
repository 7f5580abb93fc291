SPECIFICATION FairSpec
CONSTANTS
  w1 = w1
  f1 = f1
  u1 = u1
  u2 = u2
  b1 = b1
  c1 = c1
  s1 = s1
  k1 = k1
  g1 = g1
  a1 = a1
  t1 = t1
  Nil = Nil
PROPERTIES
  EventuallyConfirmed
  BooksClosed
  ReviewEnds
CHECK_DEADLOCK FALSE
