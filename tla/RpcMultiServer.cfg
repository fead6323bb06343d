SPECIFICATION Spec
CONSTANTS
  a = a
  b = b
  c = c
  Writers = {a, b, c}
  Senders = {s1}
  Nil = Nil
  MaxEvents = 1
  Waiters = {w1}
  MaxRequests = 1
SYMMETRY Symmetry
INVARIANTS
  UndisturbedReachesAll
  WaitMeansEnded
CHECK_DEADLOCK FALSE
