SPECIFICATION Spec
CONSTANTS
  None = None
  Conn = Conn
  c1 = c1  c2 = c2  h1 = h1  h2 = h2  l1 = l1  e1 = e1  e2 = e2
  Pages <- MCPages
  maxRetries = 1
INVARIANTS
  OpenIsCurrent
  OnceAtMostOnce
  CallGetsOwnResult
  TakenInOrder
  MissedOnlyIfTwice
PROPERTIES
  WritesSettle
  CloseEndsRun
  CallsSettle
CHECK_DEADLOCK FALSE
