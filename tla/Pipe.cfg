SPECIFICATION FairPipeSpec
CONSTANTS
  w1 = w1  w2 = w2  r1 = r1  r2 = r2  e1 = e1  e2 = e2  none = none
  Writers = {w1, w2}
  Readers = {r1, r2}
  Closers = {e1, e2}
  Cap = 1
  None = none
  MaxWrites = 2
INVARIANT ErrAfterAll
PROPERTIES ImplementsFifo CloseReleases
CHECK_DEADLOCK FALSE
