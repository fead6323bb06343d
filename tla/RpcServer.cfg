SPECIFICATION FairSpec
CONSTANTS
  i1 = i1  i2 = i2  none = none  w1 = w1
  Ids = {i1, i2}
  NoId = none
  Cleaners = {w1}
  Expiring = {w1}
  ErrCap = 2
  MaxRequests = 2
  MaxEvents = 1
  MaxFailures = 2
  WaitEarly = TRUE
CHECK_DEADLOCK FALSE
INVARIANTS ResponsesMirrorRequests DoneIsAnswered CleanMeansQuiet
PROPERTIES RunReturns CleanReturns
