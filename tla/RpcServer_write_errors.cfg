SPECIFICATION FairSpec
CONSTANTS
  i1 = i1  i2 = i2  none = none  w1 = w1
  Ids = {i1}
  NoId = none
  Cleaners = {w1}
  Expiring = {}
  ErrCap = 2
  MaxRequests = 2
  MaxEvents = 0
  MaxFailures = 2
  WaitEarly = FALSE
CHECK_DEADLOCK FALSE
PROPERTY WaitReturnsAfterEOF
