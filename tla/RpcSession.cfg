SPECIFICATION FairSession
CONSTANTS
  c1 = c1  c2 = c2  main = main
  Callers = {c2}
  Handlers = {}
  Expiring = {c2}
  MaxCalls = 2
  MaxInbound = 3
  TornWrites = FALSE
  Main = main
  ErrCap = 2
  MaxEvents = 1
  MaxFailures = 0
  CloseAfter = 0
  CleanExit = TRUE
INVARIANTS CallGetsOwnResult
PROPERTIES ServerIsPeer ClientIsPeer CallsReturn
CHECK_DEADLOCK FALSE
