SPECIFICATION FairSession
CONSTANTS
  c1 = c1  c2 = c2  main = main
  Callers = {c1}
  Handlers = {}
  Expiring = {}
  MaxCalls = 1
  MaxInbound = 2
  TornWrites = FALSE
  Main = main
  ErrCap = 2
  MaxEvents = 1
  MaxFailures = 0
  CloseAfter = 1
  CleanExit = FALSE
PROPERTY ClientExits
CHECK_DEADLOCK FALSE
