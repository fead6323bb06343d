SPECIFICATION FairSpec
CONSTANTS
  c1 = c1
  c2 = c2
  h1 = h1
  h2 = h2
  Callers = {c1, c2, h1, h2}
  Handlers = {h1, h2}
  Expiring = {c2, h1}
  MaxCalls = 2
  MaxInbound = 2
  TornWrites = TRUE
INVARIANTS ResponseIsFirstMatch NoLeakedEntry StrayOnlyWhenLate HandledBeforeReturn PanicOnlyIfTorn
PROPERTIES SendReturns ReadingNotBlocked AnsweredReturns
CHECK_DEADLOCK FALSE
