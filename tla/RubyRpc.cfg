SPECIFICATION Spec
CONSTANTS
  Callers = {c1, c2}
  None = None
  Nothing = Nothing
  Nil = Nil
  BufferLimit = 0
  MaxUnusual = 1
INVARIANTS
  ReadInOrder
  CallGetsOwnResponse
PROPERTIES
  WaitReturns
  CallsReturn
CHECK_DEADLOCK FALSE
