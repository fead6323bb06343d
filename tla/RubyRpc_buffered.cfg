SPECIFICATION Spec
CONSTANTS
  Callers = {c1, c2}
  None = None
  Nothing = Nothing
  Nil = Nil
  BufferLimit = 1
  MaxUnusual = 1
INVARIANT ReadInOrder
CHECK_DEADLOCK FALSE
