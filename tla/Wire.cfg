SPECIFICATION Spec
CONSTANTS
  Threads = {t1, t2}
  Names <- MCNames
  Messages <- MCMessages
INVARIANTS
  FramedReadBack
PROPERTIES
  WritersReturn
  FramedGetThrough
CHECK_DEADLOCK FALSE
