SPECIFICATION Spec
CONSTANTS
  None = None
  Routes = 2
  MaxUses = 4
  MaxEvents = 2
INVARIANT
  WaitingIffCalling
PROPERTIES
  LostOnlyIfNested
  CallsEnd
CHECK_DEADLOCK FALSE
