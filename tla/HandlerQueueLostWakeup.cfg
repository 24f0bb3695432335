CONSTANTS
  Message = {m1}
  NoMessage = NoMessage
  Garbage = Garbage
  MaxSends = 2
SPECIFICATION Spec
INVARIANT BlockedOnlyWhenEmpty
CHECK_DEADLOCK FALSE
