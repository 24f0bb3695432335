CONSTANTS
  Message = {m1, m2}
  NoMessage = NoMessage
  Garbage = Garbage
  MaxSends = 3
SPECIFICATION FairSpec
INVARIANTS
  TypeOK
  FifoUnlessRaced
  StoppedThreadNeverBlocks
PROPERTIES
  StopTerminatesThread
  ImplementsChannel
\* The service stops: once the thread is done and no one sends, nothing happens.
CHECK_DEADLOCK FALSE
