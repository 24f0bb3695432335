CONSTANTS
  Msg = {m1, m2}
  HostRunsLoop = TRUE
  MaxRequests = 4
  None = None
SPECIFICATION Spec
INVARIANTS TypeOK TimersFollowRequests TimeoutStrikesItsOwn SlowRequestIsTimed
\* The requests are bounded, and nothing is said of a wild process.
CHECK_DEADLOCK FALSE
