CONSTANTS
  App = {netflix, youtube}
  Context = {c1, c2, c3}
  HostRunsLoop = TRUE
  MaxTerms = 1
  None = None
SPECIFICATION AsyncSpec
INVARIANTS AsyncTypeOK TableHoldsPending ContextsAccountedFor
\* Nothing is said of the process once it has used freed memory.
CHECK_DEADLOCK FALSE
