CONSTANTS
  HttpRequest <- MCRequest
  Registered = {"YouTube", "netflix", "cut off"}
  YouTube = {"YouTube"}
  Restricted = {"YouTube", "netflix"}
SPECIFICATION RoutingSpec
INVARIANTS HandledIsDocumented OriginIsRespected
\* A behaviour ends when its request is routed.
CHECK_DEADLOCK FALSE
