CONSTANTS
  AppName = {"spotify", "spotify-kids"}
  OtherName = {}
  System = "system"
  Nobody = "nobody"
  Prefixed <- MCPrefixed
  CmdLine <- MCSpotify
  SystemEnabled = TRUE
  AppLists <- MCLists
  Reports <- MCReports
  ClientVersions <- MCVersions
  MaxInstances = 3
  MaxRegistrations = 1
SPECIFICATION Spec
INVARIANTS TypeOK SingletonApps HeldInstanceIsLive StoppedReplyAllowsLaunch
PROPERTY DroppedOnlyWhenStopped
\* Nothing is said of the process once it has used freed memory.
CHECK_DEADLOCK FALSE
