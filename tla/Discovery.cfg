CONSTANTS
  HostName = {h1, h2}
  Empty = Empty
  NoName = NoName
  Option = {o1, o2}
  DefaultName = DefaultName
  FeatureFriendlyName = TRUE
  FeatureWolWake = TRUE
  MaxWakeup = 2
SPECIFICATION Spec
INVARIANTS TypeOK DdXmlCurrent AnnouncedIsServed
