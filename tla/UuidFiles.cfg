CONSTANTS
  AppName = {netflix, youtube}
  Uuid = {u1, u2, u3, u4}
  Device = Device
  Blank = Blank
  None = None
SPECIFICATION Spec
INVARIANTS TypeOK PostReachesItsOwnEntry UriOutlivesTheServer
SYMMETRY MCSymmetry
