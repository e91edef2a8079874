SPECIFICATION Spec
CONSTANTS
  File = {f1, f2}
  Object = {o1, o2}
  Device = {d1, d2}
  None = None
  VersionCount = 1
  MaxRevision = 3
SYMMETRY DeviceSymmetry
INVARIANT TypeOK
PROPERTIES
  ReplacesWhatWasSeen
  OnlyUnneededRemoved
CHECK_DEADLOCK FALSE
