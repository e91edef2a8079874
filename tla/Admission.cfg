SPECIFICATION AdmissionSpec
CONSTANTS
  Owner = {o1, o2}
  Item = {i1, i2, i3}
  Sizes = {1, 2}
  Quotas = {2, 3}
  UploadLimit = 1
  MaxChanges = 1
  Disk = 5
  Floor = 1
  Unset = Unset
SYMMETRY ItemSymmetry
INVARIANTS
  AdmissionTypeOK
  FloorIsKept
PROPERTY WithinQuota
CHECK_DEADLOCK FALSE
