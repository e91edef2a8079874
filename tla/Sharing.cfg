SPECIFICATION Spec
CONSTANTS
  Share = {s1}
  Visitor = {v1, v2}
  Password = {p1}
  Owner = Owner
  None = None
  ShareCount = 1
  GrantLimit = 1
  BandwidthLimit = 1
  DownloadLimits = {1}
  MaxVersion = 3
  MaxDownloads = 1
SYMMETRY VisitorSymmetry
INVARIANTS
  TypeOK
  GrantsWithinAllowance
  AccessIsCurrent
PROPERTY DownloadsWithinLimit
CHECK_DEADLOCK FALSE
