SPECIFICATION Spec
CONSTANTS
  Modes = {TRUE}
  Size = 3
  Overlap = 1
  ResetInterval = 5
  Align = 1
  MaxTaken = 7
  JobCount = 2
  Holds = {FALSE, TRUE}
  MayFail = TRUE
  Retries = FALSE
  InputSizes = {1, 3}
  OutputSizes = {1, 3}
INVARIANTS
  XzTypeOK
  ResetInTime
  WindowIsDecodable
  FullCanShift
  WellFramed
  BlocksStandAlone
  ChecksAndSizesMatch
  NothingLostOrRepeated
  EndMeansComplete
