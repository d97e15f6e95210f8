SPECIFICATION Spec
CONSTANTS
  Modes = {FALSE}
  Size = 3
  Overlap = 1
  ResetInterval = 5
  Align = 1
  MaxTaken = 6
  JobCount = 2
  Holds = {FALSE}
  MayFail = TRUE
  Retries = TRUE
  InputSizes = {1, 3}
  OutputSizes = {1, 3}
INVARIANTS
  EndMeansComplete
