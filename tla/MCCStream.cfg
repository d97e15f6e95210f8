SPECIFICATION FairSpec
CONSTANTS
  Modes = {FALSE, TRUE}
  Size = 4
  Overlap = 3
  ResetInterval = 5
  Align = 1
  MaxTaken = 9
  JobCount = 2
  MinSlice = 1
  MaxLoops = 1
  InputSizes = {3}
  Timeouts = {FALSE, TRUE}
  MayFail = TRUE
  OutputSizes <- MCOutput
INVARIANTS
  NothingLostOrRepeated
  WellFormed
  EndFollowsAll
  EndMeansComplete
  CallsMakeProgress
  CancelLeavesQuiet
PROPERTIES
  EndCompletes
  BlockIsStable
  ReadsOnlyPublished
