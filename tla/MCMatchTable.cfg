SPECIFICATION Spec
CONSTANTS
  Plans <- MCPlans
  Radixes <- MCRadixes
  NullLink = 1000
  MaxThreads = 2
  ThreadsOf <- TableThreads
  FreshTable <- Fresh
  BuildList <- Worked
  LimitTable <- Limited
  Letters = {0, 1}
  MaxRepeat = 8
  MaxBrute = 5
  StackSize = 12
  MatchLenMax = 20
  MinTableBytes = 8
  MinSlice = 8
INVARIANTS
  HeadsClear
  CanceledByCaller
  MatchesAreReal
  ReadsInBlock
