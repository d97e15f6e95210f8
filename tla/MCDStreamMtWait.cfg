SPECIFICATION FairSpec
CONSTANTS
  HeaderSize = 2
  Required = 3
  Threads = 2
  NodeSize = 6
  HashSize = 1
  MemLimit = 24
  MemWrap = 256
  MayFail = FALSE
  Streams <- MCShort
  InputSizes = {4, 9}
  OutputSizes = {2, 9}
  Timeouts = {TRUE}
  MaxAbandoned = 0
PROPERTIES
  WaitEndsSomeTime
CHECK_DEADLOCK FALSE
