SPECIFICATION FairSpec
CONSTANTS
  HeaderSize = 2
  Required = 3
  Threads = 2
  NodeSize = 6
  HashSize = 1
  MemLimit = 48
  MemWrap = 256
  MayFail = TRUE
  Streams <- MCStreams
  InputSizes = {7}
  OutputSizes = {4}
  Timeouts = {FALSE, TRUE}
  MaxAbandoned = 1
INVARIANTS
  DStreamTypeOK
  InputAccounted
  BlocksAreIndependent
  CallsMakeProgress
PROPERTIES
  ImplementsDecoder
  DecodingEnds
