SPECIFICATION Spec
CONSTANTS
  HeaderSize = 2
  Required = 6
  Threads = 3
  NodeSize = 12
  HashSize = 1
  MemLimit = 17
  MemWrap = 256
  MayFail = FALSE
  Streams <- MCTiny
  InputSizes = {14}
  OutputSizes = {8}
  Timeouts = {FALSE}
  MaxAbandoned = 0
INVARIANTS
  ReadsInChain
