SPECIFICATION Spec
CONSTANTS
  HeaderSize = 2
  Required = 3
  Threads = 2
  NodeSize = 6
  HashSize = 1
  MemLimit = 24
  MemWrap = 256
  MayFail = FALSE
  Streams <- MCSound
  InputSizes = {4, 9}
  OutputSizes = {2, 9}
  Timeouts = {FALSE}
  MaxAbandoned = 1
INVARIANTS
  SwitchesAtLimit
