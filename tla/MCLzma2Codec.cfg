SPECIFICATION Spec
CONSTANTS
  ByteBits = 3
  ModelBits = 3
  MoveBits = 2
  LenLowBits = 2
  LenHighBits = 2
  PosSlotBits = 4
  EndPosModel = 8
  AlignBits = 2
  DictSize = 32
  DicBufSize = 36
  Required = 8
  Streams <- MCStreams
  Props <- MCProps
  BlockSizes = {29}
  JobCounts = {1, 2}
  MinSlice = 8
  Overlap = 6
  Align = 2
  Lengths = {2}
  Detours = 1
  TempMin = 4
  TempSize = 30
  ChunkSize = 6
  MaxCompressed = 64
  MaxUncompressed = 24
  LimitMargin = 12
  EntrySize = 4
  MinTest = 4
  FilterBits = 6
  CallSizes <- MCCallSizes
  Capacities <- MCCapacities
  Damages = {0, 3, 128}
INVARIANTS
  RoundTrip
  ReadsInBounds
  OutputFits
