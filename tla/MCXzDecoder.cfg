SPECIFICATION Spec
CONSTANTS
  HeaderSize = 2
  Required = 3
  VliBits = 4
  VliBytesMax = 2
  Files <- MCFiles
  Damages = {0, 1, 17}
  CallSizes = {1, 3, 30}
  Rooms = {1, 100}
  CheckStep = 3
INVARIANTS
  ReadersAgree
  DamageIsFound
