SPECIFICATION FairSpec
CONSTANTS
  Worker = {w1, w2}
  Function = {build, encode}
  NoFunction = NoFunction
  MaxEnd = 4
INVARIANTS TypeOK WaitAllSound JobsRunAsQueued NoLostWakeup
PROPERTIES CallsReturn ShutdownDropsQueue ImplementsJobPool
