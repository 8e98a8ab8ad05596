CONSTANTS
  Watchers = {w1}
  MaxRuns = 2
  MaxChunks = 2
  Cap = 1
  Window = 1
SPECIFICATION RunnerSpec
CHECK_DEADLOCK FALSE
INVARIANTS TypeOK NoGap InOrder FinalIsAfterFinish
PROPERTIES RunNotHeldUp WatcherEnds
