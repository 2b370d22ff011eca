CONSTANTS
  NPlugins = 2
  NPorts = 2
  Ifaces <- MCIfaces
  Functions = {malloc}
  QueueCap = 2
  Budget = 3
SPECIFICATION FairSpec
INVARIANTS IInv CrashReported NonRtReported NonRtVerdictIsOwn WorkIsOwn
PROPERTY SessionEnds
CHECK_DEADLOCK FALSE
