CONSTANTS
  NPlugins = 2
  NPorts = 0
  Ifaces <- OnlyFull
  Functions = {malloc}
  QueueCap = 2
  Budget = 1
SPECIFICATION Spec
INVARIANT CrashVerdictIsOwn
CHECK_DEADLOCK FALSE
