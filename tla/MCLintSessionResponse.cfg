CONSTANTS
  NPlugins = 1
  NPorts = 0
  Ifaces <- OnlyFull
  Functions = {malloc}
  QueueCap = 2
  Budget = 4
SPECIFICATION Spec
INVARIANT ResponseReported
CHECK_DEADLOCK FALSE
