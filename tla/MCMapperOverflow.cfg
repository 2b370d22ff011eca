CONSTANTS
  s = s
  a = a
  b = b
  c = c
  Threads = {t1, t2}
  Uris <- MCUris
  NoUri = NoUri
  Hash <- MCHash
  NItems = 4
  NStats = 2
  Stats <- MCStats
  MayRunOut = FALSE
SPECIFICATION Spec
PROPERTY OverflowMeansFull
CHECK_DEADLOCK FALSE
