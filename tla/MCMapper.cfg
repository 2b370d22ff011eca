CONSTANTS
  s = s
  a = a
  b = b
  c = c
  Threads = {t1, t2}
  Uris <- MCUris
  NoUri = NoUri
  Hash <- MCHash
  NItems = 8
  NStats = 2
  Stats <- MCStats
  MayRunOut = TRUE
SPECIFICATION FairSpec
INVARIANTS IInv OneUridPerUri RoundTrip StaticUrids Accounting
PROPERTIES MapsAtomically CallsReturn
CHECK_DEADLOCK FALSE
