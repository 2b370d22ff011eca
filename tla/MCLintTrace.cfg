SPECIFICATION FairSpec
CONSTANTS
  Tables <- MCTables
  Numbers <- MCNumbers
  Exit <- MCExit
  Kids <- MCKids
  NoCall = NoCall
  Budget <- MCBudget
INVARIANTS
  IInv
  MadeIsRecorded
  SuccessIsClean
PROPERTIES
  RecordsWhatEnded
  TraceReturns
CHECK_DEADLOCK FALSE
