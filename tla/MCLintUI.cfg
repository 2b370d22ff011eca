SPECIFICATION Spec
CONSTANTS
  Requirements <- MCRequirements
  UiRequirements <- MCUiRequirements
  Plugins = 2
  Uis = 3
INVARIANTS
  IInv
  ListsFit
  LibrariesBalanced
  VerdictIsOwn
  CleanupIsOwn
CHECK_DEADLOCK FALSE
