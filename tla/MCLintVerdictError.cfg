CONSTANTS
  Tests = 2
  Groups <- MCGroups
  UiUris = {"ui"}
  Any = Any
  Findings <- MCFindings
  MaxWhite = 0
  MaxOptions = 3
SPECIFICATION Spec
INVARIANT ErrorLevelsCount
CHECK_DEADLOCK FALSE
