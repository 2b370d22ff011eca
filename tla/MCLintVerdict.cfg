CONSTANTS
  Tests = 2
  Groups <- MCGroups
  UiUris = {"ui"}
  Any = Any
  Findings <- MCFindings
  MaxWhite = 1
  MaxOptions = 3
SPECIFICATION Spec
INVARIANTS IInv FailAlwaysCounts OnlyErrorsCount ExactUnlessHidden
CHECK_DEADLOCK FALSE
