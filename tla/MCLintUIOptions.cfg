SPECIFICATION Spec
CONSTANTS
  Requirements <- MCRequirements
  UiRequirements <- MCUiRequirements
  Plugins = 2
  Uis = 3
INVARIANTS
  UiOptionsFit
CHECK_DEADLOCK FALSE
