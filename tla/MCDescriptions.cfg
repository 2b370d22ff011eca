SPECIFICATION DSpec
CONSTANTS
  Nodes <- MCNodes
  Ports <- MCPorts
  Parameters <- MCParameters
  Rate = 2
  Facts <- MCFacts
INVARIANTS
  IInv
  NumbersAreSound
  RangeVerdictIsOwn
  ScalePointsFound
  ParameterIsSound
  FindingIsTrue
  WorstIsTold
