SPECIFICATION DSpec
CONSTANTS
  Nodes <- MCNodes
  Ports <- MCPorts
  Parameters <- MCParameters
  Rate = 2
  Facts <- MCFacts
INVARIANT RequiredIsReported
