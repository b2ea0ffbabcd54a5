SPECIFICATION Spec
CONSTANTS
  Graphs <- MCGraphs
  Inputs <- MCInputs
  INT_MAX = 5
INVARIANTS
  TypeOK
  ComponentsAreClasses
  LowWhenRead
  BridgesAndCutVertices
  SearchTree
  TwoColored
  StrongComponents
  LeastTree
PROPERTIES
  GrowsATree
