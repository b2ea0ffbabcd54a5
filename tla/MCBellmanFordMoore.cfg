SPECIFICATION Spec
CONSTANTS
  size = 4
  Graphs <- MCGraphs
  Starts = {0, 1, 4, 5}
  INT_MAX = 7
  Potentials <- MCPotentials
INVARIANTS
  PhaseBound
  FlagIffNegativeCycle
  DistancesShortest
