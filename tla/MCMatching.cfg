CONSTANTS
  size = 6
  Graphs <- MCGraphs
SPECIFICATION Spec
INVARIANTS
  MatchingSound
  MaximumMatching
  RefusedIffNotBipartite
PROPERTY Terminates
