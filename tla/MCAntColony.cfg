CONSTANTS
  size = 3
  num_ants = 2
  max_iterations = 2
  MaxDouble = 100
  Graphs <- MCGraphs
SPECIFICATION Spec
INVARIANTS
  TypeOK
  BestPathIsBestRoute
  
PROPERTIES
  CompleteGraphsAreSolved
