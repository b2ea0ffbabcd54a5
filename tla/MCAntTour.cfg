CONSTANTS
  size = 5
  num_ants = 1
  max_iterations = 1
  MaxDouble = 1000
  Graphs <- MCMatrixT15
SPECIFICATION Spec
INVARIANT BestIsNoShorterThanATour
