CONSTANTS
  size = 3
  num_ants = 2
  max_iterations = 1
  MaxDouble = 100
  Graphs <- PathOnly
SPECIFICATION Spec
INVARIANT RunReachesItsEnd
