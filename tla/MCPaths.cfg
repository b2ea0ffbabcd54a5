SPECIFICATION PathsSpec
CONSTANTS
  Graphs <- MCGraphs
  Inputs <- MCInputs
  INT_MAX = 9
  Memory = 6
  Files <- MCFiles
  Cells <- MCCells
  AnyInt = {0, 1, 2}
INVARIANTS
  PathsTypeOK
  ShortestInEachPass
  WalkKeepsLength
  ComponentsBetween
  Characteristics
  MazePathIsShortest
