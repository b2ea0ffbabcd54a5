CONSTANTS
  size = 6
  source = 1
  sink = 6
  Networks <- SampleNetworks
SPECIFICATION FFSpec
INVARIANT MaxFlowMinCut
\* The method ends.
CHECK_DEADLOCK FALSE
