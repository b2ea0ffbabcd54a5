CONSTANTS
  size = 6
  source = 1
  sink = 6
  IntMax = 3
  Networks <- SampleNetworks
SPECIFICATION Spec
INVARIANTS
  MinimumCut
  FlowIsLegal
  ShortestAugmentingPath
PROPERTIES
  ImplementsMethod
  Terminates
