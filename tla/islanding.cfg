SPECIFICATION Spec
CONSTANTS
  Node <- Nodes
  Swing = 1
  Branch <- Branches
  Buses = 5
  Ends <- TwoRings
  FaultSets <- Faults
INVARIANTS
  TypeOK
  CyclesAreCycles
  WalkEnds
  IslandsAsPromised
PROPERTIES
  EveryTurnCounts
