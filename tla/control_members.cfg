SPECIFICATION Spec
CONSTANTS
  Node <- Nodes
  Swing = 1
  Branch <- Ring
  From <- Round
  Residential <- From100
  Recorded <- From100
  SearchOrder <- LowestFirst
  h1 = h1
  h2 = h2
  House <- Houses
  NodeOf <- AtNodes
  FaultSets <- Faults
  ManageEvery = 2
  MaxNeed = 2
  MaxTime = 4
INVARIANTS
  BatteryServesIsland
