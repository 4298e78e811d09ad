SPECIFICATION Spec
CONSTANTS
  MaxCalls = 24
  Faults = {"load"}
CHECK_DEADLOCK FALSE
PROPERTIES
  SimulationStarts
