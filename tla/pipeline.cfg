SPECIFICATION PSpec
CONSTANTS
  MaxCalls = 8
  Faults <- FaultKinds
  SimulationTimes <- Simulated
  BaselineTimes <- Baselines
INVARIANTS
  TypeOK
  AbsorptionHasServer
  ReplyAnswersCall
  ServerLeftByException
  ServerHasBaseline
  SeriesAligned
PROPERTIES
  ImplementsCalls
  PipelineEnds
  AnswerComesNearer
