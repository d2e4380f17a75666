\* Every number of simulations up to 12 on up to 4 workers.
SPECIFICATION Spec
CONSTANTS
  Specs <- Simulations
  NoFee = NoFee
  DefaultFee = DefaultFee
INVARIANT AllSimulationsRun
CHECK_DEADLOCK FALSE
