SPECIFICATION Spec
CONSTANTS
  NumBlocks = 3
  MaxFailures = 1
  NumberMod = 2
  MaxFaults = 3
  MaxReady = 2
INVARIANTS
  TypeOK
  DeliveredOnReturn
  ProgressTruthful
  StopAndWait
  RetryBudget
PROPERTIES
  Transfer
  WaitsOnlyForReady
  Terminates
