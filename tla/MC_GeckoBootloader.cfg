SPECIFICATION Spec
CONSTANTS
  NumBlocks = 3
  MaxFailures = 1
  NumberMod = 2
  MaxFaults = 2
  MaxReady = 2
  MaxProbes = 3
INVARIANTS
  TypeOK
  TruthfulVerdict
  RightReader
  CleanUploadSucceeds
PROPERTIES
  WaitsOnlyForReady
  Terminates
