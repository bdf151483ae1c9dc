SPECIFICATION Spec
CONSTANTS
  Baudrates     <- MCBaudrates
  ProbeMethods  <- MCProbeMethods
  TargetChoices <- MCTargetChoices
  MaxMisses     = 2
INVARIANTS
  TypeOK
  ProbedTruthfully
  BootBaudTruthful
  EnteredOnReturn
  NoFalseFailure
  ProbingLeavesAppRunning
  LeftRunning
PROPERTY
  Terminates
