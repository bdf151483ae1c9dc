SPECIFICATION Spec
CONSTANTS
  Baudrates     <- MCBaudrates
  ProbeMethods  <- MCProbeMethods
  TargetChoices <- MCTargetChoices
  MaxMisses     = 0
INVARIANT
  ReenteredBootloader
