SPECIFICATION Spec
CONSTANTS
  Images       <- MCImages
  Options      <- MCOptions
  ProbeMethods <- MCProbeMethods
  Baudrates    <- MCBaudrates
  Bootloader   <- MCBootloader
  MaxCommands  = 3
INVARIANTS
  KeptIsCurrent
  RepeatKeeps
PROPERTY
  NoUnaskedDowngrade
