SPECIFICATION Spec
CONSTANTS
  Images       <- MCImages
  Options      <- MCOptions
  ProbeMethods <- MCProbeMethods
  Baudrates    <- MCBaudrates
  Bootloader   <- MCBootloader
  MaxCommands  = 2
INVARIANT
  NewerIsRunning
