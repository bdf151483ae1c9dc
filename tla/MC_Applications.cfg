SPECIFICATION Spec
CONSTANTS
  Retries = 1
  MaxMishaps = 3
  Settle = 1
  StateWait = 60
  BootWait = 10
  ProbeTimeout = 4
  MaxFaults = 2
INVARIANTS
  ProbeReliable
  EnteredTruthfully
PROPERTY
  Terminates
