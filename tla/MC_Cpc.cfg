SPECIFICATION Spec
CONSTANTS
  Retries = 1
  CommandMod = 2
  MaxMishaps = 4
INVARIANTS
  TypeOK
  ReturnsTheResponse
  ReturnsInBootloader
  RetriesSuffice
PROPERTY
  Terminates
