SPECIFICATION Spec
CONSTANTS
  NumBlocks = 3
  MaxFailures = 1
  NumberMod = 2
  MaxFaults = 0
  MaxReady = 2
  MaxProbes = 3
INVARIANTS
  MenuReappearsOnlyWithoutFirmware
