SPECIFICATION Spec
CONSTANTS
  p1 = p1
  p2 = p2
  None = None
  Procs <- MC_Two
  MaxArgs = 1
  Timeouts <- MC_NoTimeout
SYMMETRY MC_Symmetry
INVARIANTS
  FlagsTruthful
  DevicesReady
  SuccessMeansClean
  MemoryReturned
  SwitchedOff
  FreedIdle
  OwnWindow
PROPERTY LeaseSpec
