SPECIFICATION FairSpec
CONSTANTS
  p1 = p1
  p2 = p2
  None = None
  Procs <- MC_One
  MaxArgs = 2
  Timeouts <- MC_NoTimeout
PROPERTIES
  LeaseReturned
  Terminates
