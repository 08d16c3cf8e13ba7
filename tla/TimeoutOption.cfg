SPECIFICATION Spec
CONSTANTS
  p1 = p1
  p2 = p2
  None = None
  Procs <- MC_One
  MaxArgs = 0
  Timeouts <- MC_Timeouts
INVARIANT TimeoutHonoured
