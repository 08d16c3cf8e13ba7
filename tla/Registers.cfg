SPECIFICATION Spec
CONSTANTS
  p1 = p1
  p2 = p2
  Read = Read
  Procs <- MC_Two
  Jobs <- MC_Jobs
  Ctr <- MC_Ctr
  Event <- MC_Event
  U32 = 4
  Named <- MC_Named
  Left <- MC_Left
  MaxArgs = 1
  MaxEvents = 1
INVARIANTS
  HelpHonoured
  PoweredAccess
  ReportTrue
  MonitorsProgram
