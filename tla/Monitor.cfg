SPECIFICATION Spec
CONSTANTS
  MaxTasks = 2
  U32 = 4
  DebugRegs <- MC_DebugRegs
  Fields <- MC_Fields
  Width <- MC_Width
  Options <- MC_Options
  Past <- MC_Past
  NsPerSec = 4
  NsPerUs = 2
  MaxOthers = 1
  MaxFlips = 2
  MaxClock = 6
INVARIANTS
  OutputExact
  ResultsFinal
  DebugTrue
  ProgramsAccounted
  TimeTrue
