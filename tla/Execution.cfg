SPECIFICATION Spec
CONSTANTS
  MaxTasks = 4
  U32 = 256
  PageSize = 16
  own = own
  words = words
  Null = Null
  Closed = Closed
  Files <- MC_Files
  FileSize <- MC_FileSize
  Regular <- MC_Files
  Code <- MC_Code
  Stale <- MC_Stale
  Numbers <- MC_Numbers
  Fds <- MC_Fds
  Debug = TRUE
INVARIANTS
  HandsOverLegal
  ProgramSound
