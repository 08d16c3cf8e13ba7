SPECIFICATION FairSpec
CONSTANTS
  MaxTasks = 4
  U32 = 64
  code = code
  data = data
  dir = dir
  Closed = Closed
  Files <- MC_Files
  FileSize <- MC_FileSize
  Regular <- MC_Regular
  Numbers <- MC_Numbers
  Fds <- MC_Fds
  Debug = TRUE
INVARIANTS
  TasksHaveInst
  SizeAgrees
  NoAbort
  CleanExit
PROPERTIES
  ListSpec
  ReplicationExact
  Terminates
