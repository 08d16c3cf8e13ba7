SPECIFICATION Spec
CONSTANTS
  MaxTasks = 4
  U32 = 16
  code = code
  data = data
  dir = dir
  Closed = Closed
  Files <- MC_Files
  FileSize <- MC_FileSize
  Regular <- MC_Regular
  Numbers <- MC_WrapNumbers
  Fds <- MC_WrapFds
  Debug = FALSE
PROPERTY ReplicationExact
