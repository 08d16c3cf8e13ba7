SPECIFICATION Spec
CONSTANTS
  MaxTasks = 2
  U32 = 128
  PageSize = 16
  own = own
  shared = shared
  words = words
  Null = Null
  Files <- MC_Files
  FileSize <- MC_FileSize
  Code <- MC_Code
  Named <- MC_Named
  Stale <- MC_Stale
  BufSizes <- MC_BufSizes
  MaxTruncations = 1
  Debug = TRUE
INVARIANTS
  AssertedDisjoint
  RegionsAligned
  LoadedWhole
  SizesAgree
  LinkSound
  ControlSound
