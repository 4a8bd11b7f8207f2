SPECIFICATION FairSpec
CONSTANTS
  a = a
  b = b
  NoName = NoName
  Names = {a}
  MaxRequests = 3
  MaxCrash = 1
INVARIANTS
  TypeOK
  
  
  ColdDisk
  UploadingBacked
  UploadRecorded
  CrashOnlyAfterDelete
PROPERTIES
  SnapshotSettles
CHECK_DEADLOCK FALSE
