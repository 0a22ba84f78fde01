SPECIFICATION DownloadFairSpec
CONSTANTS
  None = None
  n1 = n1
  n2 = n2
  UploadNames <- MCNames
  Tables <- MCTables
  MaxRows = 2
  MaxUploadBytes = 7
  VfsChunkSize = 3
INVARIANTS PrefixOfUpload TruncatedFlagHonest
PROPERTY DownloadEnds
