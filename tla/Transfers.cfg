SPECIFICATION FairSpec
CONSTANTS
  Last = 4
  Window = 2
  MaxAttempts = 3
INVARIANTS
  TypeOK
  InWindow
  CompleteIsReadable
  FailedIsNotSaved
PROPERTIES
  UploadIsTransfer
  DownloadIsTransfer
CHECK_DEADLOCK FALSE
