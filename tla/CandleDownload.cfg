SPECIFICATION FairSpecDownload
CONSTANTS
  Interval = 2
  Horizon = 7
  PageSize = 2
  Names = {a, b}
  None = None
  MaxDownloads = 2
CHECK_DEADLOCK FALSE
INVARIANTS
  TypeOKDownload
  ResultUsable
  ResultComplete
  StoredUsable
PROPERTIES
  NoFalseAlarm
  StoreImmutable
  DownloadEnds
