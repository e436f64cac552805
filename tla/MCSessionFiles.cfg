\* A chat of up to three turns with two messages kept, in six settings.
CONSTANTS
  KeepRecent = 2
  Threshold = 3
  BigWeight = 4
  Settings <- MCSettings
SPECIFICATION FilesSpec
INVARIANTS
  
  CompactionSettles
  UserTitleStays
  
CHECK_DEADLOCK FALSE
