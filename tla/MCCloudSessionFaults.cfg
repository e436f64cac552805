\* Every fault of the bucket, delete at any point, snapshots, a crash.
CONSTANTS
  NoItem = NoItem
  MaxMsgs = 2
  MaxReboots = 1
  CompactAt = 2
  SessionMax = 6
  QueueMax = 2
  RetryMax = 0
  Events = {"put_error", "get_error", "list_error", "range_error", "crash", "snapshot", "delete"}
SPECIFICATION FairSpec
INVARIANTS
  ReadYourWrites
PROPERTIES
  AppendReturns
CHECK_DEADLOCK FALSE
