\* Crashes at any point of appends and compactions, and /clear; the bucket
\* answers.
CONSTANTS
  NoItem = NoItem
  MaxMsgs = 5
  MaxReboots = 2
  CompactAt = 2
  SessionMax = 99
  QueueMax = 6
  RetryMax = 1
  Events = {"crash", "clear"}
SPECIFICATION Spec
INVARIANTS
  CrashLeavesPrefix
PROPERTIES
  AppendExtends
CHECK_DEADLOCK FALSE
