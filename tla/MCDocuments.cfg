\* One agent thread, every fault; the user sends configurations with and
\* without a bucket.
CONSTANTS
  a1 = a1
  Lanes = {a1}
  MaxOps = 3
  MaxEntries = 2
  RetryMax = 1
  MaxReboots = 1
  MaxPuts = 1
  Configs = {"cloud_b", "malformed"}
  Events = {"put_error", "get_error", "list_error", "write_error", "crash", "snapshot", "edit_file", "format"}
SPECIFICATION Spec
INVARIANTS
  KeptWithoutDetour
  FailedJobsStayOut
PROPERTIES
  AckedIsInBucket
CHECK_DEADLOCK FALSE
