\* Two jobs, a check on every second tick, two errors before a job stops.
CONSTANTS
  MaxTime = 4
  IdSpace = 4
  TickEvery = 2
  Backoff <- Backoffs
  MaxErrors = 2
  Delays = {0, 2}
  Intervals = {2}
  MaxJobs = 2
SPECIFICATION CronSpec
INVARIANTS
  NextRunIsLeast
  FailingJobBacksOff
CHECK_DEADLOCK FALSE
