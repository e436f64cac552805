\* Two updates, replies of two chunks, one request of each kind, a restart.
CONSTANTS
  NumUpdates = 2
  Chunks = 2
  Rest = {rest}
  Ws = {ws}
  QueueSize = 1
  MaxRestarts = 1
  ChannelEvents = {"poll_error", "send_error"}
SPECIFICATION FairSpec
INVARIANTS
  ConfirmedWasRun
PROPERTIES
  RequestsEnd
CHECK_DEADLOCK FALSE
