\* Both programs; the web server and the replicator use S3 beside the agent.
CONSTANTS
  Others = {httpd, replicator}
  NoThread = NoThread
  Platforms = {TRUE, FALSE}
SPECIFICATION LlmSpec
INVARIANTS
  KeptConnectionCostsOne
PROPERTIES
  RefusedStaysRefused
