\* Two networks, two passwords, a start and two restarts.
CONSTANTS
  Ssids = {"home", "other"}
  Passwords = {"right", "wrong"}
  Home <- MCHome
  MaxWaits = 2
  MaxRequests = 2
  MaxBoots = 3
SPECIFICATION FairStartup
INVARIANTS
  LedTruthful
PROPERTIES
  StartEnds
CHECK_DEADLOCK FALSE
