\* The turns of one chat, on the firmware and on the desktop.
CONSTANTS
  Turns = {a, b, c}
  NoTurn = NoTurn
  NoLine = NoLine
  Builds <- MCBuilds
SPECIFICATION FairSpec
INVARIANTS
  CanBeStopped
  SingleChain
  PromptWellFormed
PROPERTIES
  TurnsEnd
CHECK_DEADLOCK FALSE
