\* Every input of the sets of MCConversions, with a limit of 28 characters.
CONSTANTS
  Limit = 28
  MaxInlineDepth = 2
  MobileGridMaxWidth = 2
  Tools = {"w", "v"}
  NameChars = {"a", "b", "v", "w"}
  MaxEvents = 6
  Inputs <- MCInputs
SPECIFICATION Spec
INVARIANTS
  ChunksValid
  TextKept
  EntriesReadBack
  CallsRecovered
  RequestsPaired
  SignaturesReturn
  ReplayIsLive
CHECK_DEADLOCK FALSE
