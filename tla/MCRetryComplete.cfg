SPECIFICATION Spec
CONSTANTS
  Files = {f1}
  Runs = {r1}
  Limit = 1
  Modes = {"async"}
  Docs <- OneDoc
  Worlds <- RestartWorld
  MaxCrashes = 1
INVARIANTS
  CompleteIsReadable
CHECK_DEADLOCK FALSE
