SPECIFICATION Spec
CONSTANTS
  Files = {f1}
  Runs = {r1}
  Limit = 1
  Modes = {"async"}
  Docs <- OneDoc
  Worlds <- BusyWorld
  MaxCrashes = 0
INVARIANTS
  DeletedLeavesNothing
CHECK_DEADLOCK FALSE
