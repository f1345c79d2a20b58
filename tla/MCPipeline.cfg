SPECIFICATION Spec
CONSTANTS
  Files = {f1}
  Runs = {r1, r2}
  Limit = 1
  Modes = {"async", "stream", "sync"}
  Docs <- SeveralDocs
  Worlds <- PoliteWorlds
  MaxCrashes = 2
SYMMETRY RunSymmetry
INVARIANTS
  CompleteIsWhole
  DeletedLeavesNothing
  FailedHasInputs
  CleanSlate
  ReadableUntilRestart
CHECK_DEADLOCK FALSE
