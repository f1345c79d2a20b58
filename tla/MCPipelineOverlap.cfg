SPECIFICATION FairSpec
CONSTANTS
  Files = {f1}
  Runs = {r1, r2}
  Limit = 1
  Modes = {"async", "stream"}
  Docs <- SmallDoc
  Worlds <- AnyWorld
  MaxCrashes = 1
INVARIANTS
  TypeOK
  GateBalanced
  ProcessingHasRun
PROPERTIES
  Drains
CHECK_DEADLOCK FALSE
