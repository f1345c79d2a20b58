SPECIFICATION Spec
CONSTANTS
  Files = {f1, f2}
  Runs = {r1, r2}
  Limit = 1
  Modes = {"async"}
  Docs <- OneDoc
  Worlds <- RestartWorld
  MaxCrashes = 1
PROPERTIES
  QueuedStaysRetryable
CHECK_DEADLOCK FALSE
