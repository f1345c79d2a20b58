SPECIFICATION AnalysisSpec
CONSTANTS
  c1 = c1
  c2 = c2
  Calls = {c1, c2}
  Requests <- MCRequests
  RuleCount = 2
  Enabled = {1, 2}
  Depends <- MCDepends
  Calc = {1}
  OwnLimit = 2
  GlobalLimit = 2
  LlmLimit = 1
  MaxAttempts = 2
  Faults = {"log", "db", "cancel", "close", "wipe", "crash"}
  MaxFaults = 1
  Tasks = {t1, t2, t3}
  Limits = {1, 2}
  MaxWakes = 2
INVARIANTS
  TypeOK
  LimiterTypeOK
  CountersExact
  NoLostWakeup
  EventsInOrder
  DoneIsStored
  LogIsTrue
  Settled
PROPERTIES
  FreeSlotIsUsed
  PoolContract
  StageKeepsContract
  CallsEnd
