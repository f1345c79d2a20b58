SPECIFICATION IndexSpec
CONSTANTS
  Separators <- MCSeparators
  SubSize = 2
  MaxTable = 4
  MinPage = 2
  Before = 1
  After = 1
  Reach = 2
  MinLength = 2
  Texts = {}
  Calls = {1, 2}
  Retries = 2
  TaskSlots = 2
  GlobalSlots = 2
  InsertRows = 2
  Wide = 5
  Documents <- RetriedDocument
  Scores = {4, 9}
INVARIANT
  SubchunksInherit
CHECK_DEADLOCK FALSE
