SPECIFICATION DocSpec
CONSTANTS
  Passes = {p1, p2}
  Basic = {b1, b2}
  Advanced = {a1}
  TaskLimit = 2
  GlobalLimit = 3
  Faults = {"db", "cancel", "close"}
  Separators <- MCSeparators
  SubSize = 2
  MaxTable = 4
  MinPage = 2
  Before = 1
  After = 1
  Reach = 2
  MinLength = 2
  Texts = {}
  Calls = {1, 2}
  Retries = 2
  TaskSlots = 2
  GlobalSlots = 2
  InsertRows = 2
  Wide = 5
  Documents <- MCDocuments
  Scores = {4, 9}
  c1 = c1
  c2 = c2
  tb = tb
  Configs <- MCConfigs
  TextKeys = {c1, c2}
  TableKeys = {tb}
  PageCount = 3
  PagePieces <- MCPagePieces
  Length <- MCLength
  MaxLength = 6
  PageLimit = 4
  KeyLimit = 1
  FallbackPages = 1
  GridPages = 2
INVARIANTS
  DocTypeOK
  BarrierRespected
  NoStragglers
  SharedCap
  VectorsMatch
  DocumentSearchable
  EvidenceSound
  RetriesHonest
PROPERTIES
  PassContract
  PassEnds
