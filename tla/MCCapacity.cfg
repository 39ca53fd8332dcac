SPECIFICATION CapacitySpec
CONSTANTS
  Slot = {0, 1}
  Layer = {0}
  Sliding = {}
  BT = 3
  Mb = 4
  TotalBlocks = 7
  SW = 4
  Grid = 1
  VerifyMax = 3
  ModelMax = 15
  Prompts = {2, 5}
  Predicts = {2, 4, 10}
  Gemma = FALSE
  PartialSharing = TRUE
  SeqId = {0, 1, 2}
  LayersA = 2
  LayersB = 3
  Budget = 123
  BlockBytes = 4
  Columns = 4
  Slots = 3
  Server = {"s", "t"}
  Orders <- MCOrders
  CardMemory = 24
  HostMemory = 14
  Reserve = 3
  RamReserve = 1
  Margin = 2
  Scratch = 1
  BlockTokens = 2
  Contexts = 2
  State = 1
  Cards = 3
  LayerMax = 4
  Tensor = {0, 1, 3}
  ItemMax = 5
  NonLayer = 2
  KvBytes = 7
  Proj = {"b", "c"}
  Plain = {"g", "p"}
  NameOrder <- MCNames
  ModelFile = {"m1", "m2"}
  PleFile = {"ple"}
  Sources <- MCSources
  Expected = 2
  Shape <- MCShape
  GroupWords = 4
  OutGroupWords = 2
  Word = {1, 2}
  Texts <- MCTexts
  CkptEvery = 2
  CkptEntries = 2
  SavedBound = 1
  TextMax = 5
  GuessMax = 1
  HeadGpu = TRUE
CHECK_DEADLOCK FALSE
INVARIANTS NeverExhausted WithinContext Reclaimable AdmittedFitsBoth ShardsInStep PlanSpendsOnce PassedFits BlocksCover RepackExact NoLesserModel
