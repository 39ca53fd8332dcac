SPECIFICATION PassesSpec
CONSTANTS
  Slot = {0, 1}
  Layer = {0, 1}
  Sliding = {0}
  BT = 2
  Mb = 7
  TotalBlocks = 23
  SW = 4
  Grid = 2
  VerifyMax = 3
  ModelMax = 16
  Prompts = {3, 4, 8}
  Predicts = {1, 2}
  Gemma = TRUE
  PartialSharing = FALSE
  Lane = {l1, l2}
  Ctx = 4
  TMax = 4
  Small = 2
  MmaMin = 4
  DraftRows = 3
  DraftK = 3
  TileM = 2
  MaxPar = 1
  TRow = 3
  Stretch = 20
  Nets <- SomeNets
  Word = {"w", "eos"}
  Eos = "eos"
  TextLen = 7
  NgramSize = 3
  TapStep = 2
  ConvK = 3
  Ratio = 2
  BlockTopK = 2
  ChunkMax = 3
  Expert = {x, y, z}
  Ks = {0, 2}
  TopK = 2
  ChunkTokens = 2
SYMMETRY Interchangeable
INVARIANTS WindowOwned ForwardExact StretchFree ExpertsOwn
