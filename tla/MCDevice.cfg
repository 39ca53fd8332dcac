SPECIFICATION DeviceSpec
CONSTANTS
  Token = {1, 2}
  Prompts <- Chain
  Every = 2
  Entries = 2
  MaxLen = 7
  SavedMax = 2
  Eos = 0
  KMax = 2
  DraftMax = 2
  Eager = FALSE
  Grouped = {"norm"}
  Alone = {"dmc"}
  WideOnly = {"dmc"}
  GraphSlot = {0, 1}
  EndToken = {7}
  Wide = 2
  CacheMax = 1
  Chunks = 5
  s0 = s0
  s1 = s1
  Slot <- MCSlot
  Layer = {0}
  Sliding = {0}
  MbMax = 3
  TotalBlocks = 3
  VramBlocks = 1
SYMMETRY Interchangeable
CHECK_DEADLOCK FALSE
INVARIANTS BlocksConserved TableOwned LosslessReuse GraphsFresh UploadExact
PROPERTY LedgerSpec
