SPECIFICATION SchedSpec
CONSTANTS
  Client = {"big", "small", "tiny", "huge"}
  Slot = {0, 1}
  TotalBlocks = 4
  NeedOf <- MCNeedOf
  ChunksOf <- MCChunksOf
  TokensOf <- MCTokensOf
  QCap = 1
  Thresholds = {1, 2}
  ErrMax = 2
INVARIANTS SchedTypeOK AnsweredOnce
PROPERTIES NoOvertaking Drained ServesOnce
