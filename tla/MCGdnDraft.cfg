SPECIFICATION GdnSpec
CONSTANTS
  Token = {1, 2}
  Prompts <- Chain
  Every = 2
  Entries = 2
  MaxLen = 8
  SavedMax = 2
  Eos = 0
  KMax = 1
  DraftMax = 2
  Eager = TRUE
INVARIANT LosslessReuse
