SPECIFICATION GdnSpec
CONSTANTS
  Token = {1, 2}
  Prompts <- Chain
  Every = 9
  Entries = 2
  MaxLen = 7
  SavedMax = 2
  Eos = 2
  KMax = 3
  DraftMax = 0
  Eager = FALSE
INVARIANT LosslessReuse
