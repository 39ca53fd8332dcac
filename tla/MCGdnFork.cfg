SPECIFICATION GdnSpec
CONSTANTS
  Token = {1, 2}
  Prompts <- Fork
  Every = 2
  Entries = 2
  MaxLen = 5
  SavedMax = 2
  Eos = 0
  KMax = 1
  DraftMax = 0
  Eager = FALSE
INVARIANT LosslessReuse
