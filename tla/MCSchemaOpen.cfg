SPECIFICATION ConsSpec
CONSTANTS
  Schemas <- MCSchemas
  Ordinary = {"x", "{"}
  Vocab <- MCVocab
  TextMax = 8
INVARIANT AsAsked
CHECK_DEADLOCK FALSE
