SPECIFICATION RoundsSpec
CONSTANTS
  Token = {1, 2}
  Eos = 2
  Stops = {2}
  DraftTokens = {1, 2}
  PredictMax = 4
  KMax = 1
  DraftMax = 2
  Sampling = {FALSE}
  ErrMax = 0
CHECK_DEADLOCK FALSE
INVARIANT AnswerIsGreedy
