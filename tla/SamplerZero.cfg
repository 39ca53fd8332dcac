SPECIFICATION ZeroSpec
CONSTANTS
  Token = {1, 2, 3}
  Eos = 3
  Stops = {3}
  DraftTokens = {1, 2}
  PredictMax = 4
  KMax = 4
  DraftMax = 2
  Sampling = {TRUE, FALSE}
  ErrMax = 2
  Schemas <- MCSchemas
  Ordinary = {"x", "{"}
  Vocab <- MCVocab
  TextMax = 8
  MtpAvail = TRUE
  KPlain = 2
  DraftLen = 1
  MissPeriod = 4
  ProbeTokens = 4
  Pieces <- MCPieces
  Lead = "L"
  Cont = "C"
  StopStrings <- MCStops
  TokenMax = 5
  Conn = {"a", "b"}
  MaxConns = 2
  QMax = 1
  GenMax = 2
  Char <- MCChar
  Utf8 <- MCUtf8
  Letter = {"s", "l", "E"}
  Digit = {"1"}
  Space = {" ", "n"}
  Newline = {"n"}
  Mark = {"^"}
  Lower <- MCLower
  B2c <- MCB2c
  Wide = {"G", "C", "x", "y"}
  Known <- MCKnown
  Merges <- MCMerges
  Specials <- MCSpecials
  UserSpecials <- MCUserSpecials
  WholeWords = {"Qwen2"}
  Texts <- MCTexts
  VocabLen = 4
  Rows <- MCRows
  Depth = 8
  Weight <- MCWeight
  Warm = {"hot"}
  Cut = 3
  CandN = 3
  Den = 20
  Asks <- MCAsks
  Openings <- MCOpenings
  NgramN = 1
  NgramM = 48
  CopyMax = 2
  SaidMax = 5
  Requests <- MCRequests
  Calls = 2
  MaxLine = 4
  HeaderLines = 2
  HeaderBytes = 9
  MaxBody = 3
CHECK_DEADLOCK FALSE
PROPERTY AcceptsWhatIsDrawn
