\* The Gemma engine where a prompt may share part of a trimmed conversation;
\* MCPasses has it without such prompts, MCCapacity has the Qwen engine.
SPECIFICATION SlotsSpec
CONSTANTS
  Slot = {0}
  Layer = {0, 1}
  Sliding = {0}
  BT = 2
  Mb = 7
  TotalBlocks = 29
  SW = 4
  Grid = 2
  VerifyMax = 3
  ModelMax = 16
  Prompts = {3, 8}
  Predicts = {1, 2}
  Gemma = TRUE
  PartialSharing = TRUE
INVARIANT WindowOwned
