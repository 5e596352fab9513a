CONSTANTS
  a = a
  b = b
  eog = eog
  NCtx = 8
  CtxBatch = 2
  NBatch = 2
  NKeep = 1
  NPredict = 8
  Tokens <- MCTokens
  EOG = eog
  BOS = a
  Chars <- MCChars
  Piece <- MCPiece
  Antiprompts <- MCAntiprompts
  Prompts <- MCPrompts
  MaxCalls = 2

SPECIFICATION Spec

INVARIANT NoDecodeError

CHECK_DEADLOCK FALSE
