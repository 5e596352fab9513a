CONSTANTS
  a = a
  b = b
  eog = eog
  NCtx = 8
  CtxBatch = 2
  NBatch = 2
  NKeep = 1
  NPredict = 6
  Tokens <- MCTokens
  EOG = eog
  BOS = a
  Chars <- MCChars
  Piece <- MCPiece
  Antiprompts <- MCAntiprompts
  Prompts <- MCPrompts
  MaxCalls = 2

SPECIFICATION Spec

INVARIANT TypeOK
INVARIANT BudgetRespected
INVARIANT ChainReleased

PROPERTY NoSampleAfterAntiprompt
PROPERTY ShiftFitsWindow
PROPERTY CallTerminates
PROPERTY ImplementsCall

\* Runs end once MaxCalls calls have returned.
CHECK_DEADLOCK FALSE
