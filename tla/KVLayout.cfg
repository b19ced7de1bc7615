SPECIFICATION LayoutSpec
CONSTANTS
  Token <- MCToken
  Blank = "blank"
  MaxLen = 5
  ExpandChunk = 1
  Quantized = FALSE
  hP = 2
  lP = 2
  HeadDim = 3
  FlashBlock = 2
  MaxPiece = 2
  KeepsTailIn = {FALSE}
INVARIANT KeysMatch
INVARIANT ValuesMatch
