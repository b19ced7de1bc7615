SPECIFICATION Spec
CONSTANTS
  a = a
  b = b
  Token <- MCToken
  Blank = blank
  MaxLen = 4
  ExpandChunk = 1
  Quantized = FALSE
  NumLayers = 2
  MaxAdd = 2
  MaxPad = 1
  Allowed <- Interior
SYMMETRY Symmetry
INVARIANT TypeOK
INVARIANT AttentionAssert
INVARIANT LayersAgree
INVARIANT PositionsContinue
INVARIANT WritesInBounds
PROPERTY ImplementsConversation
