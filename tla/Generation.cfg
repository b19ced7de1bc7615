SPECIFICATION Spec
CONSTANTS
  Token <- MCToken
  Stop <- MCStop
  NoToken <- MCNoToken
  None = None
  Predict <- MCPredict
  BlockSize = 3
  DraftLen = 2
  MaxRows = 8
  Prompts <- MCPrompts
  MaxNew = 2
  Situations = {}
INVARIANT TypeOK
INVARIANT OutputIsGreedy
INVARIANT RowsMatchOutput
INVARIANT PositionsMatchRows
INVARIANT GeneratedCounted
INVARIANT StopIsLast
PROPERTY CallsReturn
PROPERTY ErrorSticks
