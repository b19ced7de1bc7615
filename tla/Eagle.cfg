SPECIFICATION Spec
CONSTANTS
  Token <- MCToken
  Stop <- MCStop
  Predict <- MCPredict
  TopK = 2
  Depth = 3
  DraftLen = 4
  Answers <- MCAnswers
  Block = 3
  Prompts <- MCPrompts
  MaxNew = 5
  MaxText = 11
  Situations = {}
INVARIANT TypeOK
INVARIANT PrintedIsGreedy
INVARIANT RowsFollowText
INVARIANT DraftFollowsText
CHECK_DEADLOCK FALSE
