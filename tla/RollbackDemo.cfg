SPECIFICATION DemoSpec
CONSTANTS
  Id = {"a", "b"}
  None = None
  Prompts <- MCPrompts
  MaxRows = 6
  MaxMarkers = 3
INVARIANT StepsStartAtPrefix
PROPERTY RollbackRestores
CHECK_DEADLOCK FALSE
