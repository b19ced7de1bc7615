SPECIFICATION DemoSpec
CONSTANTS
  Id = {"a", "b"}
  None = None
  Prompts <- MCPrompts
  MaxRows = 6
  MaxMarkers = 3
PROPERTY PreviousState
CHECK_DEADLOCK FALSE
