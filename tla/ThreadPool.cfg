SPECIFICATION Spec
CONSTANTS
  Runtime = {r1, r2}
  NumberThread = 3
  MaxTasks = 1
  NoWork = NoWork
  Sizes <- MCSizes
  MaxDepth = 2
INVARIANT TypeOK
INVARIANT EachIndexOnce
INVARIANT NoTaskAfterReturn
INVARIANT SlotsExclusive
PROPERTY LoopsReturn
PROPERTY QuietWhenUnused
PROPERTY DestroyEnds
CHECK_DEADLOCK FALSE
