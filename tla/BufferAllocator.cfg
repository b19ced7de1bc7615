SPECIFICATION Spec
CONSTANTS
  Align = 2
  MinAllocs = {0, 6}
  Sizes <- MCSizes
  MaxTensors = 4
  MaxAllocs = 4
  MaxGroups = 2
INVARIANT DeferDisjoint
INVARIANT DeferComputes
INVARIANT EagerDisjoint
INVARIANT EagerReclaims
CHECK_DEADLOCK FALSE
