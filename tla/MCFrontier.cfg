SPECIFICATION Spec
CONSTANTS
  NodeTag = NodeTag
  MaxLeaves = 9
  MaxDamages = 2
  DamageLengths = FALSE
INVARIANTS FrontierIsExact AttestedRootIsExact
CHECK_DEADLOCK FALSE
