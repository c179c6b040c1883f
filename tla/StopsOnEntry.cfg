CONSTANTS
  LastPC = 5
  Op <- LoopOp
  Line <- LoopLine
  Target <- LoopTarget
  MaxInstructions = 4
  MaxStack = 1
  BreakSets = {{}}
  Ops = {"lineBreaks"}
  Eager = FALSE
SPECIFICATION Spec
PROPERTY
  StopsOnEntry
CHECK_DEADLOCK FALSE
