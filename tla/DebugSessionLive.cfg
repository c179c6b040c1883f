CONSTANTS
  LastPC = 5
  Op <- LoopOp
  Line <- LoopLine
  Target <- LoopTarget
  MaxInstructions = 4
  MaxStack = 1
  BreakSets = {{2}}
  Ops = {"continue", "inspect", "eval", "evalInput", "lineBreaks", "instBreaks"}
  Eager = FALSE
SPECIFICATION FairSpec
PROPERTIES
  TerminateEnds
  CallsReturn
  ImplementsRun
CHECK_DEADLOCK FALSE
