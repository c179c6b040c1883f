CONSTANTS
  LastPC = 4
  Op <- SmallOp
  Line <- SmallLine
  Target <- SmallTarget
  MaxInstructions = 4
  MaxStack = 2
  BreakSets = {{2}}
  Ops = {"continue", "pause", "step", "restartFrame"}
  Eager = TRUE
SPECIFICATION Spec
INVARIANTS
  TypeOK
  IInv
  NoStaleYield
  CommandHandshake
  ExitCodeTellsException
  DoneAfterExited
  HaltNearlyQuiet
  ParkedIsTold
PROPERTIES
  ExitIsFinal
  NoStopMissed
  ExceptionHolds
CHECK_DEADLOCK FALSE
