CONSTANTS
  PCs = {0, 1, 2}
  NInst = 3
  Line <- SmallLine
  LineSets = {{1, 2}, {}}
  InstSets = {{2, 3}}
  BreakSets = {{1}}
  QueueCap = 2
  MaxRequests = 4
  Ops = {"launch", "configurationDone", "setBreakpoints", "setInstructionBreakpoints", "continue", "pause", "stackTrace", "disconnect", "restart"}
  Launches <- EntryLaunches
  CanTerminal = FALSE
SPECIFICATION DapSpec
INVARIANTS
  DapInv
  StopIsSeen
  AnsweredOnce
  BreakpointsInForce
PROPERTIES
  OneVm
CHECK_DEADLOCK FALSE
