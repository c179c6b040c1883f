CONSTANTS
  PCs = {0, 1, 2}
  NInst = 3
  Line <- SmallLine
  LineSets = {{2}}
  InstSets = {{2}}
  BreakSets = {{1}}
  QueueCap = 1
  MaxRequests = 3
  Ops = {"launch", "configurationDone", "next", "restartFrame", "evaluate", "terminate", "restart", "hangUp"}
  Launches <- PlainOnly
  CanTerminal = TRUE
SPECIFICATION FairDapSpec
PROPERTIES
  RequestsHandled
  HangUpEnds
CHECK_DEADLOCK FALSE
