CONSTANTS
  PCs = {0, 1, 2}
  NInst = 3
  Line <- SmallLine
  LineSets = {{2}}
  InstSets = {{2}}
  BreakSets = {{1}}
  QueueCap = 2
  MaxRequests = 2
  Ops = {"launch", "configurationDone", "hangUp"}
  Launches <- PlainOnly
  CanTerminal = FALSE
SPECIFICATION DapSpec
INVARIANTS
  NeverSendsOnClosed
CHECK_DEADLOCK FALSE
