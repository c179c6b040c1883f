CONSTANTS
  MaxOut = 3
  MaxIn = 2
  Buffer = 1
SPECIFICATION FairSpec
INVARIANTS
  TerminalInv
  LinesInOrder
PROPERTIES
  ImplementsLink
  CloseEnds
CHECK_DEADLOCK FALSE
