CONSTANTS
  Names = {a, b}
  InVars = {in1, in2}
  OutVars = {out}
  AppVars = {app}
  Records <- FewRecords
  Shapes <- FewShapes
  MaxHandles = 1
  MaxFiles = 1
  MaxRecords = 1
SPECIFICATION Spec
INVARIANTS
  SaysOpenIsOpen
CHECK_DEADLOCK FALSE
