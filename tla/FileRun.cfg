CONSTANTS
  Names = {a, b}
  InVars = {in1, in2}
  OutVars = {out}
  AppVars = {app}
  Records <- FewRecords
  Shapes <- FewShapes
  MaxHandles = 2
  MaxFiles = 2
  MaxRecords = 2
SPECIFICATION Spec
SYMMETRY Symmetry
INVARIANTS
  FileInv
  ReadsBack
  AtRecord
  EofIsTheEnd
CHECK_DEADLOCK FALSE
