CONSTANTS
  Vars = {"x", "i"}
  Depth = 3
  Functions <- Bodies
SPECIFICATION Spec
INVARIANTS
  ReturnsAlways
CHECK_DEADLOCK FALSE
