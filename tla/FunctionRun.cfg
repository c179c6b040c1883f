CONSTANTS
  Vars = {"x", "i"}
  Depth = 3
  Functions <- Bodies
SPECIFICATION Spec
INVARIANTS
  TypeOK
  StackSafe
  FollowsSource
  FlowTellsExits
  UnreachableIsDead
  InfiniteIsEndless
  EarlyReadFails
CHECK_DEADLOCK FALSE
