SPECIFICATION Spec
CONSTANTS
  Blocks <- BranchBlocks
  Root = "root"
  Prev <- Branches
  Lockable = {"a1", "a2"}
  None = "none"
  MaxRestarts = 1
CHECK_DEADLOCK FALSE
INVARIANTS
  TypeOK
  BestBacked
  ActiveRespectsLock
PROPERTIES
  LocksSurvive
