SPECIFICATION Spec
CONSTANTS
  Blocks <- BranchBlocks
  Root = "root"
  Prev <- Branches
  Lockable = {"a1", "a2"}
  None = "none"
  MaxRestarts = 0
CHECK_DEADLOCK FALSE
PROPERTIES
  LockedBlockImmutable
