SPECIFICATION Spec
CONSTANTS
  Blocks <- ForkBlocks
  Root = "root"
  Prev <- Fork
  MAX_CACHE_SIZE = 1
  MaxReorgs = 2
  MaxRestarts = 1
  MaxFailures = 1
CHECK_DEADLOCK FALSE
INVARIANTS
  TypeOK
  ListsGenuine
  CacheBacked
  ExactUnlessCrowded
  ActiveListsExact
