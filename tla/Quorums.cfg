SPECIFICATION QuorumSpec
CONSTANTS
  Blocks <- ForkBlocks
  Root = "root"
  Prev <- Fork
  MAX_CACHE_SIZE = 2
  MaxReorgs = 2
  MaxRestarts = 0
  MaxFailures = 1
  dkgInterval = 1
  signingActiveQuorumCount = 2
  MinBlocks = 1
  Keyless <- KeylessBlocks
  MaxCalls = 2
CHECK_DEADLOCK FALSE
INVARIANTS
  QuorumTypeOK
  SigningQuorumsExact
  CachedQuorumsExact
