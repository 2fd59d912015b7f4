SPECIFICATION Spec
CONSTANTS
  g0 = g0  a1 = a1  a2 = a2  a3 = a3  a4 = a4  b1 = b1  b2 = b2  b3 = b3
  b4 = b4  c2 = c2  c3 = c3
  MAX_MONEY = 25
  None = None
  Root = g0
  Blocks <- MCBlocks
  Prev <- MCPrev
  PoolTxs <- MCPoolTxs
  Ops <- MCOps
INVARIANTS TypeOK DatabaseExact LookupsExact ConfirmedNotPending
PROPERTY VerdictsExact
