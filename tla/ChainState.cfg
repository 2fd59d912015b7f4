SPECIFICATION Spec
CONSTANTS
  g0 = g0  b1 = b1  b2 = b2  b3 = b3  c2 = c2  c3 = c3  None = None
  Root = g0
  Blocks <- MCBlocks
  Prev <- MCPrev
  Txs <- MCTxs
  Outpoints = {"g", "a", "b", "c", "d", "e", "k"}
  Unspent = {"g"}
INVARIANTS TypeOK NoFault FlagsSound DatabaseConsistent
PROPERTY ImplementsUTXOSet
