---------------------------- MODULE MCChainState ----------------------------
EXTENDS ChainState, TLC

CONSTANTS g0, b1, b2, b3, c2, c3

MCBlocks == {b1, b2, b3, c2, c3}
MCPrev   == b1 :> g0 @@ b2 :> b1 @@ b3 :> b2 @@ c2 :> b1 @@ c3 :> c2

tx(ins, outs) == [coinbase |-> FALSE, vin |-> ins, vout |-> outs]
cb(outs)      == [coinbase |-> TRUE, vin |-> {}, vout |-> outs]

txA == tx({"g"}, {"a", "b"})
txC == tx({"a"}, {"c"})
txD == tx({"c"}, {"d"})
txE == tx({"b"}, {"e"})

\* Two branches with the same transactions in other blocks: d is created in
\* the block that creates c, or in the next one, and the miner of height 2 pays
\* the same output on both.
MCTxs == b1 :> <<cb({}), txA>>
      @@ b2 :> <<cb({"k"}), txC, txD>>
      @@ b3 :> <<cb({}), txE>>
      @@ c2 :> <<cb({"k"}), txE, txC>>
      @@ c3 :> <<cb({}), txD>>

=============================================================================
