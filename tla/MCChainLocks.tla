---------------------------- MODULE MCChainLocks ----------------------------
(***************************************************************************)
(* A block tree for ChainLocks: two branches from the root.                *)
(***************************************************************************)
EXTENDS ChainLocks

Branches == [b \in {"a1", "a2", "b1", "b2"} |->
               CASE b = "a1" -> "root" [] b = "a2" -> "a1"
                 [] b = "b1" -> "root" [] b = "b2" -> "b1"]
BranchBlocks == DOMAIN Branches

=============================================================================
