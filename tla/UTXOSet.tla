------------------------------ MODULE UTXOSet -------------------------------
(***************************************************************************)
(* What the chain state promises to the rest of the node: while it is      *)
(* available, the coins are exactly those that the blocks up to the tip    *)
(* left unspent.  The tip moves by one block at a time; at any moment it   *)
(* may be saved, and a node that starts finds the tip that was saved last. *)
(***************************************************************************)
CONSTANTS
  Blocks, Root,    \* the blocks above Root, and the block they descend from
  Prev,            \* [Blocks -> Blocks \cup {Root}]: the previous block
  UTXO,            \* the coins that the blocks up to a block leave unspent
  None

VARIABLES tip, coins, saved

vars == <<tip, coins, saved>>

At(b) == tip' = b /\ coins' = UTXO[b]

Init == tip = Root /\ coins = UTXO[Root] /\ saved = Root

Advance == tip # None /\ (\E b \in Blocks : Prev[b] = tip /\ At(b)) /\ UNCHANGED saved
Retreat == tip \in Blocks /\ At(Prev[tip]) /\ UNCHANGED saved
Save    == tip # None /\ saved' = tip /\ UNCHANGED <<tip, coins>>
Stop    == tip # None /\ tip' = None /\ coins' = None /\ UNCHANGED saved
Start   == tip = None /\ At(saved) /\ UNCHANGED saved

Next == Advance \/ Retreat \/ Save \/ Stop \/ Start

Spec == Init /\ [][Next]_vars

=============================================================================
