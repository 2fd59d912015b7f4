------------------------------ MODULE BlockTree -----------------------------
(***************************************************************************)
(* The tree of blocks a node may learn of: CBlockIndex's pprev and what    *)
(* follows from it.  Blocks carry equal work, so that the longer of two    *)
(* chains is the one with more work.                                       *)
(***************************************************************************)
EXTENDS Integers, Sequences, Functions

CONSTANTS
  Blocks,          \* the blocks above Root
  Root,            \* the block they all descend from
  Prev             \* [Blocks -> Blocks \cup {Root}]: pprev

\* pprev leads down to Root from every block: a set of blocks has one whose
\* previous block is outside it.
ASSUME TreeConstants ==
  /\ Root \notin Blocks
  /\ Prev \in [Blocks -> Blocks \cup {Root}]
  /\ \A S \in SUBSET Blocks : S # {} => \E b \in S : Prev[b] \notin S

\* The blocks from Root, excluded, to b.
Path[b \in Blocks \cup {Root}] == IF b = Root THEN <<>> ELSE Append(Path[Prev[b]], b)

Height(b)    == Len(Path[b])
Ancestors(b) == Range(Path[b])        \* b included

\* GetAncestor: the block of height h on the path to b.
BlockAt(b, h) == IF h = 0 THEN Root ELSE Path[b][h]

\* The height of LastCommonAncestor(a, b).
ForkHeight(a, b) ==
  LET common == { h \in 0 .. Height(a) : h <= Height(b) /\ BlockAt(a, h) = BlockAt(b, h) }
  IN  CHOOSE h \in common : \A k \in common : k <= h

=============================================================================
