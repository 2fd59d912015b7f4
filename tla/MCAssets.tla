------------------------------ MODULE MCAssets ------------------------------
(***************************************************************************)
(* A chain a1 .. a4 that issues X and reissues it until it is closed, a    *)
(* rival chain b1 .. b4 that issues X later, a third that reissues it      *)
(* differently, and three blocks that are not valid, a4, b4 and c3.  A     *)
(* reissue spends the owner's token, so that a block with one is only      *)
(* found on a chain that has issued the asset.                             *)
(***************************************************************************)
EXTENDS Assets, TLC

CONSTANTS g0, a1, a2, a3, a4, b1, b2, b3, b4, c2, c3

MCBlocks == {a1, a2, a3, a4, b1, b2, b3, b4, c2, c3}
MCPrev == a1 :> g0 @@ a2 :> a1 @@ a3 :> a2 @@ a4 :> a3
          @@ b1 :> g0 @@ b2 :> b1 @@ b3 :> b2 @@ b4 :> b3 @@ c2 :> a1 @@ c3 :> c2

Issue(n, amount) ==
  [op |-> "issue", name |-> n,
   data |-> [amount |-> amount, units |-> 0, ipfs |-> "", reissuable |-> TRUE]]
Reissue(id, n, amount, u, i, r) ==
  [op |-> "reissue", id |-> id, name |-> n, amount |-> amount, units |-> u, ipfs |-> i,
   reissuable |-> r]

\* The rival chains hold the same issue: X is what it was.
MCOps ==
  a1 :> <<Issue("X", 10)>>
  @@ a2 :> <<Reissue("r1", "X", 5, -1, "q", TRUE), Issue("Y", 1)>>
  @@ a3 :> <<Reissue("r2", "X", 1, 2, "", FALSE), Reissue("s1", "Y", 1, -1, "q", TRUE)>>
  @@ a4 :> <<Reissue("r3", "X", 1, -1, "", TRUE)>>          \* no longer reissuable
  @@ b1 :> <<>>
  @@ b2 :> <<Issue("X", 10)>>
  @@ b3 :> <<Issue("Y", 1), Reissue("r1", "X", 5, -1, "q", TRUE)>>
  @@ b4 :> <<Reissue("s1", "Y", 1, -1, "q", TRUE), Issue("X", 7)>>    \* already issued
  @@ c2 :> <<Reissue("r4", "X", 2, 1, "p", TRUE)>>
  @@ c3 :> <<Reissue("r5", "X", 14, -1, "q", TRUE)>>        \* more than MAX_MONEY

\* A rival chain issues another X.
RivalOps == b2 :> <<Issue("X", 20)>>
            @@ b3 :> <<Issue("Y", 1), Reissue("r7", "X", 5, -1, "q", TRUE)>>
            @@ MCOps

\* That is what sets it apart.
ASSUME RegularOps <=> Ops # RivalOps

\* The reissue of the third chain reaches the mempool before its block.
MCPoolTxs == {Reissue("r4", "X", 2, 1, "p", TRUE)}

=============================================================================
