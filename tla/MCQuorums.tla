------------------------------ MODULE MCQuorums -----------------------------
(***************************************************************************)
(* A chain m1, m2, m3 and a branch s2, s3 from m1; the quorum of m2 is not *)
(* valid.                                                                  *)
(***************************************************************************)
EXTENDS Quorums

Fork == [b \in {"m1", "m2", "m3", "s2", "s3"} |->
           CASE b = "m1" -> "root" [] b = "m2" -> "m1" [] b = "m3" -> "m2"
             [] b = "s2" -> "m1" [] b = "s3" -> "s2"]
ForkBlocks == DOMAIN Fork
KeylessBlocks == {"m2"}

=============================================================================
