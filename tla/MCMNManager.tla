----------------------------- MODULE MCMNManager ----------------------------
(***************************************************************************)
(* Block trees for MNManager: a chain m1, m2, m3 and a branch s2, s3 from  *)
(* m1.                                                                     *)
(***************************************************************************)
EXTENDS MNManager

Fork == [b \in {"m1", "m2", "m3", "s2", "s3"} |->
           CASE b = "m1" -> "root" [] b = "m2" -> "m1" [] b = "m3" -> "m2"
             [] b = "s2" -> "m1" [] b = "s3" -> "s2"]
ForkBlocks == DOMAIN Fork

=============================================================================
