------------------------------- MODULE MCPoSe -------------------------------
(***************************************************************************)
(* Small instances of PoSe.  The masternodes are interchangeable.          *)
(***************************************************************************)
EXTENDS PoSe, TLC

CONSTANTS a, b

Symmetric == Permutations(MNs)

=============================================================================
