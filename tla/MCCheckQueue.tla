---------------------------- MODULE MCCheckQueue ----------------------------
(***************************************************************************)
(* Two blocks of up to four checks, one of which may fail, and two worker  *)
(* threads.  A thread that is alone with four checks takes two of them at  *)
(* once, the size of a batch here.                                         *)
(***************************************************************************)
EXTENDS CheckQueue

=============================================================================
