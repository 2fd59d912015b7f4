---------------------------- MODULE Verification ----------------------------
(***************************************************************************)
(* What a CCheckQueueControl promises its user (src/src/checkqueue.h): the *)
(* script checks of a block are handed over in batches, and Wait returns,  *)
(* after some time, whether all of them succeed.  How many threads share   *)
(* the work is not visible.  CheckQueue implements it.                     *)
(***************************************************************************)
CONSTANTS
  Checks,          \* the checks a block may need
  Bad              \* those that fail

VARIABLES
  phase,           \* "idle", "open" (batches are added) or "waiting"
  added,           \* the checks added since the control was made
  verdict          \* "none", "valid" or "invalid"

vars == <<phase, added, verdict>>

Init == phase = "idle" /\ added = {} /\ verdict = "none"

Open ==
  /\ phase = "idle"
  /\ phase' = "open" /\ added' = {} /\ verdict' = "none"

Submit(S) ==
  /\ phase = "open"
  /\ added' = added \cup S
  /\ UNCHANGED <<phase, verdict>>

Close == phase = "open" /\ phase' = "waiting" /\ UNCHANGED <<added, verdict>>

\* The verdict is about exactly the checks of this control.
Conclude ==
  /\ phase = "waiting"
  /\ phase' = "idle"
  /\ verdict' = IF added \cap Bad = {} THEN "valid" ELSE "invalid"
  /\ UNCHANGED added

Next == Open \/ (\E S \in SUBSET Checks : Submit(S)) \/ Close \/ Conclude

Spec == Init /\ [][Next]_vars /\ WF_vars(Conclude)

=============================================================================
