----------------------------- MODULE CheckQueue -----------------------------
(***************************************************************************)
(* CCheckQueue (src/src/checkqueue.h), the pool of threads that verifies   *)
(* the scripts of a block, and CCheckQueueControl, with which ConnectBlock *)
(* uses it.  Everything the threads share is protected by one mutex, so a  *)
(* step is what happens while it is held: from its acquisition to the next *)
(* wait, return or batch.  Checks are executed without it.                 *)
(*                                                                         *)
(* A condition variable is the set of threads that wait on it; woken are   *)
(* those that were notified and have not run since.  Threads may also wake *)
(* up for no reason.  At shutdown the workers are interrupted where they   *)
(* wait; the master is not a thread of that group.                         *)
(***************************************************************************)
EXTENDS Integers, Sequences, FiniteSetsExt

CONSTANTS
  Master,          \* the thread that connects blocks
  Workers,         \* the threads in ThreadScriptCheck
  Checks,          \* the checks a block may need
  Bad,             \* those that fail
  nBatchSize,
  MaxRounds        \* bound: blocks that are connected

Threads == Workers \cup {Master}

ASSUME QueueConstants ==
  /\ Master \notin Workers /\ IsFiniteSet(Workers) /\ IsFiniteSet(Checks)
  /\ Bad \subseteq Checks
  /\ nBatchSize \in Nat \ {0}
  /\ MaxRounds \in Nat

VARIABLES
  q,               \* [queue, nIdle, nTotal, fAllOk, nTodo]: the shared state
  thread,          \* [at, vChecks, fOk]: where a thread is in Loop, its batch
  woken,           \* the waiting threads that were notified
  added,           \* the checks added since the control was made
  verdict,         \* what the last Wait returned: "none", "valid" or "invalid"
  rounds           \* how many controls were made

vars == <<q, thread, woken, added, verdict, rounds>>

Waiting == { t \in Threads : thread[t].at = "wait" }

\* Where a thread is: "outside" and "adding" are for the master, "enter" is at
\* the top of the loop, before the mutex is taken.
Place == {"outside", "adding", "enter", "wait", "run", "gone"}

At(t, place) == thread' = [thread EXCEPT ![t].at = place, ![t].vChecks = <<>>]

Init ==
  /\ q = [queue |-> <<>>, nIdle |-> 0, nTotal |-> 0, fAllOk |-> TRUE, nTodo |-> 0]
  /\ thread = [t \in Threads |-> [at |-> IF t = Master THEN "outside" ELSE "enter",
                                  vChecks |-> <<>>, fOk |-> TRUE]]
  /\ woken = {} /\ added = {} /\ verdict = "none" /\ rounds = 0

-----------------------------------------------------------------------------
(* Loop *)

\* How many checks a thread takes.
Share(s) == Max({1, Min({nBatchSize, Len(s.queue) \div (s.nTotal + s.nIdle + 1)})})

\* Mutant of Leave: a worker that finds nothing to do is enough to conclude.
Leave_WhenEmpty(t, s) ==
  /\ t = Master /\ s.queue = <<>>
  /\ q' = [s EXCEPT !.nTotal = @ - 1, !.fAllOk = TRUE]
  /\ At(t, "outside")
  /\ verdict' = IF s.fAllOk THEN "valid" ELSE "invalid"

\* Mutant of Leave: the failure of this block is kept for the next.
Leave_KeepsStatus(t, s) ==
  /\ t = Master /\ s.queue = <<>> /\ s.nTodo = 0
  /\ q' = [s EXCEPT !.nTotal = @ - 1]
  /\ At(t, "outside")
  /\ verdict' = IF s.fAllOk THEN "valid" ELSE "invalid"

\* The master returns when nothing is queued and no batch is unfinished.  fQuit
\* is never set, so that workers do not return.
Leave(t, s) ==
  /\ t = Master /\ s.queue = <<>> /\ s.nTodo = 0
  /\ q' = [s EXCEPT !.nTotal = @ - 1, !.fAllOk = TRUE]
  /\ At(t, "outside")
  /\ verdict' = IF s.fAllOk THEN "valid" ELSE "invalid"

\* Mutant of Sleep: a thread that waits is not counted as idle.
Sleep_Uncounted(t, s) ==
  /\ s.queue = <<>> /\ ~(t = Master /\ s.nTodo = 0)
  /\ q' = s
  /\ At(t, "wait")
  /\ UNCHANGED verdict

Sleep(t, s) ==
  /\ s.queue = <<>> /\ ~(t = Master /\ s.nTodo = 0)
  /\ q' = [s EXCEPT !.nIdle = @ + 1]
  /\ At(t, "wait")
  /\ UNCHANGED verdict

\* The batch comes from the back of the queue; it is skipped if a check of
\* this block has failed already.
Take(t, s) ==
  /\ s.queue # <<>>
  /\ LET size == Len(s.queue)
         nNow == Share(s)
     IN  /\ q' = [s EXCEPT !.queue = SubSeq(@, 1, size - nNow)]
         /\ thread' = [thread EXCEPT ![t] =
              [at |-> "run", vChecks |-> [i \in 1 .. nNow |-> s.queue[size + 1 - i]],
               fOk |-> s.fAllOk]]
  /\ UNCHANGED verdict

\* From the test of the queue on, with the shared state s.
Proceed(t, s) == Leave(t, s) \/ Sleep(t, s) \/ Take(t, s)

\* Mutant of Clean: the result replaces that of the other threads.
Clean_LastWins(t) ==
  IF thread[t].vChecks = <<>> THEN [q EXCEPT !.nTotal = @ + 1]
  ELSE [q EXCEPT !.fAllOk = thread[t].fOk, !.nTodo = @ - Len(thread[t].vChecks)]

\* The top of the loop: the results of the previous batch, or a new thread.
Clean(t) ==
  IF thread[t].vChecks = <<>> THEN [q EXCEPT !.nTotal = @ + 1]
  ELSE [q EXCEPT !.fAllOk = @ /\ thread[t].fOk, !.nTodo = @ - Len(thread[t].vChecks)]

\* Mutant of Informed: the master is not told.
Informed_Nobody(t) == {}

\* Whom the clean-up notifies: the worker with the last results, the master.
Informed(t) ==
  IF thread[t].vChecks # <<>> /\ Clean(t).nTodo = 0 /\ t # Master
  THEN {Master} \cap Waiting ELSE {}

Enter(t) ==
  /\ thread[t].at = "enter"
  /\ Proceed(t, Clean(t))
  /\ woken' = woken \cup Informed(t)
  /\ UNCHANGED <<added, rounds>>

\* cond.wait returns.
Wake(t) ==
  /\ t \in woken
  /\ Proceed(t, [q EXCEPT !.nIdle = @ - 1])
  /\ woken' = woken \ {t}
  /\ UNCHANGED <<added, rounds>>

\* The checks of the batch, up to the first that fails.
Run(t) ==
  /\ thread[t].at = "run"
  /\ thread' = [thread EXCEPT ![t].at = "enter",
                              ![t].fOk = @ /\ Range(thread[t].vChecks) \cap Bad = {}]
  /\ UNCHANGED <<q, woken, added, verdict, rounds>>

Spurious(t) ==
  /\ t \in Waiting \ woken
  /\ woken' = woken \cup {t}
  /\ UNCHANGED <<q, thread, added, verdict, rounds>>

\* A worker is interrupted: the wait throws, and nothing is counted back.
Interrupt(t) ==
  /\ t \in Workers /\ t \in Waiting
  /\ At(t, "gone")
  /\ woken' = woken \ {t}
  /\ UNCHANGED <<q, added, verdict, rounds>>

-----------------------------------------------------------------------------
(* CCheckQueueControl, used by the master *)

Control ==
  /\ thread[Master].at = "outside"
  /\ rounds < MaxRounds
  /\ rounds' = rounds + 1
  /\ At(Master, "adding")
  /\ added' = {} /\ verdict' = "none"
  /\ UNCHANGED <<q, woken>>

\* Mutant of Notified: a single check wakes up nobody.
Notified_Batches(n) ==
  LET blocked == (Waiting \cap Workers) \ woken
  IN  IF n <= 1 THEN {{}} ELSE {blocked}

\* Whom Add notifies, for n checks: one worker, all of them, or nobody.
Notified(n) ==
  LET blocked == (Waiting \cap Workers) \ woken
  IN  IF n = 0 \/ blocked = {} THEN {{}}
      ELSE IF n = 1 THEN { {w} : w \in blocked } ELSE {blocked}

\* The checks of a vector, in some order.
Listed(S) == CHOOSE v \in Bijection(1 .. Cardinality(S), S) : TRUE

\* Mutant of Add: the checks are queued before they are counted.
Add_Uncounted(S) ==
  /\ thread[Master].at = "adding"
  /\ q' = [q EXCEPT !.queue = @ \o Listed(S)]
  /\ added' = added \cup S
  /\ \E N \in Notified(Cardinality(S)) : woken' = woken \cup N
  /\ UNCHANGED <<thread, verdict, rounds>>

Add(S) ==
  /\ thread[Master].at = "adding"
  /\ q' = [q EXCEPT !.queue = @ \o Listed(S), !.nTodo = @ + Cardinality(S)]
  /\ added' = added \cup S
  /\ \E N \in Notified(Cardinality(S)) : woken' = woken \cup N
  /\ UNCHANGED <<thread, verdict, rounds>>

\* Wait, called by ConnectBlock or by the destructor.
Wait ==
  /\ thread[Master].at = "adding"
  /\ thread' = [thread EXCEPT ![Master] = [at |-> "enter", vChecks |-> <<>>, fOk |-> TRUE]]
  /\ UNCHANGED <<q, woken, added, verdict, rounds>>

Next ==
  \/ \E t \in Threads : Enter(t) \/ Wake(t) \/ Run(t) \/ Spurious(t) \/ Interrupt(t)
  \/ Control
  \/ \E S \in SUBSET (Checks \ added) : Add(S)
  \/ Wait

\* The operating system runs every thread that can run, and checks terminate.
\* Nothing is assumed of spurious wake-ups, of interruptions or of new blocks.
Fairness == \A t \in Threads : WF_vars(Enter(t) \/ Wake(t) \/ Run(t))

Spec == Init /\ [][Next]_vars /\ Fairness

-----------------------------------------------------------------------------
(* Properties *)

InFlight(t) == Len(thread[t].vChecks)

\* The types of the state.
TypeOK ==
  /\ q.queue \in Seq(Checks) /\ {q.nIdle, q.nTotal, q.nTodo} \subseteq Nat
  /\ q.fAllOk \in BOOLEAN
  /\ \A t \in Threads : /\ thread[t].at \in Place
                        /\ thread[t].vChecks \in Seq(Checks)
                        /\ thread[t].fOk \in BOOLEAN
  /\ woken \subseteq Waiting /\ added \subseteq Checks
  /\ verdict \in {"none", "valid", "invalid"} /\ rounds \in 0 .. MaxRounds

\* nTodo, an unsigned number from which every thread subtracts on its own,
\* counts exactly the checks that are queued or in some thread's batch.
TodoExact == q.nTodo = Len(q.queue) + MapThenSumSet(InFlight, Threads)

\* Once Wait has returned no thread holds or can still get a check of the
\* block: the checks point into transactions and coins that ConnectBlock frees.
NoneLeft == thread[Master].at = "outside" =>
  q.queue = <<>> /\ \A t \in Threads : thread[t].vChecks = <<>>

\* No wake-up is lost while checks are added: what is queued gets taken before
\* the master calls Wait, if the master takes long enough and the workers are
\* not shut down.
WorkStarts ==
  (q.queue # <<>> /\ thread[Master].at = "adding") ~>
    \/ q.queue = <<>> \/ thread[Master].at # "adding"
    \/ \E t \in Workers : thread[t].at = "gone"

\* The refinement: the verdict of every block is about exactly its checks,
\* however they were spread over the threads and in whatever round a thread
\* woke up, and Wait always returns, even if workers are interrupted.
V == INSTANCE Verification WITH
  phase <- CASE thread[Master].at = "outside" -> "idle"
             [] thread[Master].at = "adding" -> "open"
             [] OTHER -> "waiting"

ImplementsVerification == V!Spec

=============================================================================
