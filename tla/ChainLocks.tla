------------------------------ MODULE ChainLocks ----------------------------
(***************************************************************************)
(* ChainLocks as the node runs them (src/src/llmq/chainlocks.cpp): CLSIG    *)
(* messages go to ProcessChainLock, which stores the lock in memory and in *)
(* the evolution database, and ContextualCheckBlock (src/src/validation.cpp)*)
(* compares the blocks that arrive with the best lock.  Two threads do     *)
(* this, the message handler and an RPC worker in submitblock, and share   *)
(* two mutexes: cs_main and the manager's cs.  The node crashes at any     *)
(* point, between two writes of the database included.                     *)
(*                                                                         *)
(* The quorum's signature is external: a lock is the block it is for, the  *)
(* quorum signed the locks of Lockable, and whether the signature verifies *)
(* depends on the quorum the active chain selects, so it may fail.  The    *)
(* pending locks are never looked at again: nothing in the node calls the  *)
(* manager's UpdatedBlockTip.                                              *)
(***************************************************************************)
EXTENDS BlockTree, FiniteSets, FiniteSetsExt, Functions

CONSTANTS
  Lockable,        \* the blocks the quorum signed
  None,            \* no block: the null hash
  MaxRestarts      \* bound: crashes

\* An honest quorum signs one block of a height.
ASSUME LockConstants ==
  /\ Lockable \subseteq Blocks
  /\ \A a, b \in Lockable : Height(a) = Height(b) => a = b
  /\ None \notin Blocks \cup {Root}
  /\ MaxRestarts \in Nat

VARIABLES
  chain,           \* [known, stored, rejected, tip]: block index and tip
  flushed,         \* the chain state on disk
  locks,           \* [byHeight, byHash, bestHeight, best]: the manager's
  disk,            \* [byHeight, byHash, bestHeight]: the database's
  pendingChainLocks,
  thread,          \* per thread, the step it is at and the block it is for
  early,           \* history: the blocks of the best lock's height that the
                   \* node had accepted when it became the best
  restarts

vars == <<chain, flushed, locks, disk, pendingChainLocks, thread, early, restarts>>

Threads == {"net", "rpc"}
Idle    == [at |-> "idle", block |-> None]
Steps   == {"idle", "verify", "store", "check", "activate"}

EmptyMap == [x \in {} |-> x]
Put(m, k, v) == [x \in (DOMAIN m) \cup {k} |-> IF x = k THEN v ELSE m[x]]

-----------------------------------------------------------------------------
(* The mutexes: a thread between two steps of ProcessChainLock holds the   *)
(* manager's cs and wants cs_main; one that is to check a block holds      *)
(* cs_main and wants cs.                                                   *)

HoldsCs(t)   == thread[t].at \in {"verify", "store"}
HoldsMain(t) == thread[t].at = "check"
CsFree       == \A t \in Threads : ~HoldsCs(t)
MainFree     == \A t \in Threads : ~HoldsMain(t)

Goto(t, at, b) == thread' = [thread EXCEPT ![t] = [at |-> at, block |-> b]]
Return(t)      == thread' = [thread EXCEPT ![t] = Idle]

-----------------------------------------------------------------------------
(* The lock database *)

\* Mutant of Written: the best height is written before the lock.
Written_BestFirst(d, b, n) ==
  [byHeight   |-> IF n >= 2 THEN Put(d.byHeight, Height(b), b) ELSE d.byHeight,
   byHash     |-> IF n >= 3 THEN d.byHash \cup {b} ELSE d.byHash,
   bestHeight |-> IF n >= 1 THEN Height(b) ELSE d.bestHeight]

\* The database after the first n writes of WriteChainLock for b, which is
\* above the best.  The fourth, the best hash, is never used.  A write that
\* falls into a transaction another thread has open on the same database would
\* be kept or lost with it; that is not taken.
Written(d, b, n) ==
  [byHeight   |-> IF n >= 1 THEN Put(d.byHeight, Height(b), b) ELSE d.byHeight,
   byHash     |-> IF n >= 2 THEN d.byHash \cup {b} ELSE d.byHash,
   bestHeight |-> IF n >= 3 THEN Height(b) ELSE d.bestHeight]

\* Mutant of Loaded: only the best lock is loaded.
Loaded_BestOnly(d) ==
  LET m == [h \in (DOMAIN d.byHeight) \cap {d.bestHeight} |-> d.byHeight[h]]
  IN  [byHeight |-> m, byHash |-> Range(m), bestHeight |-> d.bestHeight,
       best |-> IF d.bestHeight \in DOMAIN m THEN m[d.bestHeight] ELSE None]

\* The manager's state after Init: both maps come from the locks by height.
Loaded(d) ==
  [byHeight   |-> d.byHeight,
   byHash     |-> Range(d.byHeight),
   bestHeight |-> d.bestHeight,
   best       |-> IF d.bestHeight \in DOMAIN d.byHeight
                  THEN d.byHeight[d.bestHeight] ELSE None]

-----------------------------------------------------------------------------
(* The chain *)

OfHeight(c, b) == { x \in c.stored : b # None /\ Height(x) = Height(b) }

\* FindMostWorkChain: the tip, unless a chain whose data is all there has more
\* work.  Blocks are of equal difficulty, so that a chain's work is its height.
MostWork(c) ==
  LET full == { b \in c.stored : Ancestors(b) \subseteq c.stored }
      top  == Max({ Height(b) : b \in full \cup {c.tip} })
  IN  IF Height(c.tip) = top THEN {c.tip} ELSE { b \in full : Height(b) = top }

\* Mutant of AcceptsHeader: the previous block need not be known.
AcceptsHeader_AnyPrev(b) == b \in chain.known \/ Prev[b] \notin chain.rejected

\* AcceptBlockHeader: the header is known, or its previous block is and was
\* not marked invalid.  A block that is marked itself is turned away.
AcceptsHeader(b) ==
  /\ b \notin chain.rejected
  /\ b \notin chain.known => Prev[b] \in (chain.known \cup {Root}) \ chain.rejected

\* Mutant of ConflictsWithChainLock: off by one at the lock's height.
ConflictsWithChainLock_Below(b) ==
  /\ Height(b) < locks.bestHeight
  /\ Height(b) \in DOMAIN locks.byHeight
  /\ b # locks.best

\* ContextualCheckBlock: the only block turned away is one of exactly the best
\* lock's height with another hash.
ConflictsWithChainLock(b) ==
  /\ locks.bestHeight > 0
  /\ Height(b) <= locks.bestHeight
  /\ Height(b) \in DOMAIN locks.byHeight
  /\ Height(b) = locks.bestHeight
  /\ b # locks.best

-----------------------------------------------------------------------------
EmptyChain == [known |-> {}, stored |-> {}, rejected |-> {}, tip |-> Root]

Init ==
  /\ chain = EmptyChain /\ flushed = EmptyChain
  /\ disk = [byHeight |-> EmptyMap, byHash |-> {}, bestHeight |-> 0]
  /\ locks = Loaded(disk)
  /\ pendingChainLocks = EmptyMap
  /\ thread = [t \in Threads |-> Idle]
  /\ early = {} /\ restarts = 0

\* A CLSIG message whose lock is new and above the best; any other returns at
\* once.  The manager's cs is held from here on.
ProcessChainLock(b) ==
  /\ thread["net"] = Idle /\ CsFree
  /\ b \notin locks.byHash
  /\ Height(b) > locks.bestHeight
  /\ Goto("net", "verify", b)
  /\ UNCHANGED <<chain, flushed, locks, disk, pendingChainLocks, early, restarts>>

\* VerifyChainLock takes cs_main for the active chain and releases it; the
\* quorum it selects there may be missing or another one than signed.
VerifyChainLock ==
  /\ thread["net"].at = "verify" /\ MainFree
  /\ \/ Goto("net", "store", thread["net"].block)
     \/ Return("net")
  /\ UNCHANGED <<chain, flushed, locks, disk, pendingChainLocks, early, restarts>>

\* The rest of ProcessChainLock, with cs_main, for a block not in the index.
KeepPending ==
  LET b == thread["net"].block
  IN  /\ thread["net"].at = "store" /\ MainFree
      /\ b \notin chain.known
      /\ pendingChainLocks' = Put(pendingChainLocks, Height(b), b)
      /\ Return("net")
      /\ UNCHANGED <<chain, flushed, locks, disk, early, restarts>>

\* ... and for one that is: WriteChainLock, and the best lock is this one.
StoreChainLock ==
  LET b == thread["net"].block
  IN  /\ thread["net"].at = "store" /\ MainFree
      /\ b \in chain.known
      /\ disk' = Written(disk, b, 3)
      /\ locks' = [byHeight   |-> Put(locks.byHeight, Height(b), b),
                   byHash     |-> locks.byHash \cup {b},
                   bestHeight |-> Height(b),
                   best       |-> b]
      /\ pendingChainLocks' = Restrict(pendingChainLocks,
                                       (DOMAIN pendingChainLocks) \ {Height(b)})
      /\ early' = OfHeight(chain, b)
      /\ Return("net")
      /\ UNCHANGED <<chain, flushed, restarts>>

\* A headers message.
ProcessNewBlockHeaders(b) ==
  /\ thread["net"] = Idle /\ MainFree
  /\ b \notin chain.known /\ AcceptsHeader(b)
  /\ chain' = [chain EXCEPT !.known = @ \cup {b}]
  /\ UNCHANGED <<flushed, locks, disk, pendingChainLocks, thread, early, restarts>>

\* A block from a peer or from submitblock: AcceptBlock takes cs_main and
\* accepts the header.
ProcessNewBlock(t, b) ==
  /\ thread[t] = Idle /\ MainFree
  /\ b \notin chain.stored /\ AcceptsHeader(b)
  /\ chain' = [chain EXCEPT !.known = @ \cup {b}]
  /\ Goto(t, "check", b)
  /\ UNCHANGED <<flushed, locks, disk, pendingChainLocks, early, restarts>>

\* The rest of AcceptBlock: the three calls to the manager see one state, since
\* a lock is stored only with cs_main.
ContextualCheckBlock(t) ==
  LET b == thread[t].block
  IN  /\ thread[t].at = "check" /\ CsFree
      /\ IF ConflictsWithChainLock(b)
         THEN chain' = [chain EXCEPT !.rejected = @ \cup {b}] /\ Return(t)
         ELSE chain' = [chain EXCEPT !.stored = @ \cup {b}] /\ Goto(t, "activate", b)
      /\ UNCHANGED <<flushed, locks, disk, pendingChainLocks, early, restarts>>

ActivateBestChain(t) ==
  /\ thread[t].at = "activate" /\ MainFree
  /\ \E b \in MostWork(chain) : chain' = [chain EXCEPT !.tip = b]
  /\ Return(t)
  /\ UNCHANGED <<flushed, locks, disk, pendingChainLocks, early, restarts>>

FlushStateToDisk ==
  /\ MainFree /\ restarts < MaxRestarts
  /\ flushed' = chain
  /\ UNCHANGED <<chain, locks, disk, pendingChainLocks, thread, early, restarts>>

\* A crash and the start after it.  n writes of WriteChainLock were made, none
\* unless the message handler was there.
Crash(n) ==
  /\ restarts < MaxRestarts
  /\ n > 0 => thread["net"].at = "store" /\ MainFree /\ thread["net"].block \in chain.known
  /\ disk' = IF n = 0 THEN disk ELSE Written(disk, thread["net"].block, n)
  /\ locks' = Loaded(disk')
  /\ \E b \in MostWork(flushed) : chain' = [flushed EXCEPT !.tip = b]
  /\ early' = IF locks'.best = locks.best THEN early ELSE OfHeight(flushed, locks'.best)
  /\ pendingChainLocks' = EmptyMap
  /\ thread' = [t \in Threads |-> Idle]
  /\ restarts' = restarts + 1
  /\ UNCHANGED flushed

Next ==
  \/ \E b \in Lockable : ProcessChainLock(b)
  \/ VerifyChainLock
  \/ KeepPending
  \/ StoreChainLock
  \/ \E b \in Blocks : ProcessNewBlockHeaders(b)
  \/ \E t \in Threads, b \in Blocks : ProcessNewBlock(t, b)
  \/ \E t \in Threads : ContextualCheckBlock(t)
  \/ \E t \in Threads : ActivateBestChain(t)
  \/ FlushStateToDisk
  \/ \E n \in 0 .. 3 : Crash(n)

Spec == Init /\ [][Next]_vars

-----------------------------------------------------------------------------
(* Properties *)

IsChain(c) ==
  /\ c.stored \cup c.rejected \subseteq c.known
  /\ c.stored \cap c.rejected = {}
  /\ \A b \in c.known : b \in Blocks /\ Ancestors(b) \subseteq c.known
  /\ Ancestors(c.tip) \subseteq c.stored

\* The types of the state.  The block index is a tree: with a block it has the
\* blocks below it, and the active chain's data is all there.
TypeOK ==
  /\ IsChain(chain) /\ IsChain(flushed)
  /\ \A m \in {locks.byHeight, disk.byHeight, pendingChainLocks} :
       \A h \in DOMAIN m : m[h] \in Lockable /\ Height(m[h]) = h
  /\ locks.byHash \subseteq Lockable /\ disk.byHash \subseteq Lockable
  /\ locks.best \in Lockable \cup {None}
  /\ thread \in [Threads -> [at : Steps, block : Blocks \cup {None}]]
  /\ early \subseteq Blocks

\* The best height always has a lock, and the best lock is that one, whatever
\* write of WriteChainLock a crash came after.  Were the height ahead of the
\* lock, ProcessChainLock would turn the lock away as one it already has.
BestBacked ==
  /\ locks.bestHeight > 0 => /\ locks.bestHeight \in DOMAIN locks.byHeight
                             /\ locks.best = locks.byHeight[locks.bestHeight]
  /\ locks.bestHeight = 0 => locks.best = None
  /\ locks.byHash = Range(locks.byHeight)

\* A lock the node holds is held for ever, also by the node that starts after
\* a crash, and the best height never goes back.
LocksSurvive ==
  [][ /\ \A h \in DOMAIN locks.byHeight :
           h \in DOMAIN locks.byHeight' /\ locks.byHeight'[h] = locks.byHeight[h]
      /\ locks.bestHeight' >= locks.bestHeight ]_vars

\* An active chain that reaches the best lock's height goes through the locked
\* block, or through a block of that height the node had accepted before the
\* lock became the best: with two threads, late locks and restarts there is no
\* other way past ContextualCheckBlock.
ActiveRespectsLock ==
  \A x \in Ancestors(chain.tip) :
    Height(x) = locks.bestHeight => x \in early \cup {locks.best}

-----------------------------------------------------------------------------
(* What a comment says of the code, which it does not do *)

\* chainlocks.h: "Once a ChainLock is received, the block becomes immutable".
LockedBlockImmutable ==
  [][locks.best \in Ancestors(chain.tip) => locks.best \in Ancestors(chain'.tip)]_vars

=============================================================================
