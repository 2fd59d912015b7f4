-------------------------- MODULE ChainLocksProofs --------------------------
(***************************************************************************)
(* ChainLocks for every block tree, any set of locks an honest quorum can  *)
(* sign and any number of crashes: the locks a node holds are backed by    *)
(* its database, survive, and bind the active chain.  The invariant says   *)
(* what the two mutexes protect: a thread that is to store a lock still    *)
(* has one above the best, and a thread that is to check a block still has *)
(* one that was neither stored nor marked.                                 *)
(***************************************************************************)
EXTENDS ChainLocks, BlockTreeProofs

USE SMTT(30)

-----------------------------------------------------------------------------

ChainState == [known : SUBSET Blocks, stored : SUBSET Blocks,
               rejected : SUBSET Blocks, tip : Nodes]

\* A map from heights to locks of that height.
LockMap(m) == \A h \in DOMAIN m : m[h] \in Lockable /\ Height(m[h]) = h

\* A database with the lock of its best height.
DiskOk(d) ==
  /\ LockMap(d.byHeight)
  /\ d.byHash \subseteq Lockable
  /\ d.bestHeight \in Nat
  /\ d.bestHeight > 0 => d.bestHeight \in DOMAIN d.byHeight

\* Block index and chain state, in memory and on disk.
ChainInv ==
  /\ chain \in ChainState /\ flushed \in ChainState
  /\ IsChain(chain) /\ IsChain(flushed)
  /\ flushed.stored \subseteq chain.stored

\* The locks: memory is what Init would load from the database.
LockInv == locks = Loaded(disk) /\ DiskOk(disk) /\ LockMap(pendingChainLocks)

\* The threads: who holds which mutex, and what it protects.
ThreadInv ==
  /\ thread \in [Threads -> [at : Steps, block : Blocks \cup {None}]]
  /\ ~HoldsCs("rpc")
  /\ ~(HoldsMain("net") /\ HoldsMain("rpc"))
  /\ HoldsCs("net") => /\ thread["net"].block \in Lockable
                       /\ Height(thread["net"].block) > disk.bestHeight
  /\ \A t \in Threads : HoldsMain(t) =>
       thread[t].block \in chain.known \ (chain.stored \cup chain.rejected)

\* A stored block of the best lock's height is the locked one, or was stored
\* before the lock became the best.
EarlyInv ==
  /\ early \subseteq Blocks
  /\ \A x \in chain.stored : Height(x) = locks.bestHeight => x \in early \cup {locks.best}

IInv == ChainInv /\ LockInv /\ ThreadInv /\ EarlyInv

-----------------------------------------------------------------------------
(* The lock database *)

\* The quorum signs one block of a height, so a lock that is stored twice, or
\* again after a crash, replaces itself: no lock of another height changes.
LEMMA PutLock ==
  ASSUME NEW m, LockMap(m), NEW b \in Lockable
  PROVE  LET r == Put(m, Height(b), b)
         IN  /\ LockMap(r)
             /\ Height(b) \in DOMAIN r /\ r[Height(b)] = b
             /\ \A h \in DOMAIN m : h \in DOMAIN r /\ r[h] = m[h]
             /\ Range(r) = Range(m) \cup {b}
<1> DEFINE h0 == Height(b)
           r == Put(m, h0, b)
<1>1. h0 \in DOMAIN m => m[h0] = b
  BY LockConstants, Zenon DEF LockMap
<1> HIDE DEF h0
<1>2. DOMAIN r = (DOMAIN m) \cup {h0} /\ r[h0] = b
  BY Zenon DEF Put
<1>3. \A h \in DOMAIN m : r[h] = m[h]
  BY <1>1, Zenon DEF Put
<1> HIDE DEF r
<1>4. LockMap(r)
  BY <1>2, <1>3, Zenon DEF LockMap, h0
<1>5. Range(r) = Range(m) \cup {b}
  BY <1>2, <1>3 DEF Range
<1> QED BY <1>2, <1>3, <1>4, <1>5, Zenon DEF h0, r

\* Whatever prefix of WriteChainLock's writes reaches the database, its best
\* height has a lock; no lock is lost and the best height does not go back.
LEMMA WrittenSound ==
  ASSUME NEW d, DiskOk(d), NEW b \in Lockable, Height(b) > d.bestHeight, NEW n \in 0 .. 3
  PROVE  LET e == Written(d, b, n)
         IN  /\ DiskOk(e)
             /\ \A h \in DOMAIN d.byHeight :
                  h \in DOMAIN e.byHeight /\ e.byHeight[h] = d.byHeight[h]
             /\ e.bestHeight >= d.bestHeight
             /\ n = 3 => e.bestHeight = Height(b)
             /\ n < 3 => e.bestHeight = d.bestHeight
<1> DEFINE m == Put(d.byHeight, Height(b), b)
           e == Written(d, b, n)
<1>0. Height(b) \in Nat /\ b \in Blocks
  BY BlockHeight, LockConstants, Zenon
<1>1. /\ LockMap(m) /\ Height(b) \in DOMAIN m
      /\ \A h \in DOMAIN d.byHeight : h \in DOMAIN m /\ m[h] = d.byHeight[h]
  BY PutLock, Zenon DEF DiskOk
<1>2. e.byHeight = m \/ e.byHeight = d.byHeight
  BY Zenon DEF Written
<1>3. e.byHash \subseteq Lockable
  BY Zenon DEF Written, DiskOk
<1>4. /\ n = 3 => e.bestHeight = Height(b) /\ e.byHeight = m
      /\ n < 3 => e.bestHeight = d.bestHeight
  BY DEF Written
<1> HIDE DEF m, e
<1>5. LockMap(e.byHeight)
  BY <1>1, <1>2, Zenon DEF DiskOk
<1>6. \A h \in DOMAIN d.byHeight : h \in DOMAIN e.byHeight /\ e.byHeight[h] = d.byHeight[h]
  BY <1>1, <1>2
<1>7. e.bestHeight \in Nat /\ e.bestHeight >= d.bestHeight
  BY <1>0, <1>4 DEF DiskOk
<1>8. e.bestHeight > 0 => e.bestHeight \in DOMAIN e.byHeight
  BY <1>1, <1>4, <1>6 DEF DiskOk
<1> QED BY <1>3, <1>4, <1>5, <1>6, <1>7, <1>8, Zenon DEF DiskOk, e

\* What Init loads from a sound database: the best lock is the lock of the best
\* height, and there is none exactly if that height is 0.
LEMMA LoadedSound ==
  ASSUME NEW d, DiskOk(d)
  PROVE  LET l == Loaded(d)
         IN  /\ l.byHeight = d.byHeight /\ l.bestHeight = d.bestHeight
             /\ l.byHash = Range(d.byHeight) /\ l.byHash \subseteq Lockable
             /\ d.bestHeight > 0 => /\ l.best = d.byHeight[d.bestHeight]
                                    /\ l.best \in Lockable
                                    /\ Height(l.best) = d.bestHeight
             /\ d.bestHeight = 0 => l.best = None
<1> DEFINE l == Loaded(d)
<1>1. /\ l.byHeight = d.byHeight /\ l.bestHeight = d.bestHeight
      /\ l.byHash = Range(d.byHeight)
      /\ l.best = IF d.bestHeight \in DOMAIN d.byHeight THEN d.byHeight[d.bestHeight] ELSE None
  BY Zenon DEF Loaded
<1> HIDE DEF l
<1>2. l.byHash \subseteq Lockable
  BY <1>1, Zenon DEF Range, DiskOk, LockMap
<1>3. d.bestHeight > 0 => /\ l.best = d.byHeight[d.bestHeight]
                          /\ l.best \in Lockable
                          /\ Height(l.best) = d.bestHeight
  BY <1>1, Zenon DEF DiskOk, LockMap
<1>4. 0 \notin DOMAIN d.byHeight
  BY BlockHeight, LockConstants, Zenon DEF DiskOk, LockMap
<1> QED BY <1>1, <1>2, <1>3, <1>4, Zenon DEF l

-----------------------------------------------------------------------------
(* The invariant implies the properties *)

\* The invariant gives the types.
LEMMA InvTypes == IInv => TypeOK
<1> SUFFICES ASSUME IInv PROVE TypeOK
  BY Zenon
<1> USE DEF IInv
<1>1. IsChain(chain) /\ IsChain(flushed)
  BY Zenon DEF ChainInv
<1>2. /\ locks.byHeight = disk.byHeight /\ locks.byHash \subseteq Lockable
      /\ locks.best \in Lockable \cup {None}
  BY LoadedSound DEF LockInv, DiskOk
<1>3. \A m \in {locks.byHeight, disk.byHeight, pendingChainLocks} : LockMap(m)
  BY <1>2, Zenon DEF LockInv, DiskOk
<1>4. disk.byHash \subseteq Lockable
  BY Zenon DEF LockInv, DiskOk
<1>5. thread \in [Threads -> [at : Steps, block : Blocks \cup {None}]] /\ early \subseteq Blocks
  BY Zenon DEF ThreadInv, EarlyInv
<1> QED BY <1>1, <1>2, <1>3, <1>4, <1>5, Zenon DEF TypeOK, LockMap

\* The best height has a lock in memory, since it has one in the database.
LEMMA InvBestBacked == IInv => BestBacked
<1> SUFFICES ASSUME IInv PROVE BestBacked
  BY Zenon
<1>1. DiskOk(disk) /\ locks = Loaded(disk)
  BY Zenon DEF IInv, LockInv
<1> QED BY <1>1, LoadedSound, Zenon DEF BestBacked, DiskOk

\* The blocks of the active chain are stored.
LEMMA InvRespects == IInv => ActiveRespectsLock
BY Zenon DEF IInv, ChainInv, IsChain, EarlyInv, ActiveRespectsLock

\* The invariant holds when the node starts for the first time.
LEMMA InitInv == Init => IInv
<1> SUFFICES ASSUME Init PROVE IInv
  BY Zenon
<1> USE DEF Init
<1>1. ChainInv
  BY AncestorsStep, Zenon DEF ChainInv, ChainState, IsChain, EmptyChain, Nodes
<1>2. LockMap(EmptyMap)
  BY Zenon DEF LockMap, EmptyMap
<1>3. LockInv
  BY <1>2 DEF LockInv, DiskOk, EmptyMap
<1>4. ThreadInv
  BY Zenon DEF ThreadInv, Threads, Idle, Steps, HoldsCs, HoldsMain
<1>5. EarlyInv
  BY Zenon DEF EarlyInv, EmptyChain
<1> QED BY <1>1, <1>3, <1>4, <1>5, Zenon DEF IInv

-----------------------------------------------------------------------------
(* The invariant is inductive: the steps of ProcessChainLock *)

\* A step that leaves chain, locks and pending locks alone leaves their part of
\* the invariant alone.
LEMMA SameChainAndLocks ==
  ASSUME IInv, UNCHANGED <<chain, flushed, locks, disk, pendingChainLocks, early>>
  PROVE  ChainInv' /\ LockInv' /\ EarlyInv'
<1>1. ChainInv'
  BY Zenon DEF IInv, ChainInv, IsChain
<1>2. LockInv'
  BY Zenon DEF IInv, LockInv
<1>3. EarlyInv'
  BY Zenon DEF IInv, EarlyInv
<1> QED BY <1>1, <1>2, <1>3, Zenon

\* A CLSIG message that is taken up.
LEMMA ProcessChainLockInv ==
  ASSUME IInv, NEW b \in Lockable, ProcessChainLock(b)
  PROVE  IInv'
<1>1. ChainInv' /\ LockInv' /\ EarlyInv'
  BY SameChainAndLocks, Zenon DEF ProcessChainLock
<1>2. ThreadInv'
  <2>1. Height(b) > disk.bestHeight /\ b \in Blocks
    BY LoadedSound, LockConstants, Zenon DEF IInv, LockInv, ProcessChainLock
  <2> QED BY <2>1, Zenon DEF IInv, ThreadInv, ProcessChainLock, Goto, Idle, Steps, Threads,
                   HoldsCs, HoldsMain
<1> QED BY <1>1, <1>2, Zenon DEF IInv

\* The signature is verified, with the manager's cs held throughout.
LEMMA VerifyChainLockInv ==
  ASSUME IInv, VerifyChainLock
  PROVE  IInv'
<1>1. ChainInv' /\ LockInv' /\ EarlyInv'
  BY SameChainAndLocks, Zenon DEF VerifyChainLock
<1>2. ThreadInv'
  BY DEF IInv, ThreadInv, VerifyChainLock, Goto, Return, Idle, Steps, Threads,
         HoldsCs, HoldsMain
<1> QED BY <1>1, <1>2, Zenon DEF IInv

\* A lock for an unknown block is kept aside.
LEMMA KeepPendingInv ==
  ASSUME IInv, KeepPending
  PROVE  IInv'
<1> DEFINE b == thread["net"].block
<1>1. b \in Lockable
  BY Zenon DEF IInv, ThreadInv, KeepPending, HoldsCs
<1>2. ChainInv'
  BY Zenon DEF IInv, ChainInv, IsChain, KeepPending
<1>3. LockInv'
  BY <1>1, PutLock, Zenon DEF IInv, LockInv, KeepPending
<1>4. ThreadInv'
  BY Zenon DEF IInv, ThreadInv, KeepPending, Return, Idle, Steps, Threads, HoldsCs, HoldsMain
<1>5. EarlyInv'
  BY Zenon DEF IInv, EarlyInv, KeepPending
<1> QED BY <1>2, <1>3, <1>4, <1>5, Zenon DEF IInv

\* A lock is stored: with cs held since its height was compared, it is still
\* above the best, and memory and database change alike.
LEMMA StoreChainLockInv ==
  ASSUME IInv, StoreChainLock
  PROVE  IInv'
<1> DEFINE b == thread["net"].block
<1>1. b \in Lockable /\ Height(b) > disk.bestHeight /\ DiskOk(disk) /\ locks = Loaded(disk)
  BY Zenon DEF IInv, LockInv, ThreadInv, StoreChainLock, HoldsCs
<1>2. disk' = Written(disk, b, 3)
  BY Zenon DEF StoreChainLock
<1>3. DiskOk(disk')
  BY <1>1, <1>2, WrittenSound
<1>4. locks' = Loaded(disk')
  <2> DEFINE m == Put(disk.byHeight, Height(b), b)
  <2>1. disk' = [byHeight |-> m, byHash |-> disk.byHash \cup {b}, bestHeight |-> Height(b)]
    BY <1>2 DEF Written
  <2>2. Height(b) \in DOMAIN m /\ m[Height(b)] = b /\ Range(m) = Range(disk.byHeight) \cup {b}
    BY <1>1, PutLock, Zenon DEF DiskOk
  <2>3. locks.byHeight = disk.byHeight /\ locks.byHash = Range(disk.byHeight)
    BY <1>1, LoadedSound, Zenon
  <2>4. locks' = [byHeight |-> m, byHash |-> Range(m), bestHeight |-> Height(b), best |-> b]
    BY <2>2, <2>3, Zenon DEF StoreChainLock
  <2> HIDE DEF m, b
  <2> QED BY <2>1, <2>2, <2>4, Zenon DEF Loaded
<1>5. ChainInv'
  BY Zenon DEF IInv, ChainInv, IsChain, StoreChainLock
<1>6. LockMap(pendingChainLocks')
  BY Zenon DEF IInv, LockInv, StoreChainLock, LockMap, Restrict
<1>7. ThreadInv'
  BY Zenon DEF IInv, ThreadInv, StoreChainLock, Return, Idle, Steps, Threads, HoldsCs, HoldsMain
<1>8. EarlyInv'
  <2>1. early' = { x \in chain.stored : Height(x) = Height(b) } /\ chain' = chain
    BY <1>1, LockConstants, Zenon DEF StoreChainLock, OfHeight
  <2>2. locks'.bestHeight = Height(b)
    BY Zenon DEF StoreChainLock
  <2>3. chain.stored \subseteq Blocks
    BY Zenon DEF IInv, ChainInv, ChainState
  <2> QED BY <2>1, <2>2, <2>3, Zenon DEF EarlyInv
<1> QED BY <1>3, <1>4, <1>5, <1>6, <1>7, <1>8, Zenon DEF IInv, LockInv

-----------------------------------------------------------------------------
(* ... the steps of a block *)

\* A header that is accepted joins the tree below it.
LEMMA KnownGrows ==
  ASSUME NEW c \in ChainState, IsChain(c), NEW b \in Blocks,
         b \notin c.known => Prev[b] \in c.known \cup {Root}
  PROVE  LET d == [c EXCEPT !.known = @ \cup {b}]
         IN  d \in ChainState /\ IsChain(d)
<1> DEFINE d == [c EXCEPT !.known = @ \cup {b}]
<1>1. /\ d \in ChainState /\ d.known = c.known \cup {b}
      /\ d.stored = c.stored /\ d.rejected = c.rejected /\ d.tip = c.tip
  BY Zenon DEF ChainState
<1>2. Ancestors(b) \subseteq c.known \cup {b}
  <2>1. CASE b \in c.known
    BY <2>1, Zenon DEF IsChain
  <2>2. CASE b \notin c.known
    <3>1. Ancestors(b) = Ancestors(Prev[b]) \cup {b}
      BY AncestorsStep, Zenon
    <3>2. Ancestors(Prev[b]) \subseteq c.known
      BY <2>2, AncestorsStep, Zenon DEF IsChain
    <3> QED BY <3>1, <3>2, Zenon
  <2> QED BY <2>1, <2>2, Zenon
<1> HIDE DEF d
<1>3. IsChain(d)
  BY <1>1, <1>2, Zenon DEF IsChain
<1> QED BY <1>1, <1>3, Zenon DEF d

\* A headers message: cs_main is free, so no thread is about to check a block.
LEMMA ProcessNewBlockHeadersInv ==
  ASSUME IInv, NEW b \in Blocks, ProcessNewBlockHeaders(b)
  PROVE  IInv'
<1>1. chain' = [chain EXCEPT !.known = @ \cup {b}]
  BY Zenon DEF ProcessNewBlockHeaders
<1>2. chain \in ChainState /\ IsChain(chain)
  BY Zenon DEF IInv, ChainInv
<1>3. chain' \in ChainState /\ IsChain(chain')
  BY <1>1, <1>2, KnownGrows, Zenon DEF ProcessNewBlockHeaders, AcceptsHeader
<1>4. chain'.stored = chain.stored
  BY <1>1, <1>2, Zenon DEF ChainState
<1>5. ChainInv'
  BY <1>3, <1>4, Zenon DEF IInv, ChainInv, ProcessNewBlockHeaders, IsChain
<1>6. LockInv'
  BY Zenon DEF IInv, LockInv, ProcessNewBlockHeaders
<1>7. ThreadInv'
  BY Zenon DEF IInv, ThreadInv, ProcessNewBlockHeaders, MainFree, HoldsCs, HoldsMain, Threads
<1>8. EarlyInv'
  BY <1>4, Zenon DEF IInv, EarlyInv, ProcessNewBlockHeaders
<1> QED BY <1>5, <1>6, <1>7, <1>8, Zenon DEF IInv

\* A block arrives: its header is accepted and cs_main kept.
LEMMA ProcessNewBlockInv ==
  ASSUME IInv, NEW t \in Threads, NEW b \in Blocks, ProcessNewBlock(t, b)
  PROVE  IInv'
<1>1. chain' = [chain EXCEPT !.known = @ \cup {b}]
  BY Zenon DEF ProcessNewBlock
<1>2. chain \in ChainState /\ IsChain(chain)
  BY Zenon DEF IInv, ChainInv
<1>3. chain' \in ChainState /\ IsChain(chain')
  BY <1>1, <1>2, KnownGrows, Zenon DEF ProcessNewBlock, AcceptsHeader
<1>4. /\ chain'.stored = chain.stored /\ chain'.rejected = chain.rejected
      /\ chain'.known = chain.known \cup {b}
  BY <1>1, <1>2, Zenon DEF ChainState
<1>5. ChainInv'
  BY <1>3, <1>4, Zenon DEF IInv, ChainInv, ProcessNewBlock, IsChain
<1>6. LockInv'
  BY Zenon DEF IInv, LockInv, ProcessNewBlock
<1>7. ThreadInv'
  <2>1. /\ thread' = [thread EXCEPT ![t] = [at |-> "check", block |-> b]]
        /\ thread[t].at = "idle"
        /\ b \notin chain.stored /\ b \notin chain.rejected
    BY DEF ProcessNewBlock, Goto, AcceptsHeader, Idle
  <2> QED BY <1>4, <2>1, Zenon DEF IInv, ThreadInv, ProcessNewBlock, MainFree, Steps, HoldsCs,
                            HoldsMain, Threads
<1>8. EarlyInv'
  BY <1>4, Zenon DEF IInv, EarlyInv, ProcessNewBlock
<1> QED BY <1>5, <1>6, <1>7, <1>8, Zenon DEF IInv

\* The check of a block against the best lock: the lock of the best height is
\* there, so a block of that height that passes is the locked one.
LEMMA ContextualCheckBlockInv ==
  ASSUME IInv, NEW t \in Threads, ContextualCheckBlock(t)
  PROVE  IInv'
<1> DEFINE b == thread[t].block
           conflict == ConflictsWithChainLock(b)
<1>1. chain \in ChainState /\ IsChain(chain)
  BY Zenon DEF IInv, ChainInv
<1>2. b \in chain.known \ (chain.stored \cup chain.rejected) /\ b \in Blocks
  BY <1>1, Zenon DEF IInv, ThreadInv, ContextualCheckBlock, HoldsMain, ChainState
<1>3. CASE conflict
  <2>1. /\ chain' = [chain EXCEPT !.rejected = @ \cup {b}]
        /\ thread' = [thread EXCEPT ![t] = Idle]
    BY <1>3, Zenon DEF ContextualCheckBlock, Return
  <2>2. /\ chain' \in ChainState /\ chain'.known = chain.known /\ chain'.stored = chain.stored
        /\ chain'.rejected = chain.rejected \cup {b} /\ chain'.tip = chain.tip
    BY <1>1, <1>2, <2>1, Zenon DEF ChainState
  <2>3. IsChain(chain')
    BY <1>1, <1>2, <2>2, Zenon DEF IsChain
  <2>4. ChainInv'
    BY <2>2, <2>3, Zenon DEF IInv, ChainInv, ContextualCheckBlock, IsChain
  <2>5. ThreadInv'
    BY <2>1, <2>2, Zenon DEF IInv, ThreadInv, ContextualCheckBlock, CsFree, Idle, Steps, HoldsCs,
                      HoldsMain, Threads
  <2>6. EarlyInv'
    BY <2>2, Zenon DEF IInv, EarlyInv, ContextualCheckBlock
  <2> QED BY <2>4, <2>5, <2>6, Zenon DEF IInv, LockInv, ContextualCheckBlock
<1>4. CASE ~conflict
  <2>1. /\ chain' = [chain EXCEPT !.stored = @ \cup {b}]
        /\ thread' = [thread EXCEPT ![t] = [at |-> "activate", block |-> b]]
    BY <1>4, Zenon DEF ContextualCheckBlock, Goto
  <2>2. /\ chain' \in ChainState /\ chain'.known = chain.known
        /\ chain'.stored = chain.stored \cup {b}
        /\ chain'.rejected = chain.rejected /\ chain'.tip = chain.tip
    BY <1>1, <1>2, <2>1, Zenon DEF ChainState
  <2>3. IsChain(chain')
    BY <1>1, <1>2, <2>2, Zenon DEF IsChain
  <2>4. ChainInv'
    BY <2>2, <2>3, Zenon DEF IInv, ChainInv, ContextualCheckBlock, IsChain
  <2>5. ThreadInv'
    BY <1>2, <2>1, <2>2, Zenon DEF IInv, ThreadInv, ContextualCheckBlock, CsFree, Steps, HoldsCs,
                      HoldsMain, Threads
  <2>6. Height(b) = locks.bestHeight => b = locks.best
    <3>1. Height(b) \in Nat \ {0}
      BY <1>2, BlockHeight, Zenon
    <3>2. locks.bestHeight > 0 => locks.bestHeight \in DOMAIN locks.byHeight
      BY InvBestBacked, Zenon DEF BestBacked
    <3> QED BY <1>4, <3>1, <3>2 DEF ConflictsWithChainLock
  <2>7. EarlyInv'
    BY <2>2, <2>6, Zenon DEF IInv, EarlyInv, ContextualCheckBlock
  <2> QED BY <2>4, <2>5, <2>7, Zenon DEF IInv, LockInv, ContextualCheckBlock
<1> QED BY <1>3, <1>4, Zenon

\* The chain FindMostWorkChain selects has all its data.
LEMMA NewTip ==
  ASSUME NEW c \in ChainState, IsChain(c), NEW b \in MostWork(c)
  PROVE  LET d == [c EXCEPT !.tip = b]
         IN  d \in ChainState /\ IsChain(d) /\ d.stored = c.stored
                              /\ d.known = c.known /\ d.rejected = c.rejected
<1> DEFINE full == { x \in c.stored : Ancestors(x) \subseteq c.stored }
           d == [c EXCEPT !.tip = b]
<1>1. b = c.tip \/ b \in full
  <2>1. MostWork(c) \subseteq full \cup {c.tip}
    BY Zenon DEF MostWork
  <2> QED BY <2>1, Zenon
<1>2. b \in Nodes /\ Ancestors(b) \subseteq c.stored
  BY <1>1, Zenon DEF ChainState, IsChain, Nodes
<1>3. /\ d \in ChainState /\ d.tip = b
      /\ d.stored = c.stored /\ d.known = c.known /\ d.rejected = c.rejected
  BY <1>2, Zenon DEF ChainState
<1> HIDE DEF d
<1>4. IsChain(d)
  BY <1>2, <1>3, Zenon DEF IsChain
<1> QED BY <1>3, <1>4, Zenon DEF d

\* The tip changes to a chain whose blocks are all stored.
LEMMA ActivateBestChainInv ==
  ASSUME IInv, NEW t \in Threads, ActivateBestChain(t)
  PROVE  IInv'
<1>1. PICK b \in MostWork(chain) : chain' = [chain EXCEPT !.tip = b]
  BY Zenon DEF ActivateBestChain
<1>2. chain \in ChainState /\ IsChain(chain)
  BY Zenon DEF IInv, ChainInv
<1>3. /\ chain' \in ChainState /\ IsChain(chain') /\ chain'.stored = chain.stored
      /\ chain'.known = chain.known /\ chain'.rejected = chain.rejected
  BY <1>1, <1>2, NewTip, Zenon
<1>4. ChainInv'
  BY <1>3, Zenon DEF IInv, ChainInv, ActivateBestChain, IsChain
<1>5. LockInv'
  BY Zenon DEF IInv, LockInv, ActivateBestChain
<1>6. ThreadInv'
  BY <1>3, Zenon DEF IInv, ThreadInv, ActivateBestChain, Return, MainFree, Idle, Steps, HoldsCs,
              HoldsMain, Threads
<1>7. EarlyInv'
  BY <1>3, Zenon DEF IInv, EarlyInv, ActivateBestChain
<1> QED BY <1>4, <1>5, <1>6, <1>7, Zenon DEF IInv

\* The chain state is written to disk.
LEMMA FlushStateToDiskInv ==
  ASSUME IInv, FlushStateToDisk
  PROVE  IInv'
<1>1. ChainInv'
  BY Zenon DEF IInv, ChainInv, FlushStateToDisk, IsChain
<1>2. LockInv' /\ EarlyInv'
  BY Zenon DEF IInv, LockInv, EarlyInv, FlushStateToDisk
<1>3. ThreadInv'
  BY Zenon DEF IInv, ThreadInv, FlushStateToDisk, HoldsCs, HoldsMain
<1> QED BY <1>1, <1>2, <1>3, Zenon DEF IInv

\* What a crash between two writes leaves in the database is sound, and has
\* every lock it had.
LEMMA CrashDisk ==
  ASSUME IInv, NEW n \in 0 .. 3, Crash(n)
  PROVE  /\ DiskOk(disk')
         /\ \A h \in DOMAIN disk.byHeight :
              h \in DOMAIN disk'.byHeight /\ disk'.byHeight[h] = disk.byHeight[h]
         /\ disk'.bestHeight >= disk.bestHeight
<1> DEFINE b == thread["net"].block
<1>1. DiskOk(disk)
  BY Zenon DEF IInv, LockInv
<1>2. CASE n = 0
  <2>1. disk' = disk
    BY <1>2, Zenon DEF Crash
  <2> QED BY <1>1, <2>1 DEF DiskOk
<1>3. CASE n # 0
  <2>1. disk' = Written(disk, b, n)
    BY <1>3, Zenon DEF Crash
  <2>2. b \in Lockable /\ Height(b) > disk.bestHeight
    BY <1>3 DEF IInv, ThreadInv, HoldsCs, Crash
  <2> HIDE DEF b
  <2> QED BY <1>1, <2>1, <2>2, WrittenSound, Zenon
<1> QED BY <1>2, <1>3, Zenon

\* A crash and the start after it: the chain state goes back to the last flush,
\* the locks come from the database.
LEMMA CrashInv ==
  ASSUME IInv, NEW n \in 0 .. 3, Crash(n)
  PROVE  IInv'
<1>1. DiskOk(disk') /\ disk'.bestHeight >= disk.bestHeight
  BY CrashDisk, Zenon
<1>2. PICK b \in MostWork(flushed) : chain' = [flushed EXCEPT !.tip = b]
  BY Zenon DEF Crash
<1>3. flushed \in ChainState /\ IsChain(flushed) /\ flushed.stored \subseteq chain.stored
  BY Zenon DEF IInv, ChainInv
<1>4. chain' \in ChainState /\ IsChain(chain') /\ chain'.stored = flushed.stored
  BY <1>2, <1>3, NewTip, Zenon
<1>5. ChainInv'
  BY <1>3, <1>4, Zenon DEF ChainInv, Crash, IsChain
<1>6. LockMap(EmptyMap)
  BY Zenon DEF LockMap, EmptyMap
<1>7. LockInv'
  BY <1>1, <1>6, Zenon DEF LockInv, Crash
<1>8. ThreadInv'
  <2>1. thread' = [t \in Threads |-> Idle]
    BY Zenon DEF Crash
  <2> QED BY <2>1, Zenon DEF ThreadInv, Threads, Idle, Steps, HoldsCs, HoldsMain
<1>9. EarlyInv'
  <2>1. DiskOk(disk) /\ locks = Loaded(disk) /\ locks' = Loaded(disk')
    BY Zenon DEF IInv, LockInv, Crash
  <2>2. flushed.stored \subseteq Blocks
    BY <1>3, Zenon DEF ChainState
  <2>3. CASE locks'.best = locks.best
    <3>1. early' = early
      BY <2>3, Zenon DEF Crash
    <3>2. locks'.bestHeight = locks.bestHeight
      <4>1. /\ locks.bestHeight = disk.bestHeight /\ locks'.bestHeight = disk'.bestHeight
            /\ disk.bestHeight \in Nat /\ disk'.bestHeight \in Nat
        BY <1>1, <2>1, LoadedSound, Zenon DEF DiskOk
      <4>2. /\ disk.bestHeight > 0 => locks.best \in Lockable /\ Height(locks.best) = disk.bestHeight
            /\ disk.bestHeight = 0 => locks.best = None
        BY <2>1, LoadedSound, Zenon
      <4>3. /\ disk'.bestHeight > 0 => locks'.best \in Lockable /\ Height(locks'.best) = disk'.bestHeight
            /\ disk'.bestHeight = 0 => locks'.best = None
        BY <1>1, <2>1, LoadedSound, Zenon
      <4>4. None \notin Lockable
        BY LockConstants, Zenon
      <4> QED BY <2>3, <4>1, <4>2, <4>3, <4>4
    <3> QED BY <1>3, <1>4, <2>3, <3>1, <3>2, Zenon DEF IInv, EarlyInv
  <2>4. CASE locks'.best # locks.best
    <3>1. early' = OfHeight(flushed, locks'.best)
      BY <2>4, Zenon DEF Crash
    <3>2. \A x \in flushed.stored : Height(x) = locks'.bestHeight => x \in early'
      <4>1. locks'.bestHeight = disk'.bestHeight
        BY <1>1, <2>1, LoadedSound, Zenon
      <4>2. CASE disk'.bestHeight > 0
        <5>1. locks'.best \in Lockable /\ Height(locks'.best) = disk'.bestHeight
          BY <1>1, <2>1, <4>2, LoadedSound, Zenon
        <5> QED BY <3>1, <4>1, <5>1, LockConstants, Zenon DEF OfHeight
      <4>3. CASE disk'.bestHeight = 0
        BY <2>2, <4>1, <4>3, BlockHeight, Zenon
      <4> QED BY <1>1, <4>2, <4>3 DEF DiskOk
    <3>3. early' \subseteq Blocks
      BY <2>2, <3>1, Zenon DEF OfHeight
    <3> QED BY <1>4, <3>2, <3>3, Zenon DEF EarlyInv
  <2> QED BY <2>3, <2>4, Zenon
<1> QED BY <1>5, <1>7, <1>8, <1>9, Zenon DEF IInv

-----------------------------------------------------------------------------
(* The theorems *)

\* Every step of the node keeps the invariant.
LEMMA NextInv == IInv /\ [Next]_vars => IInv'
<1> SUFFICES ASSUME IInv, [Next]_vars PROVE IInv'
  BY Zenon
<1>1. CASE UNCHANGED vars
  BY <1>1, SameChainAndLocks, Zenon DEF vars, IInv, ThreadInv, HoldsCs, HoldsMain
<1>2. CASE Next
  BY <1>2, ProcessChainLockInv, VerifyChainLockInv, KeepPendingInv, StoreChainLockInv,
     ProcessNewBlockHeadersInv, ProcessNewBlockInv, ContextualCheckBlockInv,
     ActivateBestChainInv, FlushStateToDiskInv, CrashInv, Zenon DEF Next
<1> QED BY <1>1, <1>2, Zenon

\* The invariant holds in every state the node can reach.
THEOREM Invariance == Spec => []IInv
BY InitInv, NextInv, PTL DEF Spec

\* The types hold, and the block index is a tree whose active chain has its
\* data, for every block tree and whenever the node crashes.
THEOREM TypesAndTree == Spec => []TypeOK
BY Invariance, InvTypes, PTL

\* After every prefix of WriteChainLock's writes, the best height of the
\* manager has a lock and the best lock is that one.
THEOREM BestLockIsBacked == Spec => []BestBacked
BY Invariance, InvBestBacked, PTL

\* An active chain at the best lock's height goes through the locked block or
\* through one the node had before the lock.
THEOREM LockBindsActiveChain == Spec => []ActiveRespectsLock
BY Invariance, InvRespects, PTL

\* No step of the node, a crash and restart included, loses a lock or lowers
\* the best height.
LEMMA StepKeepsLocks ==
  ASSUME IInv, Next
  PROVE  /\ \A h \in DOMAIN locks.byHeight :
              h \in DOMAIN locks'.byHeight /\ locks'.byHeight[h] = locks.byHeight[h]
         /\ locks'.bestHeight >= locks.bestHeight
<1>1. DiskOk(disk) /\ locks = Loaded(disk) /\ DiskOk(disk') /\ locks' = Loaded(disk')
  BY NextInv, Zenon DEF IInv, LockInv
<1>2. /\ locks.byHeight = disk.byHeight /\ locks.bestHeight = disk.bestHeight
      /\ locks'.byHeight = disk'.byHeight /\ locks'.bestHeight = disk'.bestHeight
  BY <1>1, LoadedSound, Zenon
<1>3. disk.bestHeight \in Nat
  BY <1>1, Zenon DEF DiskOk
<1>4. CASE StoreChainLock
  <2>1. /\ disk' = Written(disk, thread["net"].block, 3)
        /\ thread["net"].block \in Lockable
        /\ Height(thread["net"].block) > disk.bestHeight
    BY <1>4, Zenon DEF StoreChainLock, IInv, ThreadInv, HoldsCs
  <2> QED BY <1>1, <1>2, <2>1, WrittenSound
<1>5. CASE \E n \in 0 .. 3 : Crash(n)
  BY <1>2, <1>5, CrashDisk, Zenon
<1>6. CASE disk' = disk
  BY <1>2, <1>3, <1>6
<1> QED BY <1>4, <1>5, <1>6, Zenon DEF Next, ProcessChainLock, VerifyChainLock, KeepPending,
           ProcessNewBlockHeaders, ProcessNewBlock, ContextualCheckBlock, ActivateBestChain,
           FlushStateToDisk

\* A lock the node holds is held for ever, and the best height never goes back.
THEOREM LocksAreKept == Spec => LocksSurvive
<1> DEFINE Kept == /\ \A h \in DOMAIN locks.byHeight :
                        h \in DOMAIN locks.byHeight' /\ locks.byHeight'[h] = locks.byHeight[h]
                   /\ locks.bestHeight' >= locks.bestHeight
<1>1. IInv /\ [Next]_vars => [Kept]_vars
  BY StepKeepsLocks, Zenon
<1> QED BY <1>1, Invariance, PTL DEF Spec, LocksSurvive

=============================================================================
