------------------------------ MODULE MNManager -----------------------------
(***************************************************************************)
(* CDeterministicMNManager (src/src/evo/deterministicmns.cpp) as the keeper *)
(* of one masternode list per block: the cache, the snapshots in the       *)
(* evolution database, the list of the tip, and GetListForBlock, which     *)
(* rebuilds a missing list by replaying blocks.  Around it the block tree: *)
(* blocks arrive in any order, are connected and disconnected, and the     *)
(* node crashes or is upgraded.                                            *)
(*                                                                         *)
(* What a block does to a list is in MNBlock; here a list is where it came *)
(* from: the block it is for and the blocks that were applied to get it.   *)
(* Two lists of the same origin need not be equal: ProcessBlock, also when *)
(* it replays an old block, looks up collaterals in the coins of the       *)
(* current tip and takes over the penalties the node has at that time.     *)
(* Every block of the tree is valid, so ProcessBlock succeeds, and each    *)
(* pays the masternode that the list of its parent says.                   *)
(***************************************************************************)
EXTENDS FiniteSets, FiniteSetsExt, BlockTree

CONSTANTS
  MAX_CACHE_SIZE,
  MaxReorgs,       \* bound: disconnected blocks
  MaxRestarts,     \* bound: crashes and upgrades
  MaxFailures      \* bound: blocks whose connection fails late

ASSUME ManagerConstants ==
  /\ MAX_CACHE_SIZE \in Nat \ {0}
  /\ {MaxReorgs, MaxRestarts, MaxFailures} \subseteq Nat

VARIABLES
  mgr,             \* [cache, db, tipList]: the manager and its database
  stored,          \* the blocks whose data is on disk
  failed,          \* the blocks marked invalid when they were connected
  rejected,        \* those marked invalid by the payee check on arrival
  tip,             \* the active chain's tip
  flushed,         \* the tip the chain state on disk has
  pending,         \* UpdatedBlockTip calls still to be made
  oldVersion,      \* the database is of an older version
  used,            \* how much of each bound is used
  adrift           \* history: the blocks connected onto a list that was not
                   \* their parent's

vars == <<mgr, stored, failed, rejected, tip, flushed, pending, oldVersion,
          used, adrift>>

-----------------------------------------------------------------------------
(* Lists: Blocks are those at and above the activation height, and Root is *)
(* the block below them, whose list is empty.                              *)

List(b, path) == [block |-> b, path |-> path]
RightList(b)  == List(b, Path[b])
EmptyList     == List(Root, <<>>)

Manager(cache, db, tipList) == [cache |-> cache, db |-> db, tipList |-> tipList]

EmptyMap == [x \in {} |-> x]
Put(m, k, v) == [x \in (DOMAIN m) \cup {k} |-> IF x = k THEN v ELSE m[x]]
Erase(m, k)  == [x \in (DOMAIN m) \ {k} |-> m[x]]

Spend(what, bound) == used[what] < bound /\ used' = [used EXCEPT ![what] = @ + 1]

-----------------------------------------------------------------------------
(* The manager's operations, on a manager state s *)

\* Mutant of CleanupCache: the lists of the greatest heights go.
CleanupCache_Highest(cache) ==
  IF Cardinality(DOMAIN cache) <= MAX_CACHE_SIZE THEN cache
  ELSE LET keep == CHOOSE K \in kSubset(MAX_CACHE_SIZE, DOMAIN cache) :
                     \A x \in K, y \in (DOMAIN cache) \ K : Height(x) <= Height(y)
       IN  [b \in keep |-> cache[b]]

\* CleanupCache: the lists of the lowest heights go.  Among equal heights the
\* order of the hashes decides, which is arbitrary but fixed.
CleanupCache(cache) ==
  IF Cardinality(DOMAIN cache) <= MAX_CACHE_SIZE THEN cache
  ELSE LET keep == CHOOSE K \in kSubset(MAX_CACHE_SIZE, DOMAIN cache) :
                     \A x \in K, y \in (DOMAIN cache) \ K : Height(x) >= Height(y)
       IN  [b \in keep |-> cache[b]]

\* Mutant of Has: only the cache is searched.
Has_CacheOnly(s, b) == b = Root \/ b \in DOMAIN s.cache

\* A list is in the cache or in the database, or b is below the activation.
Has(s, b) == b = Root \/ b \in DOMAIN s.cache \/ b \in DOMAIN s.db

\* The list of a block that has one; a list loaded from the database goes
\* into the cache, which is not cleaned up then.
Get(s, b) == IF b = Root THEN EmptyList
             ELSE IF b \in DOMAIN s.cache THEN s.cache[b] ELSE s.db[b]
Load(s, b) == IF b = Root \/ b \in DOMAIN s.cache THEN s
              ELSE Manager(Put(s.cache, b, s.db[b]), s.db, s.tipList)

\* Mutant of ProcessBlock: the block is applied to the list of the tip.
ProcessBlock_OnTip(s, prevList, b) ==
  LET newList == List(b, Append(s.tipList.path, b))
  IN  Manager(CleanupCache(Put(s.cache, b, newList)), Put(s.db, b, newList), newList)

\* ProcessBlock for b, once GetListForBlock gave prevList: the new list is
\* saved, cached and made the tip's.
ProcessBlock(s, prevList, b) ==
  LET newList == List(b, Append(prevList.path, b))
  IN  Manager(CleanupCache(Put(s.cache, b, newList)), Put(s.db, b, newList), newList)

\* One block of the replay: r is [s, base], the manager and the base list.
\* The parent's list was just loaded or just saved.
Replay(r, b) ==
  LET s == ProcessBlock(Load(r.s, Prev[b]), Get(r.s, Prev[b]), b)
  IN  [s |-> s, base |-> IF b \in DOMAIN s.cache THEN s.cache[b] ELSE r.base]

\* The height of the nearest list below b.
Nearest(s, b) == Max({ h \in 0 .. Height(b) : Has(s, BlockAt(b, h)) })

\* Mutant of Readable: blocks that could not be read are replayed all the same.
Readable_Unread(b, low) == Height(b)

\* The blocks of the path to b above the height low can be read up to here.
Readable(b, low) ==
  Max({ h \in low .. Height(b) : \A j \in low + 1 .. h : BlockAt(b, j) \in stored })

\* The replay for b from the list at height low, when height h is done.
Replayed(s, b, low, high) ==
  LET r[h \in low .. high] ==
        IF h = low THEN [s |-> Load(s, BlockAt(b, low)), base |-> Get(s, BlockAt(b, low))]
        ELSE Replay(r[h - 1], BlockAt(b, h))
  IN  r[high]

\* GetListForBlock: [s, list], the manager afterwards and the list returned.
GetListForBlock(s, b) ==
  IF Has(s, b) THEN [s |-> Load(s, b), list |-> Get(s, b)]
  ELSE LET low == Nearest(s, b)
           r == Replayed(s, b, low, Readable(b, low))
       IN  [s |-> r.s, list |-> IF b \in DOMAIN r.s.cache THEN r.s.cache[b] ELSE r.base]

\* Mutant of UndoBlock: the snapshot is deleted, the cache kept.
UndoBlock_KeepsCache(s, b) ==
  LET g == GetListForBlock(Manager(s.cache, Erase(s.db, b), s.tipList), Prev[b])
  IN  Manager(g.s.cache, g.s.db, g.list)

UndoBlock(s, b) ==
  LET g == GetListForBlock(Manager(Erase(s.cache, b), Erase(s.db, b), s.tipList), Prev[b])
  IN  Manager(g.s.cache, g.s.db, g.list)

-----------------------------------------------------------------------------
Init ==
  /\ mgr = Manager(EmptyMap, EmptyMap, EmptyList)
  /\ stored = {} /\ failed = {} /\ rejected = {} /\ pending = {}
  /\ tip = Root /\ flushed = Root
  /\ oldVersion = TRUE
  /\ used = [w \in {"reorg", "restart", "failure"} |-> 0]
  /\ adrift = {}

\* AcceptBlock: the headers are known, the data comes in any order.  The
\* payee is checked against the list of the parent; with another list the
\* expected payee may or may not be the one the block pays.
AcceptBlock(b) ==
  /\ b \notin stored \cup failed \cup rejected
  /\ Ancestors(b) \cap (failed \cup rejected) = {}
  /\ LET g == GetListForBlock(mgr, Prev[b])
     IN  /\ mgr' = g.s
         /\ \/ stored' = stored \cup {b} /\ UNCHANGED rejected
            \/ g.list # RightList(Prev[b]) /\ rejected' = rejected \cup {b} /\ UNCHANGED stored
  /\ UNCHANGED <<failed, tip, flushed, pending, oldVersion, used, adrift>>

\* ProcessSpecialTxsInBlock for a child of the tip.  If the list found for the
\* tip is another block's, the assertion in ProcessBlock ends the process (see
\* Crash), but it is made only when that list has a valid masternode: if not,
\* the block goes onto the wrong list.  Which of the two is left open.
ProcessChild(b) ==
  LET g == GetListForBlock(mgr, tip)
  IN  /\ mgr' = ProcessBlock(g.s, g.list, b)
      /\ adrift' = IF g.list.block = tip THEN adrift ELSE adrift \cup {b}

\* ConnectTip: the child becomes the tip, and UpdatedBlockTip is due.
ConnectTip(b) ==
  /\ Prev[b] = tip
  /\ b \in stored \ failed
  /\ ProcessChild(b)
  /\ tip' = b
  /\ pending' = pending \cup {b}
  /\ UNCHANGED <<stored, failed, rejected, flushed, oldVersion, used>>

\* ConnectBlock fails after ProcessSpecialTxsInBlock; the block is marked.
ConnectFails(b) ==
  /\ Prev[b] = tip
  /\ b \in stored \ failed
  /\ Spend("failure", MaxFailures)
  /\ ProcessChild(b)
  /\ failed' = failed \cup {b}
  /\ UNCHANGED <<stored, rejected, tip, flushed, pending, oldVersion>>

DisconnectTip ==
  /\ tip # Root
  /\ Spend("reorg", MaxReorgs)
  /\ mgr' = UndoBlock(mgr, tip)
  /\ tip' = Prev[tip]
  /\ UNCHANGED <<stored, failed, rejected, flushed, pending, oldVersion, adrift>>

\* The callback runs after cs_main is released, so calls of two threads may
\* come in either order, and after further blocks.
UpdatedBlockTip(b) ==
  /\ b \in pending
  /\ pending' = pending \ {b}
  /\ LET g == GetListForBlock(mgr, b)
     IN  mgr' = Manager(g.s.cache, g.s.db, g.list)
  /\ UNCHANGED <<stored, failed, rejected, tip, flushed, oldVersion, used, adrift>>

\* An RPC call, or the quorum code, asks for a list of the active chain.
Ask(b) ==
  /\ b \in Ancestors(tip)
  /\ mgr' = GetListForBlock(mgr, b).s
  /\ mgr' # mgr
  /\ UNCHANGED <<stored, failed, rejected, tip, flushed, pending, oldVersion, used, adrift>>

FlushStateToDisk ==
  /\ flushed # tip
  /\ used["restart"] < MaxRestarts
  /\ flushed' = tip
  /\ UNCHANGED <<mgr, stored, failed, rejected, tip, pending, oldVersion, used, adrift>>

\* Init of the manager; what it finds in the database is db.
Restart(db) ==
  /\ Spend("restart", MaxRestarts)
  /\ mgr' = Manager(EmptyMap, db, EmptyList)
  /\ tip' = flushed
  /\ pending' = {}
  /\ UNCHANGED <<stored, failed, rejected, flushed, adrift>>

Crash == Restart(mgr.db) /\ UNCHANGED oldVersion

\* The first start of a version with another CURRENT_DB_VERSION erases the
\* snapshots.
Upgrade == oldVersion /\ Restart(EmptyMap) /\ oldVersion' = FALSE

Next ==
  \/ \E b \in Blocks : AcceptBlock(b)
  \/ \E b \in Blocks : ConnectTip(b)
  \/ \E b \in Blocks : ConnectFails(b)
  \/ DisconnectTip
  \/ \E b \in Blocks : UpdatedBlockTip(b)
  \/ \E b \in Blocks : Ask(b)
  \/ FlushStateToDisk
  \/ Crash
  \/ Upgrade

Spec == Init /\ [][Next]_vars

-----------------------------------------------------------------------------
(* Properties *)

IsList(l) == l.block \in Blocks \cup {Root} /\ l.path \in Seq(Blocks)

\* The types of the state; only blocks whose data was there have a list.
TypeOK ==
  /\ DOMAIN mgr.cache \subseteq stored /\ DOMAIN mgr.db \subseteq stored
  /\ \A b \in DOMAIN mgr.cache : IsList(mgr.cache[b])
  /\ \A b \in DOMAIN mgr.db : IsList(mgr.db[b])
  /\ IsList(mgr.tipList)
  /\ stored \subseteq Blocks /\ failed \subseteq stored /\ rejected \subseteq Blocks \ stored
  /\ Ancestors(tip) \subseteq stored /\ Ancestors(flushed) \subseteq stored
  /\ pending \subseteq stored
  /\ oldVersion \in BOOLEAN
  /\ adrift \subseteq stored

\* No block of b's chain was ever connected onto a list not its parent's.
Clean(b) == Ancestors(b) \cap adrift = {}

\* Every list, cached or saved, was computed from the blocks of its own chain,
\* each once and in order, whichever of GetListForBlock's replays, failed
\* connections, reorganisations and restarts came before it, unless a block of
\* that chain was connected while the list of its parent could not be found.
ListsGenuine ==
  /\ \A b \in DOMAIN mgr.cache : Clean(b) => mgr.cache[b] = RightList(b)
  /\ \A b \in DOMAIN mgr.db : Clean(b) => mgr.db[b] = RightList(b)

\* What is cached is saved: UndoBlock removes both copies, and a restart
\* loses no list the node was using.
CacheBacked == DOMAIN mgr.cache \subseteq DOMAIN mgr.db

\* The cache has room for the list of b: fewer than MAX_CACHE_SIZE of its lists
\* are as high.
Roomy(b) ==
  Cardinality({ x \in DOMAIN mgr.cache : Height(x) >= Height(b) }) < MAX_CACHE_SIZE

\* GetListForBlock answers with the list of the block it was asked for,
\* unless data of an ancestor is missing or the cache is full of higher
\* lists, so that CleanupCache drops the rebuilt one at once, or a block of the
\* chain was connected onto such a wrong answer.
ExactUnlessCrowded ==
  \A b \in Blocks :
    Ancestors(b) \subseteq stored /\ Clean(b) /\ Roomy(b) =>
      GetListForBlock(mgr, b).list = RightList(b)

\* Until the node restarts, what GetListForBlock answers for a block of the
\* active chain is exactly its own list, whatever was evicted, replayed for
\* other branches, undone or not connected, and however crowded the cache is.
ActiveListsExact == used["restart"] = 0 =>
  \A b \in Ancestors(tip) : GetListForBlock(mgr, b).list = RightList(b)

=============================================================================
