------------------------------- MODULE Assets -------------------------------
(***************************************************************************)
(* The metadata of assets through connected and disconnected blocks:       *)
(* CAssetsCache (src/src/assets/assets.cpp), its use by ConnectBlock,      *)
(* AddCoins and DisconnectBlock, the dump to the asset database, and the   *)
(* map of the reissues in the mempool, which blocks are checked against.   *)
(*                                                                         *)
(* There are four layers: the cache of the block at hand, the global       *)
(* passets with what is not dumped yet, the LRU cache passetsCache, and    *)
(* the database passetsdb.  A cache is not a map from names to data but    *)
(* sets of what was issued, reissued and undone, so that the layers must   *)
(* be read, merged and dumped in the right order.                          *)
(***************************************************************************)
EXTENDS BlockTree

CONSTANTS
  Ops,             \* the issues and reissues of a block, in order
  PoolTxs,         \* the reissues that reach the mempool
  MAX_MONEY,
  None

\* The metadata of an asset, and what a reissue changed of them.
Data  == [amount : Int, units : Int, ipfs : STRING, reissuable : BOOLEAN]
Undos == [fChangedIPFS : BOOLEAN, ipfs : STRING, fChangedUnits : BOOLEAN, units : Int]

\* Units -1 and ipfs "" in a reissue mean no change; id is its outpoint.
Issues   == [op : {"issue"}, name : STRING, data : Data]
Reissues == [op : {"reissue"}, id : STRING, name : STRING, amount : Int, units : Int,
             ipfs : STRING, reissuable : BOOLEAN]

OpsOf(b) == { Ops[b][i] : i \in 1 .. Len(Ops[b]) }
Names    == UNION { { op.name : op \in OpsOf(b) } : b \in Blocks }

ReissuesIn(b) == OpsOf(b) \cap Reissues

ASSUME AssetConstants ==
  /\ None \notin Data /\ None \notin Undos
  /\ Ops \in [Blocks -> Seq(Issues \cup Reissues)]
  /\ \A a, b \in Blocks : \A o \in ReissuesIn(a), p \in ReissuesIn(b) : o.id = p.id => o = p
  /\ PoolTxs \subseteq UNION { ReissuesIn(b) : b \in Blocks } /\ None \notin PoolTxs

VARIABLES
  passets,         \* what has changed since the last dump
  lru,             \* passetsCache
  db,              \* passetsdb, the metadata
  undo,            \* passetsdb, CBlockAssetUndo of blocks
  tip, saved,      \* the tip, and the one of the last full flush
  invalid,         \* blocks that were found to be invalid
  pool,            \* mapReissuedAssets: the reissue of an asset in the mempool
  savedPool        \* passetsdb, what WriteReissuedMempoolState wrote

vars == <<passets, lru, db, undo, tip, saved, invalid, pool, savedPool>>

-----------------------------------------------------------------------------
(* Maps from names, which have None where there is nothing *)

Nothing      == [n \in Names |-> None]
Single(m, x) == [n \in Names |-> IF n = m THEN x ELSE None]
Has(f)       == { n \in Names : f[n] # None }

\* f, and g where f has nothing.
Over(f, g) == [n \in Names |-> IF f[n] # None THEN f[n] ELSE g[n]]

Without(f, S) == [n \in Names |-> IF n \in S THEN None ELSE f[n]]

\* CAssets: setNewAssetsToAdd, setNewAssetsToRemove, setNewReissueToAdd,
\* setNewReissueToRemove and mapReissuedAssetData.  New assets compare by name,
\* reissues by outpoint.
CAssets(add, remove, reissue, undone, reissued) ==
  [add |-> add, remove |-> remove, reissue |-> reissue, undone |-> undone,
   reissued |-> reissued]

Empty == CAssets(Nothing, {}, {}, {}, Nothing)

Init ==
  /\ passets = Empty /\ lru = Nothing /\ db = Nothing
  /\ undo = [b \in Blocks |-> Nothing]
  /\ tip = Root /\ saved = Root /\ invalid = {}
  /\ pool = Nothing /\ savedPool = Nothing

-----------------------------------------------------------------------------
(* Lookups, through a cache and the layers below it *)

Gone(cache) == cache.remove \cup passets.remove

\* The assets that are found in a set of new ones, the LRU or the database.
Issued(cache) == Without(Over(cache.add, Over(passets.add, Over(lru, db))), Gone(cache))

CheckIfAssetExists(cache, name) == Issued(cache)[name] # None

\* Reissued data come first, those of the cache before those of passets.
GetAssetMetaDataIfExists(cache, name) ==
  Over(cache.reissued, Over(passets.reissued, Issued(cache)))[name]

\* A lookup that no other layer answers puts what is in the database into the
\* LRU.  One for metadata is answered by reissued data as well.
Load(cache, cached, name, answered) ==
  IF name \in Gone(cache) \cup Has(cache.add) \cup Has(passets.add) \cup answered
  THEN cached ELSE Over(cached, Single(name, db[name]))

Reissued(cache) == Has(cache.reissued) \cup Has(passets.reissued)

-----------------------------------------------------------------------------
(* The operations on the cache of a block *)

AddNewAsset(cache, op) ==
  CAssets(Over(cache.add, Single(op.name, op.data)), cache.remove \ {op.name},
          cache.reissue, cache.undone, cache.reissued)

RemoveNewAsset(cache, op) ==
  CAssets(Without(cache.add, {op.name}), cache.remove \cup {op.name},
          cache.reissue, cache.undone, cache.reissued)

AddReissueAsset(cache, op) ==
  LET old == GetAssetMetaDataIfExists(cache, op.name)
      new == [amount |-> old.amount + op.amount, reissuable |-> op.reissuable,
              units |-> IF op.units # -1 THEN op.units ELSE old.units,
              ipfs  |-> IF op.ipfs # "" THEN op.ipfs ELSE old.ipfs]
  IN  CAssets(cache.add, cache.remove, cache.reissue \cup {op}, cache.undone \ {op},
              Over(Single(op.name, new), cache.reissued))

\* What AddCoins puts into the undo data of the block.
AssetUndo(cache, op) ==
  LET old == GetAssetMetaDataIfExists(cache, op.name)
  IN  IF op.ipfs = "" /\ op.units = -1 THEN None
      ELSE [fChangedIPFS |-> op.ipfs # "", ipfs |-> old.ipfs,
            fChangedUnits |-> op.units # -1, units |-> old.units]

RemoveReissueAsset(cache, op, item) ==
  LET old   == GetAssetMetaDataIfExists(cache, op.name)
      data  == [amount |-> old.amount - op.amount, reissuable |-> TRUE,
                units |-> IF item # None /\ item.fChangedUnits THEN item.units ELSE old.units,
                ipfs  |-> IF item # None /\ item.fChangedIPFS THEN item.ipfs ELSE old.ipfs]
  IN  CAssets(cache.add, cache.remove, cache.reissue \ {op}, cache.undone \cup {op},
              Over(Single(op.name, data), cache.reissued))

\* Mutant of Flush: an asset that is issued again stays in the set of removed
\* ones.
Flush_KeepsRemoved(cache) ==
  passets' = CAssets(Without(Over(passets.add, cache.add), cache.remove),
                     passets.remove \cup cache.remove,
                     (passets.reissue \cup cache.reissue) \ cache.undone,
                     (passets.undone \ cache.reissue) \cup cache.undone,
                     Over(cache.reissued, passets.reissued))

\* Flush, into passets: an asset that is there already is not replaced.
Flush(cache) ==
  passets' = CAssets(Without(Over(passets.add, cache.add), cache.remove),
                     (passets.remove \ Has(cache.add)) \cup cache.remove,
                     (passets.reissue \cup cache.reissue) \ cache.undone,
                     (passets.undone \ cache.reissue) \cup cache.undone,
                     Over(cache.reissued, passets.reissued))

-----------------------------------------------------------------------------
(* Blocks *)

ContextualCheckNewAsset(cache, op) == ~CheckIfAssetExists(cache, op.name)

\* Mutant of ContextualCheckReissueAsset: whether the asset is still reissuable
\* is not asked.
ContextualCheckReissueAsset_EverOpen(cache, op) ==
  LET old == GetAssetMetaDataIfExists(cache, op.name)
  IN  /\ old # None
      /\ old.amount + op.amount <= MAX_MONEY
      /\ op.units = -1 \/ op.units >= old.units

\* Amounts are multiples of every unit.
ContextualCheckReissueAsset(cache, op) ==
  LET old == GetAssetMetaDataIfExists(cache, op.name)
  IN  /\ old # None
      /\ old.reissuable
      /\ old.amount + op.amount <= MAX_MONEY
      /\ op.units = -1 \/ op.units >= old.units

\* The map has another reissue of the asset; nothing was looked up yet.
Chained(op) == op.op = "reissue" /\ pool[op.name] \notin {None, op}

\* What is checked after that.
CheckTxAssets(cache, op) ==
  IF op.op = "issue" THEN ContextualCheckNewAsset(cache, op)
  ELSE ContextualCheckReissueAsset(cache, op)

\* A block at work: its cache, the LRU, the undo data, and whether it is valid.
Work(cache, cached, undoData, ok) ==
  [cache |-> cache, lru |-> cached, undo |-> undoData, ok |-> ok]

\* ConnectBlock and AddCoins, of one issue or reissue.  Of the undo data for an
\* asset the first will be used.
ConnectOp(v, op) ==
  LET cached == Load(v.cache, v.lru, op.name, IF op.op = "issue" THEN {} ELSE Reissued(v.cache))
  IN  IF ~v.ok THEN v
      ELSE IF Chained(op) THEN Work(v.cache, v.lru, v.undo, FALSE)
      ELSE IF ~CheckTxAssets(v.cache, op) THEN Work(v.cache, cached, v.undo, FALSE)
      ELSE IF op.op = "issue" THEN Work(AddNewAsset(v.cache, op), cached, v.undo, TRUE)
      ELSE Work(AddReissueAsset(v.cache, op), cached,
                Over(v.undo, Single(op.name, AssetUndo(v.cache, op))), TRUE)

ConnectBlock(b) ==
  LET v[i \in 0 .. Len(Ops[b])] ==
        IF i = 0 THEN Work(Empty, lru, Nothing, TRUE) ELSE ConnectOp(v[i - 1], Ops[b][i])
  IN  v[Len(Ops[b])]

\* DisconnectBlock, of one issue or reissue.
DisconnectOp(v, op) ==
  Work(IF ~CheckIfAssetExists(v.cache, op.name) THEN v.cache
       ELSE IF op.op = "issue" THEN RemoveNewAsset(v.cache, op)
       ELSE RemoveReissueAsset(v.cache, op, v.undo[op.name]),
       Load(v.cache, v.lru, op.name, {}), v.undo, v.ok)

\* From the last to the first.
DisconnectBlock(b) ==
  LET last == Len(Ops[b])
      v[i \in 0 .. last] ==
        IF i = 0 THEN Work(Empty, lru, undo[b], TRUE)
        ELSE DisconnectOp(v[i - 1], Ops[b][last + 1 - i])
  IN  v[last]

\* Mutant of Unchain: the entries stay.
Unchain_Keeps(b) == pool

\* The map after the block's transactions were taken out of it.
Unchain(b) == Without(pool, { op.name : op \in { o \in OpsOf(b) : pool[o.name] = o } })

ConnectTip(b) ==
  /\ Prev[b] = tip /\ b \notin invalid
  /\ LET v == ConnectBlock(b)
     IN  /\ lru' = v.lru
         /\ IF v.ok
            THEN /\ Flush(v.cache)
                 /\ undo' = IF v.undo = Nothing THEN undo ELSE [undo EXCEPT ![b] = v.undo]
                 /\ tip' = b
                 /\ pool' = Unchain(b)
                 /\ UNCHANGED invalid
            ELSE /\ invalid' = invalid \cup {b}
                 /\ UNCHANGED <<passets, undo, tip, pool>>
  /\ UNCHANGED <<db, saved, savedPool>>

DisconnectTip ==
  /\ tip # Root
  /\ LET v == DisconnectBlock(tip)
     IN  lru' = v.lru /\ Flush(v.cache)
  /\ tip' = Prev[tip]
  /\ UNCHANGED <<db, undo, saved, invalid, pool, savedPool>>

-----------------------------------------------------------------------------
(* The mempool *)

\* The issues and reissues of an asset on b's chain.  The last of them has the
\* owner's token, which the next reissue spends.
OpsOn ==
  [b \in Blocks \cup {Root}, name \in Names |->
     { op \in UNION { OpsOf(a) : a \in Ancestors(b) } : op.name = name }]

\* Mutant of TokenUnspent: a transaction that is on the chain is not refused.
TokenUnspent_Ever(op) == TRUE

\* The token op spends is there and unspent.
TokenUnspent(op) ==
  \E b \in Blocks : op \in OpsOf(b) /\ OpsOn[Prev[b], op.name] = OpsOn[tip, op.name]

\* A reissue is accepted, and kept in the map.
AcceptToMemoryPool(op) ==
  /\ TokenUnspent(op) /\ ~Chained(op) /\ CheckTxAssets(Empty, op)
  /\ lru' = Load(Empty, lru, op.name, Reissued(Empty))
  /\ pool' = Over(pool, Single(op.name, op))
  /\ UNCHANGED <<passets, db, undo, tip, saved, invalid, savedPool>>

\* A transaction leaves the mempool other than with a block that has it: it is
\* too old, there is no room, or a reorganisation took its inputs.
RemoveUnchecked(op) ==
  /\ pool[op.name] = op
  /\ pool' = Without(pool, {op.name})
  /\ UNCHANGED <<passets, lru, db, undo, tip, saved, invalid, savedPool>>

-----------------------------------------------------------------------------
(* The database *)

NamesOf(S) == { op.name : op \in S }

\* Mutant of Rewritten: an asset whose issue is removed too is not left out.
Rewritten_All == (NamesOf(passets.reissue) \cup NamesOf(passets.undone)) \cap Has(passets.reissued)

\* The names whose reissued data are written: those of reissues, and those of
\* undone reissues unless the issue is removed as well.
Rewritten ==
  (NamesOf(passets.reissue) \cup (NamesOf(passets.undone) \ passets.remove))
  \cap Has(passets.reissued)

\* Mutant of Refreshed: reissued data do not replace those in the LRU.
Refreshed_KeepsReissued == Over(passets.add, Without(lru, passets.remove))

\* The LRU after a dump.
Refreshed == Without(Over(passets.add, Without(lru, passets.remove)), Rewritten)

\* DumpCacheToDatabase and WriteReissuedMempoolState, after the coins were
\* flushed in FlushStateToDisk.
DumpCacheToDatabase ==
  /\ db' = [n \in Names |-> IF n \in Rewritten THEN passets.reissued[n]
                            ELSE Over(passets.add, Without(db, passets.remove))[n]]
  /\ lru' = Refreshed
  /\ passets' = Empty
  /\ saved' = tip /\ savedPool' = pool
  /\ UNCHANGED <<undo, tip, invalid, pool>>

\* A lookup by an RPC or for the mempool.
Lookup(name) ==
  /\ lru' = Load(Empty, lru, name, {})
  /\ UNCHANGED <<passets, db, undo, tip, saved, invalid, pool, savedPool>>

\* The LRU makes room.
Evict(name) ==
  /\ lru[name] # None
  /\ lru' = Without(lru, {name})
  /\ UNCHANGED <<passets, db, undo, tip, saved, invalid, pool, savedPool>>

\* The process ends other than in a flush, and starts again.  That a block is
\* invalid is remembered, although a mark since the last flush would be lost:
\* the block would be checked once more.
Restart ==
  /\ passets' = Empty /\ lru' = Nothing
  /\ tip' = saved /\ pool' = savedPool
  /\ UNCHANGED <<db, undo, saved, invalid, savedPool>>

Next ==
  \/ \E b \in Blocks : ConnectTip(b)
  \/ DisconnectTip
  \/ \E op \in PoolTxs : AcceptToMemoryPool(op) \/ RemoveUnchecked(op)
  \/ DumpCacheToDatabase
  \/ \E name \in Names : Lookup(name) \/ Evict(name)
  \/ Restart

Spec == Init /\ [][Next]_vars

-----------------------------------------------------------------------------
(* What a chain says *)

\* Whether an issue or reissue is allowed.
Allowed(assets, op) ==
  IF op.op = "issue" THEN assets[op.name] = None
  ELSE /\ assets[op.name] # None
       /\ assets[op.name].reissuable
       /\ assets[op.name].amount + op.amount <= MAX_MONEY
       /\ op.units = -1 \/ op.units >= assets[op.name].units

\* The metadata that a reissue leaves.
After(old, op) ==
  [amount |-> old.amount + op.amount, reissuable |-> op.reissuable,
   units |-> IF op.units # -1 THEN op.units ELSE old.units,
   ipfs |-> IF op.ipfs # "" THEN op.ipfs ELSE old.ipfs]

\* The assets after one that is allowed.
Apply(assets, op) ==
  [n \in Names |-> IF n # op.name THEN assets[n]
                   ELSE IF op.op = "issue" THEN op.data
                   ELSE IF assets[n] = None THEN None ELSE After(assets[n], op)]

\* The assets after the first n issues and reissues of b.
ApplyFirst(assets, b, n) ==
  LET w[i \in 0 .. Len(Ops[b])] == IF i = 0 THEN assets ELSE Apply(w[i - 1], Ops[b][i])
  IN  w[n]

\* The assets of a block's chain.
AssetsAt[b \in Blocks \cup {Root}] ==
  IF b = Root THEN Nothing ELSE ApplyFirst(AssetsAt[Prev[b]], b, Len(Ops[b]))

\* Everything in the blocks up to b is allowed.
Valid(b) ==
  \A a \in Ancestors(b) : \A i \in 1 .. Len(Ops[a]) :
    Allowed(ApplyFirst(AssetsAt[Prev[a]], a, i - 1), Ops[a][i])

ValidBlocks == { b \in Blocks \cup {Root} : Valid(b) }

\* What properties below depend on.  Blocks that may be connected issue an
\* asset alike; a block has one issue or reissue of an asset at most; and a
\* reissue, which spends the owner's token, is only in a block on a chain that
\* has issued the asset.  Without the first two the code does differ.
RegularOps ==
  /\ \A a, b \in Blocks : Valid(a) /\ Valid(b) =>
       \A o \in OpsOf(a) \cap Issues, p \in OpsOf(b) \cap Issues :
         o.name = p.name => o.data = p.data
  /\ \A b \in Blocks : \A i, j \in 1 .. Len(Ops[b]) :
       Ops[b][i].name = Ops[b][j].name => i = j
  /\ \A b \in Blocks : \A o \in ReissuesIn(b) :
       Valid(Prev[b]) => AssetsAt[Prev[b]][o.name] # None

-----------------------------------------------------------------------------
(* Properties *)

Maps   == [Names -> Data \cup {None}]
Caches == [add : Maps, remove : SUBSET Names, reissue : SUBSET Reissues,
           undone : SUBSET Reissues, reissued : Maps]

\* The types of the state; nothing in passets is both to add and to remove, and
\* no reissue is both done and undone.
TypeOK ==
  /\ passets \in Caches
  /\ passets.remove \cap Has(passets.add) = {}
  /\ passets.reissue \cap passets.undone = {}
  /\ lru \in Maps /\ db \in Maps
  /\ undo \in [Blocks -> [Names -> Undos \cup {None}]]
  /\ invalid \subseteq Blocks
  /\ {pool, savedPool} \subseteq [Names -> PoolTxs \cup {None}]
  /\ {tip, saved} \subseteq Blocks \cup {Root}

\* Whatever was connected, disconnected, dumped and cached before, a block is
\* accepted only if its issues and reissues are allowed on its chain, and
\* refused only if they are not or the mempool has another reissue of an asset
\* it reissues.  The condition is RegularOps.
VerdictsExact ==
  [][RegularOps =>
       /\ tip' \in ValidBlocks
       /\ \A b \in invalid' \ invalid :
            b \notin ValidBlocks \/ \E op \in OpsOf(b) : Chained(op)]_vars

\* A reissue that the active chain has confirmed is not in mapReissuedAssets,
\* where it would have every later reissue of the asset refused; nor in what is
\* saved of the map.
ConfirmedNotPending ==
  \A name \in Names :
    pool[name] \notin OpsOn[tip, name] /\ savedPool[name] \notin OpsOn[saved, name]

\* The assets that are found are those of the tip's chain, and the metadata
\* that are found for them are those of that chain, whichever layer answers.
\* The condition is RegularOps.
LookupsExact == RegularOps =>
  \A name \in Names :
    IF AssetsAt[tip][name] # None
    THEN /\ CheckIfAssetExists(Empty, name)
         /\ GetAssetMetaDataIfExists(Empty, name) = AssetsAt[tip][name]
    ELSE ~CheckIfAssetExists(Empty, name)

\* A dump leaves the database with the assets of the tip's chain and nothing
\* else, so that a restart finds them again.  It is so under RegularOps; where
\* rival branches issue an asset differently it is not.
DatabaseExact == db = AssetsAt[saved]

=============================================================================
