----------------------------- MODULE ChainState -----------------------------
(***************************************************************************)
(* The set of unspent coins through connected and disconnected blocks,     *)
(* flushes, crashes and restarts: ConnectTip, DisconnectTip,               *)
(* FlushStateToDisk and ReplayBlocks (src/src/validation.cpp) over         *)
(* pcoinsTip, a CCoinsViewCache, over CCoinsViewDB (src/src/txdb.cpp).     *)
(*                                                                         *)
(* All of it happens under cs_main.  A block is applied to a view of its   *)
(* own, so that only a crash can come in between, and one that does leaves *)
(* no trace.  A flush writes several batches, and a crash may fall between *)
(* any two of them.                                                        *)
(***************************************************************************)
EXTENDS BlockTree, CoinsView

CONSTANTS
  Unspent,         \* the outpoints with a coin at Root
  Txs,             \* the transactions of a block
  None

VARIABLES
  db,              \* the coin database: [coins, best, heads]
  cache, best,     \* pcoinsTip: cacheCoins and hashBlock
  undo,            \* the undo data of blocks: the coins a block has spent
  stored,          \* the blocks that are on disk, with index and undo data
  mode,            \* what holds cs_main, or how the node ended
  fault            \* an assertion, exception or error that was met: the node ends

vars == <<db, cache, best, undo, stored, mode, fault>>

Running == mode \in {"idle", "flush", "closing", "closed"}

\* The outpoints that a transaction spends and creates.
Transactions == [coinbase : BOOLEAN, vin : SUBSET Outpoints, vout : SUBSET Outpoints]

\* The coins after a transaction: the height of the block that created each,
\* -1 if there is none.
Apply(u, tx, height) ==
  [o \in Outpoints |-> IF o \in tx.vout THEN height
                       ELSE IF o \in tx.vin THEN Spent ELSE u[o]]

\* The coins after the first n transactions of b, which found the coins u.
ApplyFirst(u, b, n) ==
  LET w[i \in 0 .. Len(Txs[b])] ==
        IF i = 0 THEN u ELSE Apply(w[i - 1], Txs[b][i], Height(b))
  IN  w[n]

\* The coins that the blocks up to b leave unspent.
UTXO[b \in Blocks \cup {Root}] ==
  IF b = Root THEN [o \in Outpoints |-> IF o \in Unspent THEN 0 ELSE Spent]
  ELSE ApplyFirst(UTXO[Prev[b]], b, Len(Txs[b]))

\* What the chain state promises.
U == INSTANCE UTXOSet WITH
  tip   <- IF Running THEN best ELSE None,
  coins <- IF Running THEN Seen(cache, db.coins) ELSE None,
  saved <- IF db.heads # <<>> THEN db.heads[1] ELSE db.best

\* The blocks are valid: inputs are unspent, and outputs are new, that of a
\* coinbase as well, which has the height of its block in it (BIP34).
ASSUME ChainConstants ==
  /\ None \notin Blocks \cup {Root}
  /\ Unspent \subseteq Outpoints
  /\ Txs \in [Blocks -> Seq(Transactions)]
  /\ \A b \in Blocks : \A i \in 1 .. Len(Txs[b]) :
       LET tx == Txs[b][i]
           u  == ApplyFirst(UTXO[Prev[b]], b, i - 1)
       IN  /\ tx.coinbase <=> i = 1
           /\ tx.coinbase => tx.vin = {}
           /\ \A o \in tx.vin : u[o] # Spent
           /\ \A o \in tx.vout : u[o] = Spent

Init ==
  /\ db = [coins |-> UTXO[Root], best |-> Root, heads |-> <<>>]
  /\ cache = <<>> /\ best = Root
  /\ undo = <<>> /\ stored = {Root}
  /\ mode = "idle" /\ fault = "none"

-----------------------------------------------------------------------------
(* A view on top of a cache on top of the database *)

Layers(own, base, spent, clean, failure) ==
  [own |-> own, base |-> base, undo |-> spent, clean |-> clean, fault |-> failure]

View(base) == Layers(<<>>, base, <<>>, TRUE, "none")

FirstFault(failure, bad, name) == IF bad /\ failure = "none" THEN name ELSE failure

\* Nothing more is done after an exception or an error.
OrFailed(v, next) == IF v.fault # "none" THEN v ELSE next

\* Coins that are missed are fetched at both levels.
Fetch(v, S) ==
  LET missed == S \ DOMAIN v.own
      b      == FetchCoin(v.base, db.coins, missed)
  IN  Layers(FetchCoin(v.own, Seen(b, db.coins), missed), b, v.undo, v.clean, v.fault)

\* Those of the outpoints S that have a coin.
HaveCoin(v, S) == LET c == Fetch(v, S).own IN { o \in S \cap DOMAIN c : c[o].coin # Spent }

Spend(v, S) ==
  LET w == Fetch(v, S)
  IN  Layers(SpendCoin(w.own, S), w.base, w.undo, w.clean, w.fault)

Add(v, coins, possible_overwrite) ==
  Layers(AddCoin(v.own, coins, possible_overwrite), v.base, v.undo, v.clean,
         FirstFault(v.fault, AddThrows(v.own, coins, possible_overwrite),
                    "replaces non-pruned entry"))

\* UpdateCoins, the inputs: CheckTxInputs has required them to be unspent.
SpendInputs(v, S) ==
  LET w    == Spend(v, S)
      seen == Seen(v.own, Seen(v.base, db.coins))
  IN  Layers(w.own, w.base, Append(w.undo, [o \in S |-> seen[o]]), w.clean,
             FirstFault(w.fault, HaveCoin(v, S) # S, "inputs missing"))

\* UpdateCoins, AddCoins.  A coinbase has nothing to spend.
UpdateCoins(v, tx, height) ==
  OrFailed(v, Add(SpendInputs(v, tx.vin), [o \in tx.vout |-> height],
                  IF tx.coinbase THEN tx.vout ELSE {}))

ConnectBlock(b) ==
  LET v[i \in 0 .. Len(Txs[b])] ==
        IF i = 0 THEN View(cache) ELSE UpdateCoins(v[i - 1], Txs[b][i], Height(b))
  IN  v[Len(Txs[b])]

\* An output that is not there, or is not that of the block, is not clean.
RemoveOutputs(v, S, height) ==
  LET w == Spend(v, S)
      c == Fetch(v, S).own
  IN  Layers(w.own, w.base, w.undo,
             w.clean /\ \A o \in S : o \in DOMAIN c /\ c[o].coin = height, w.fault)

\* Mutant of ApplyTxInUndo: the coins are not looked up first.
ApplyTxInUndo_Blind(v, coins) == Add(v, coins, {})

\* The undo data have the height: there is no coin of height 0 but at Root.
ApplyTxInUndo(v, coins) ==
  LET have == HaveCoin(v, DOMAIN coins)
      w    == Add(Fetch(v, DOMAIN coins), coins, have)
  IN  Layers(w.own, w.base, w.undo, w.clean /\ have = {}, w.fault)

\* DisconnectBlock, transaction i.
UndoTx(v, b, i) ==
  OrFailed(v, ApplyTxInUndo(RemoveOutputs(v, Txs[b][i].vout, Height(b)), undo[b][i]))

\* The last transaction is undone first.
DisconnectBlock(v, b) ==
  LET n == Len(Txs[b])
      w[k \in 0 .. n] == IF k = 0 THEN v ELSE UndoTx(w[k - 1], b, n - k + 1)
  IN  IF b \in DOMAIN undo THEN w[n]
      ELSE Layers(v.own, v.base, v.undo, v.clean, FirstFault(v.fault, TRUE, "no undo data"))

\* Mutant of RollforwardTx: outputs are taken to be new.
RollforwardTx_Unchecked(v, tx, height) ==
  OrFailed(v, Add(Spend(v, tx.vin), [o \in tx.vout |-> height],
                  IF tx.coinbase THEN tx.vout ELSE {}))

\* The transaction may have been applied, so that an output may be there.
RollforwardTx(v, tx, height) ==
  LET w == Spend(v, tx.vin)
  IN  OrFailed(v, Add(Fetch(w, tx.vout), [o \in tx.vout |-> height], HaveCoin(w, tx.vout)))

RollforwardBlock(v, b) ==
  LET w[i \in 0 .. Len(Txs[b])] ==
        IF i = 0 THEN v ELSE RollforwardTx(w[i - 1], Txs[b][i], Height(b))
  IN  w[Len(Txs[b])]

-----------------------------------------------------------------------------
(* The handlers *)

\* Mutant of WriteIndex: the undo data stay in memory.
WriteIndex_Never == UNCHANGED stored

\* FlushBlockFile and WriteBatchSync, before anything else of a flush.
WriteIndex == stored' = stored \cup DOMAIN undo'

\* FlushStateToDisk, at the end of a handler: flush, write the index, or not.
FlushStateToDisk ==
  \/ mode' = "flush" /\ WriteIndex
  \/ mode' = "idle" /\ WriteIndex
  \/ mode' = "idle" /\ UNCHANGED stored

\* view.Flush(), for the view that was made for a block.
FlushView(v, failure) ==
  /\ cache' = BatchWrite(v.base, v.own)
  /\ fault' = FirstFault(failure, BatchThrows(v.base, v.own), "FRESH flag misapplied")

\* Undo data that a block already has are kept.
ConnectTip(b) ==
  /\ mode = "idle" /\ Prev[b] = best
  /\ LET v == ConnectBlock(b)
     IN  /\ FlushView(v, v.fault)
         /\ undo' = [x \in DOMAIN undo \cup {b} |-> IF x \in DOMAIN undo THEN undo[x] ELSE v.undo]
  /\ best' = b
  /\ FlushStateToDisk
  /\ UNCHANGED db

DisconnectTip ==
  /\ mode = "idle" /\ best \in Blocks
  /\ LET v == DisconnectBlock(View(cache), best)
     IN  FlushView(v, FirstFault(v.fault, ~v.clean, "unclean"))
  /\ best' = Prev[best]
  /\ UNCHANGED undo
  /\ FlushStateToDisk
  /\ UNCHANGED db

\* AcceptToMemoryPool and other readers of pcoinsTip.
Read(o) ==
  /\ mode = "idle"
  /\ cache' = FetchCoin(cache, db.coins, {o})
  /\ UNCHANGED <<db, best, undo, stored, mode, fault>>

\* AcceptToMemoryPool, for a transaction that is not accepted, and
\* LimitMempoolSize.
Forget(o) ==
  /\ mode = "idle"
  /\ cache' = Uncache(cache, o)
  /\ UNCHANGED <<db, best, undo, stored, mode, fault>>

\* FlushStateToDisk on its own: periodically, and twice in Shutdown.
Periodic ==
  /\ mode = "idle"
  /\ UNCHANGED undo
  /\ FlushStateToDisk
  /\ UNCHANGED <<db, cache, best, fault>>

Close ==
  /\ mode = "idle"
  /\ mode' = "closing"
  /\ UNCHANGED undo /\ WriteIndex
  /\ UNCHANGED <<db, cache, best, fault>>

-----------------------------------------------------------------------------
(* CCoinsViewDB::BatchWrite *)

Writing == mode \in {"flush", "closing", "replay"}

OldTip == IF db.best # None THEN db.best ELSE db.heads[2]

\* Mutant of Marked: the database claims to be at the new tip from the start.
Marked_AtOnce(coins) == [coins |-> coins, best |-> best, heads |-> <<>>]

\* Mutant of Marked: only the new tip is recorded.
Marked_OneHead(coins) == [coins |-> coins, best |-> None, heads |-> <<best>>]

\* A database in the middle of the transition.
Marked(coins) == [coins |-> coins, best |-> None, heads |-> <<best, OldTip>>]

\* A partial batch: entries leave the cache when they are put into it.
WriteBatch(S) ==
  /\ Writing
  /\ db' = Marked(WriteCoins(db.coins, cache, S))
  /\ fault' = IF db.best = None /\ db.heads[1] # best THEN "other heads" ELSE fault
  /\ cache' = Without(cache, S)
  /\ UNCHANGED <<best, undo, stored, mode>>

\* The last batch.
WriteLast ==
  /\ Writing
  /\ db' = [coins |-> WriteCoins(db.coins, cache, DOMAIN cache), best |-> best, heads |-> <<>>]
  /\ cache' = <<>>
  /\ mode' = IF mode = "closing" THEN "closed" ELSE "idle"
  /\ UNCHANGED <<best, undo, stored, fault>>

-----------------------------------------------------------------------------
(* The end of the process, and the next one *)

\* A crash, or the end of Shutdown: what is in memory is gone, with what was
\* not yet forced to disk.
End ==
  /\ mode # "down"
  /\ mode' = "down"
  /\ cache' = <<>> /\ best' = None
  /\ undo' = Restrict(undo, stored \cap DOMAIN undo)
  /\ UNCHANGED <<db, stored, fault>>

\* ReplayBlocks, along the old branch: its blocks above the height fork are
\* disconnected, the tip first.
Rollback(v, old, fork) ==
  LET w[k \in 0 .. Height(old) - fork] ==
        IF k = 0 THEN v ELSE DisconnectBlock(w[k - 1], BlockAt(old, Height(old) - k + 1))
  IN  w[Height(old) - fork]

\* And along the new one: its blocks above the height fork are applied.
Rollforward(v, new, fork) ==
  LET w[k \in 0 .. Height(new) - fork] ==
        IF k = 0 THEN v ELSE RollforwardBlock(w[k - 1], BlockAt(new, fork + k))
  IN  w[Height(new) - fork]

\* Mutant of Replay: the old branch is left as it is.
Replay_ForwardOnly(old, new) == Rollforward(View(<<>>), new, ForkHeight(old, new))

\* Its cache lies on the database itself: the base of the view is what it has
\* read there, and is dropped.
Replay(old, new) ==
  LET fork == ForkHeight(old, new)
  IN  Rollforward(Rollback(View(<<>>), old, fork), new, fork)

Start ==
  /\ mode = "down"
  /\ IF db.heads = <<>>
     THEN mode' = "idle" /\ best' = db.best /\ UNCHANGED <<cache, fault>>
     ELSE LET v == Replay(db.heads[2], db.heads[1])
          IN  /\ mode' = "replay" /\ best' = db.heads[1] /\ cache' = v.own
              /\ fault' = FirstFault(v.fault, ~Range(db.heads) \subseteq stored, "unknown block")
  /\ UNCHANGED <<db, undo, stored>>

Next ==
  /\ fault = "none"
  /\ \/ \E b \in Blocks : ConnectTip(b)
     \/ DisconnectTip
     \/ \E o \in Outpoints : Read(o) \/ Forget(o)
     \/ Periodic \/ Close
     \/ \E S \in SUBSET DOMAIN cache \ {{}} : WriteBatch(S)
     \/ WriteLast
     \/ End \/ Start

Spec == Init /\ [][Next]_vars

-----------------------------------------------------------------------------
(* Properties *)

\* The types of the state.
TypeOK ==
  /\ db.coins \in [Outpoints -> Coins]
  /\ db.best \in Blocks \cup {Root, None}
  /\ db.heads = <<>> \/ db.heads \in (Blocks \cup {Root}) \X (Blocks \cup {Root})
  /\ DOMAIN cache \subseteq Outpoints /\ \A o \in DOMAIN cache : cache[o] \in Entries
  /\ best \in Blocks \cup {Root, None}
  /\ DOMAIN undo \subseteq Blocks /\ stored \subseteq Blocks \cup {Root}
  /\ mode \in {"idle", "flush", "closing", "closed", "replay", "down"}

\* A legal history never meets one of the code's own checks: no logic_error of
\* AddCoin or BatchWrite, no assertion on the heads, no valid block refused, no
\* tip that cannot be disconnected cleanly, and no start that lacks the blocks
\* or the undo data that the replay of an interrupted flush needs.
NoFault == fault = "none"

\* The flags that decide which changes never reach the database are right,
\* also halfway through a flush and for the cache of a replay.
FlagsSound == Sound(cache, db.coins)

\* A database that says which block it is at has exactly the coins of that
\* block's chain.
DatabaseConsistent == db.best # None => db.coins = UTXO[db.best]

\* The refinement: whatever is cached at whatever level, the coins seen are
\* those of the tip's chain, and after a crash at any moment, in the middle of
\* a flush or of its replay, those of the tip saved last.
ImplementsUTXOSet == U!Spec

=============================================================================
