# Verification of the node

TLA+ specifications of two halves of this repository: the masternode layer (the
deterministic list, the code that keeps it along a tree of blocks, the penalties
that ban masternodes, the quorums chosen from it and the locks they put on blocks),
and the chain state under it (the pool of threads that verifies scripts, the
set of unspent coins with its caches and its database, and the metadata of assets).
TLC models of all of them; abstract specifications that two of them implement; and
proofs, checked by TLAPS, of all safety properties but those of the assets.
Paths are relative to the repository, which is `src/` in the tables of
`PROJECT.json`.

## The system

The repository is a proof-of-work chain with assets, to which a layer of
masternodes was added. Four kinds of special transactions register masternodes
and change them. Every block leads from one *masternode list* to the next: the
list says who is paid by the next block, and who may sit in a quorum. Quorums
of masternodes sign blocks (ChainLocks) and transactions (InstantSend).

| Part | Source | Modules |
|---|---|---|
| Masternode list: masternodes, unique-property index, payee | `src/evo/deterministicmns.{h,cpp}` | `MNList` |
| Provider transactions: checks and effects | `src/evo/providertx.cpp`, `ProcessBlock` in `deterministicmns.cpp` | `ProviderTx` |
| Processing of a block, chain of blocks | `ProcessSpecialTxsInBlock`, `ProcessBlock` | `MNBlock` |
| Penalties, bans, revivals, undo data, restarts | `src/evo/pose.cpp`, its calls in `ProcessBlock` | `PoSe` |
| Lists of a tree of blocks: cache, snapshots, replay | `CDeterministicMNManager`, its calls in `validation.cpp` | `MNManager` |
| Evolution database | `src/evo/evodb.{h,cpp}` | inside `PoSe` and `MNManager` |
| Equivocation detection | `src/llmq/equivocation.cpp` | only its effect on penalties |
| ChainLocks: receiving, storing and enforcing locks | `src/llmq/chainlocks.cpp`, `AcceptBlock` in `validation.cpp` | `ChainLocks` |
| The tree of blocks | `CBlockIndex` | `BlockTree`, which the modules about chains extend |
| Quorum manager: which quorums are built, kept and active | `CQuorumManager` in `src/llmq/quorums.cpp` | `Quorums`, which extends `MNManager` |
| Script check queue | `src/checkqueue.h` | `CheckQueue`, implements `Verification` |
| Coins: cache levels, flags, flushing | `src/coins.cpp`, `src/txdb.cpp` | `CoinsView` |
| Chain state: coins of the tip through blocks, flushes, crashes | `src/validation.cpp`, `src/init.cpp` | `ChainState`, implements `UTXOSet` |
| Assets: issue, reissue, undo, dump | `src/assets/assets.cpp`, its calls in `validation.cpp` and `coins.cpp` | `Assets` |
| InstantSend, signing, key generation | `src/llmq/` | not modelled |
| Monitoring, RPC, BLS, mempool, network, wallet | | not modelled |

Interactions: `ConnectBlock` calls `ProcessSpecialTxsInBlock`, which checks each
transaction against the list of the previous block and a list of what the block
did so far, and then `CDeterministicMNManager::ProcessBlock`, which builds the
new list, asks the PoSe manager whom to ban, revives who was banned long enough,
and commits list and penalties to the evolution database. `DisconnectTip` undoes
the penalties and drops the list. Payee checks, quorum selection and RPC ask
`GetListForBlock` for the list of any block, which replays blocks if the list is
gone. Penalties come from the network thread, which does not hold `cs_main`. Locks
come from the network too; `ContextualCheckBlock` compares arriving blocks with the
best of them. When the tip has changed, the list manager and then the quorum manager
are told, without `cs_main`; the latter asks the former for lists.

`ConnectBlock` hands the scripts of a block to the check queue and waits for its
verdict. It and `DisconnectBlock` apply a block to a coin view and an asset cache of
its own, which `ConnectTip` and `DisconnectTip` flush into the global ones.
`FlushStateToDisk` writes block index, coins and assets, in this order.

## The modules

**`MNList`** has the operations of `CDeterministicMNList` as operators: `AddMN`,
`UpdateMN`, `BatchUpdateMNStates`, `BatchRemoveMNs`, the copy that `ProcessBlock`
makes, the lookups through the unique-property index, and the choice of the
payee. A list is a map of masternodes and a map from properties (collateral,
address, owner, voting and operator key) to masternodes, which the code updates
separately; that the two agree is a property, not an assumption. The score hash
is a constant function `RawScore`.

**`ProviderTx`** has the contextual checks of the four transactions, the effect of
each on a list, and the passes of `ProcessBlock` before the first and after the
last of them. A transaction is a record; a signature is the key that made it. What
a payload alone decides (formats, versions, ports, scripts) is left out. Quorum
commitments are checked and change no list; a type the node does not know is refused.

**`MNBlock`** is the state machine: `BeginBlock`, one `CheckTx` or `RejectTx` per
transaction (the loop of `ProcessSpecialTxsInBlock`), `StartApply`, one `ApplyOne`
or `FailApply` per transaction (the loop of `ProcessBlock`), `CommitBlock`. Blocks
are any sequences of the transactions in `Txs` whose inputs exist and are spent
once. `IncrementPenalty` may happen between any two steps.

**`PoSe`** is about what `MNBlock` keeps abstract: the PoSe manager's memory, what
of it is on disk and when, and the undo data. The list is reduced to the height at
which each masternode was banned. `ProcessBlock` is split where it calls the PoSe
manager, since that manager's lock is released in between: `BeginBlock`
(`GetAllPenalties` and who is due for revival), `RecordUndo`, `Punish`, one
`ReviveOne` each, `Commit` (the transaction). `FailLate` is a block that
`ConnectBlock` rejects after `ProcessBlock` committed it; `Disconnect` is
`UndoSpecialTxsInBlock`; `Crash` may happen anywhere and takes the chain back to
what was flushed; `Shutdown` is `StopPoSe` and a restart. A block whose list is
missing is processed again first, as `GetListForBlock` does.

**`MNManager`** is about which list belongs to which block. A list is where it
came from: its block and the blocks applied to get it. What `ProcessBlock` reads besides
the base list and the block, the coins of `pcoinsTip` and the penalties of the node, in a
replay too, is not in it: two lists of the same origin may differ in tiers or bans.
The manager's state is a record, `GetListForBlock` an operator on it that returns the manager afterwards and
the list: `Nearest` is the height of the nearest list that is there, `Readable` how far
block data allow to replay from it, `Replayed` the loop between the two. Blocks of a tree
arrive (`AcceptBlock`, with the payee check), connect, fail, disconnect; callbacks
come late (`UpdatedBlockTip`); anyone may ask (`Ask`); the node crashes or is
upgraded to another database version. `ProcessBlock` asserts that the list it found is
the parent's, but only if that list has a valid masternode: where it has, the process ends,
otherwise the block goes onto the wrong list. As what is in a list is not modelled, both may
happen (`ProcessChild`, `Crash`), and the history variable `adrift` has the blocks that
went onto a wrong list.

**`ChainLocks`** is what the running node does with locks. Two threads, the message
handler and an RPC worker, go through the steps of `ProcessChainLock` and of
`ProcessNewBlock`; a step is the code between two acquisitions of a mutex, and
which mutexes a thread holds follows from where it is. A lock is the block it is for;
the signature is external, and verifying it may fail. Blocks are of equal difficulty, so
that the work of a chain is its height. `Crash(n)` is a crash after
`n` of the writes of `WriteChainLock`, together with the `Init` that follows and the
return of the chain to what was flushed. `early` is a history variable. Much of
`CChainLocksManager` has no caller in the node (`ProcessNewBlock`, `TrySignChainLock`,
`TryActivate`, `UpdatedBlockTip`, `CanReorg`, `Cleanup`) and is left out; so pending
locks are stored and never looked at again.

**`Quorums`** composes the quorum manager with `MNManager`. `ListUpdated` and
`QuorumUpdate` are the two callbacks of a new tip, in the order they were registered;
`BuildNext` is one `BuildQuorum` of the loop in `UpdatedBlockTip`, which holds the
quorum manager's `cs` and not `cs_main`, so that blocks come and go between two of
them (`ChainStep`); `RpcBuild` is `quorum_members`. A quorum is its block and the
list it was selected from, so that a wrong list is a wrong quorum; nothing is said of who
is in it (see `MNManager`). With too few masternodes there is no quorum, and with too few
usable keys one that is cached but does not sign (`Keyless`). The history variable
`displaced` has the blocks whose quorum was asked for when they were not of the active
chain and the cache of lists had no room. A behaviour is one run of the node, after the
initial download.

**`CheckQueue`** is `CCheckQueue::Loop` on every thread. A step is what happens while
the mutex is held: `Enter` (clean-up of the last batch and then `Proceed`), `Wake`
(the wait returns, then `Proceed`), where `Proceed` is to leave, to sleep or to take
a batch; `Run` executes a batch without the mutex. `Control`, `Add` and `Wait` are the
calls of `CCheckQueueControl`. A notification chooses among those that wait; threads
may also wake up for no reason (`Spurious`), and workers may be interrupted where they
wait (`Interrupt`), which leaves `nIdle` and `nTotal` too large, as in the code.

**`Verification`** is what a `CCheckQueueControl` promises: batches go in, and
after some time a verdict on exactly these checks comes out. `CheckQueue`
implements it, liveness included, with `phase` as a function of where the master is.

**`CoinsView`** has the operations of `CCoinsViewCache` as operators on a function
from outpoints to entries with `DIRTY` and `FRESH` flags. A coin is the height it was
created at: value and script follow from the outpoint. The inputs of a transaction are
different outpoints, and so are its outputs; the loops over them are operations on a set
of outpoints, since what the code does at one does not depend on the others.

**`ChainState`** uses them at three levels, the view of a block over `pcoinsTip` over
the database. A handler is one action, under `cs_main`; a flush is a mode in which any
entries leave the cache in any number of batches (`WriteBatch`, `WriteLast`), with a
possible end of the process between two of them (`End`). What was not forced to disk
is lost then: undo data and index entries count as on disk from the `WriteIndex` of a
flush on. `Start` is the start of the node with `ReplayBlocks` (`Rollback` to the height of
the fork, then `Rollforward`), the result of which is written in batches in its turn. Every assertion, exception and error return of
this code on coins sets `fault`.

**`UTXOSet`** is what the chain state promises: coins are those of the tip's
chain, and a restart finds the tip saved last. `ChainState` implements it: the tip
saved last is the first of the two heads while a flush is under way, since
`ReplayBlocks` completes it.

**`Assets`** has the four layers of asset metadata. A cache is five sets and maps, as in
`CAssets`, of which the lookups read some in the order of the code. `ConnectTip` and
`DisconnectTip` fold the operations of a block over a cache of their own and flush it;
`DumpCacheToDatabase` is that part of a full flush; `Lookup` and `Evict` are other
readers of the LRU and its limit. The verifications that a block's issues and reissues
must pass are in it, so that a wrong lookup makes the node accept or refuse a block
wrongly. `pool` is `mapReissuedAssets`: a reissue enters it with the mempool
(`AcceptToMemoryPool`) and leaves it when it is removed (`RemoveUnchecked`) or in a block
that is connected; a flush saves it and a start reads it. A block that has another reissue
of an asset in the map is refused.

`MCMNBlock`, `MCPoSe`, `MCMNManager`, `MCQuorums`, `MCChainLocks`, `MCCheckQueue`,
`MCChainState` and `MCAssets` give the constants values for TLC. `BlockTreeProofs`,
`ProviderTxProofs`, `MNBlockProofs`, `PoSeProofs`, `MNManagerProofs` (with `Quorums`),
`ChainLocksProofs`, `CheckQueueProofs` and `ChainStateProofs` have the proofs.

Operators whose comment says "Mutant of" are deliberately wrong variants that show
that a property notices a change; no specification uses them.

## The runs

Run a configuration with `tlc -config X.cfg M`, a proof with `tlapm M.tla`.

### Runs that pass

| Run | Configuration | Shows |
|---|---|---|
| `mnblock_conflicts` | `MNBlockConflicts.cfg`, `MCMNBlock` | No index entry is an orphan (`IndexSound`). From the migration on every masternode is found by collateral and owner key (`CollateralIndexed`) and leaves in the block that spends its collateral (`CollateralUnspent`). A block keeps all five properties unique unless a registration in it follows another claim to the same property in that block (`UniquenessKept`). |
| `mnblock_pose` | `MNBlockPoSe.cfg`, `MCMNBlock` | The ban of a masternode that was never revoked ends on time (`RevivalOnTime`); no block lifts a revocation that has a reason (`RevocationHolds`). |
| `pose` | `PoSe.cfg`, `MCPoSe` | Disconnecting a block restores the penalties it changed (`UndoRestores`). A revival is not followed by a ban for the same penalty (`RevivalSticks`). A reorganisation away from a block and back leads to the same list, when no penalty arrives in between and undo data reaches that far (`SameListAgain`). Whatever crashes, failures and replays happen, a penalty is never counted twice, in memory or on disk (`PenaltiesAccounted`). |
| `mnmanager` | `MNManager.cfg`, `MCMNManager` | Every list in cache or database was made by applying the blocks of its own chain, each once and in order, unless one of these was connected onto another block's list (`ListsGenuine`). What is cached can be had again from disk (`CacheBacked`). The list returned for a block is that block's own, with the same exception, and unless the cache is full of lists as high or block data is missing (`ExactUnlessCrowded`). For a block of the active chain it is so without exception, until a restart (`ActiveListsExact`). |
| `chainlocks` | `ChainLocks.cfg`, `MCChainLocks` | The best height always has its lock, after any crash (`BestBacked`). No lock is lost and the best height never goes back (`LocksSurvive`). An active chain that reaches the best lock's height goes through the locked block or through one accepted before the lock (`ActiveRespectsLock`). |
| `quorums` | `Quorums.cfg`, `MCQuorums` | The signing quorums are the valid ones of the interval heights of the last update's block, newest first, each built from the list of its own block, although other threads took steps between them or they were kept from an earlier chain (`SigningQuorumsExact`). A cached quorum was built from its own block's list (`CachedQuorumsExact`). Both except quorums that were asked for off the active chain with the cache of lists full (`displaced`). |
| `checkqueue` | `CheckQueue.cfg`, `MCCheckQueue` | `nTodo` counts exactly what is not done (`TodoExact`). When `Wait` has returned no thread holds a check of the block (`NoneLeft`). No wake-up is lost while checks are added (`WorkStarts`). Every verdict is about exactly the checks of its block, and `Wait` returns (`ImplementsVerification`). |
| `chainstate` | `ChainState.cfg`, `MCChainState` | No assertion, exception or error of the code is met (`NoFault`); the flags are right at every level and moment (`FlagsSound`); a database that names a block has its coins (`DatabaseConsistent`); the whole implements `UTXOSet` (`ImplementsUTXOSet`). |
| `assets` | `Assets.cfg`, `MCAssets` | A block is accepted only if its chain allows what it issues and reissues, and refused only if not or if the mempool has another reissue of one of its assets (`VerdictsExact`); every lookup finds the assets and metadata of the tip's chain, whichever layer answers (`LookupsExact`); a dump leaves exactly these in the database (`DatabaseExact`). The condition of the three is `RegularOps`: blocks that may be connected issue an asset alike, a block has one issue or reissue of an asset at most, and a reissue is only on a chain that has issued the asset; `assets_rival` and the divergences below are the other cases. A confirmed reissue is never in the map of the mempool's (`ConfirmedNotPending`). |

Fairness is assumed in `CheckQueue` only: weak fairness of the steps of each thread
inside `Loop`. The code justifies it: a thread that may take the mutex, was notified or
has checks to execute is run by the operating system, and script checks terminate.
Nothing is assumed of spurious wake-ups, interruptions or of the master adding checks or
connecting another block, so `WorkStarts` has the exits "the master goes on to `Wait`"
and "a worker was shut down". The other modules state safety: on their paths the code
has no retry or timer whose progress could be promised.

Deadlock is not checked where the system may stop: an idle node whose bounds are used
up (`mnmanager`, `quorums`), idle threads (`checkqueue`), and the two threads of
`chainlocks`, which really can block each other (below).

### Runs that refute what the repository says

Each has one property, which a comment or a document states, and an entry under
`findings` in `PROJECT.json` that quotes it.

| Run | Shows |
|---|---|
| `chainlocks_reorg` | A locked block is reorganised away by a longer branch whose block of that height was accepted before the lock: nothing compares locks with the chain that is activated. |
| `mnblock_revoked` | A masternode that its operator revoked with reason 0, which means that none is given, is unbanned by a change of its operator key or when the ban is old enough: the code takes the reason for whether there was a revocation. |
| `assets_rival` | A reorganisation removes the issue and a reissue of an asset and then connects another issue of that name: the metadata of the removed asset are still in `mapReissuedAssetData` and are written to the database in place of the new ones. |

Other divergences met while modelling. The models exhibit them; no run is kept
for them.

Masternodes and quorums:

- An update and then a registration in one block can claim the same address or key:
  the update does not reach the intra-block list (`providertx.cpp:1191`), against the
  comment at `providertx.cpp:1142`.
- Undo data of penalties is kept per height. What a block that failed after
  `ProcessBlock` left there is applied when another block of that height is
  disconnected (`pose.cpp:368`).
- `ResetPenalty` clears `fDirty` after saving one masternode (`pose.cpp:239`); a clean
  shutdown then loses a penalty of another.
- The payee of a block that arrives before its parent's data is computed from the list
  of an earlier block (`deterministicmns.cpp:1133`), against `validation.cpp:4410`.
- `ProcessChainLock` takes `cs` and then `cs_main` (`chainlocks.cpp:420`); a thread that
  checks a block, in `submitblock` for one, takes them in the opposite order, and both
  wait for ever.
- After a crash in the middle of a reorganisation the stored lists can have a gap. The
  list rebuilt for it is evicted by height at once when the cache is full. A block is then
  connected onto an earlier list, if that has no valid masternode (the assertion at
  `deterministicmns.cpp:938` is skipped), or a quorum is built from it; so it is when
  `UpdatedBlockTip` comes for a block that was disconnected meanwhile and the cache is
  full of higher lists (`adrift`, `displaced`).
- A list depends on more than the blocks: `ProcessBlock` reads the coins of the active
  tip (`deterministicmns.cpp:787`, `923`) and the penalties this node has counted
  (`deterministicmns.cpp:960`), also when it replays an old block. A list made a second
  time may differ, and so may the lists, and the quorums, of two nodes.
- `CEvoDB::Write` of one thread goes into the transaction another has open
  (`evodb.h:62`), and is lost with it: a lock may be in memory and not on disk.
- `CDKGSession::AdvancePhase` divides a height difference that is negative after a
  reorganisation below the session's block; the quotient 0 or the default branch says
  initialisation or finalisation (`dkg.cpp:615`).
- A block that updates a masternode whose collateral it spends passes
  `TestBlockValidity`, which does not call `ProcessBlock`, and fails to connect
  (`FailApply`).
- A change of the operator key clears the ban and the penalty in the list but not in
  the PoSe manager, so the same block bans again.
- After a crash between the first and the third write of a lock the node has the
  lock but not its height as the best; as it has it, it never processes it again, and
  the lock is not enforced until a higher one comes.
- A lock that arrives before its block's header stays pending for ever, though it may
  be sent again.
- The migration block skips both passes that remove masternodes with a spent
  collateral; `CollateralUnspent` excepts what that block registers.
- `PrepareUndoForBlock` and `ResetPenalty` write to the database outside of the
  transaction that commits the block, so a crash in between leaves one without
  the other.
- Undo data on disk is not trimmed after a restart.
- A list rebuilt for an old block is evicted at once when the cache is full of
  higher lists, so the caller may get an earlier list (hence the exception in
  `ExactUnlessCrowded`).
- `tipList` is set by replays of any block, and is empty after a restart.
- Lookups fill the cache without cleaning it; only processing a block does.

Coins and assets:

- A batch of a flush that cannot be written throws after its entries have left the
  cache. `AbortNode` then leads to `Shutdown`, whose flush writes what is left and marks
  the database as consistent (`txdb.cpp:130`, `validation.cpp:3160`, `init.cpp:250`).
- Assets are dumped after the coins, in another database, and `ReplayBlocks` rolls
  forward without an asset cache (`validation.cpp:5372`): a crash in between leaves the
  asset database behind the coins.
- After an issue was removed and not dumped, a block that issues and reissues the asset
  again is refused, and one that issues it twice is accepted: `passets` still has the
  name among the removed ones, which every lookup through the cache of the block finds
  first.
- Of two reissues of an asset in one block, the undo of both uses the undo data of the
  first.
- Whether a block with a reissue is accepted depends on the mempool: it is refused, and
  marked as invalid, if `mapReissuedAssets` has another transaction for the asset
  (`tx_verify.cpp:744`, reached from `ConnectBlock`). The map is saved in a flush and the
  mempool on a clean shutdown, so that after a crash it may name a transaction the mempool
  does not have, and that nothing removes until it is in a block.
- The height of an asset is not initialised where metadata come from
  `mapReissuedAssetData` (`assets.cpp:1924`).
- `assets.cpp:2983` merges the removed root qualifiers into the added ones.

### Bounds, and why they are enough

- `MNBlock`: two or three masternodes suffice for every conflict, since the index
  relates two owners of one property. Four or five blocks leave room for
  registration, ban, key change or revocation, and revival with
  `nPoSeRevivalHeight = 2`; three transactions in a block for two claims and a
  spend. `ConflictTxs` and `PoSeTxs` in `MCMNBlock` are chosen so that every check
  has a transaction that passes and one that fails it. Heights of activation and
  migration lie inside the chain in `mnblock_conflicts`, so blocks before, at and
  after them occur.
- `PoSe`: two masternodes, since the flag and the flush are shared between them; a
  chain longer than the undo history (4 against 3), so that undo data is trimmed
  and missing; enough penalties and disconnects (`MaxIncrements`, `MaxReorgs`) to
  punish, revive, undo and punish again, with a crash at any step and a late failure. The two
  masternodes are interchangeable, hence the symmetry; no property is a liveness one.
- `MNManager`: a chain of three blocks and a branch of two, a cache of
  one: lists are evicted, lists of the losing branch outlive it, replays span
  two blocks, and blocks are connected onto a wrong list. The code's limit is larger, but
  only being below or at it matters.
- `ChainLocks`: two branches of two blocks, locks on both blocks of one, two threads
  and one crash. A lock can come before its block, before, while or after its
  competitor is accepted, below or above the tip; a second lock follows one that a
  crash cut short. More blocks (a third on a branch was tried) add time, not cases.
- `Quorums`: a common block and two branches of two, a cache of two lists,
  two reorganisations, a block whose quorum is not valid, two quorums active and two
  callbacks outstanding at a time. Quorums are built for blocks that left the active chain,
  with the cache of lists full and with room in it.
- `CheckQueue`: two workers and the master, four checks, a batch size of two: batches
  of two and of one occur, a worker may sleep through the first of two blocks or carry
  its state into the second. Three workers were not needed: notifying one of two that wait is
  the case that can lose a wake-up.
- `ChainState`: two branches of two blocks after a common one, in which the same
  outputs are created and spent in other blocks, an output is created and spent in one
  block, and a coinbase is repeated. Any entries may be in a batch and any crash may
  follow; nothing else is bounded.
- `Assets`: two names on three branches, blocks with several operations, three
  blocks that must be refused, for each of the reasons the code has, and a reissue in the
  mempool that rivals those of two branches. Nothing else is bounded.

## What is proved

Every proof is for all values of the constants: any number of masternodes,
transactions, blocks, outpoints, threads and checks, any tree of blocks, and any bound
of the models, which therefore bound nothing in a theorem. All of them have the same
shape. The properties are not inductive; an invariant `IInv` that is has been checked
with TLC on the run's instance first, each action has a lemma that it keeps `IInv`, and
the properties follow.

What a loop or a recursive definition computes is proved without the library's induction
theorems: the set of counterexamples would have a least element (`LeastOf`, `Upto`) or,
along `pprev`, one whose previous block is none (`Lowest`), and the step from the one
before refutes it. A recursive function is first shown to have a solution
(`LoopExists`, `SolutionExists`). These lemmas are in `BlockTreeProofs`, on which the
modules about trees of blocks rest.

### The masternode list

`ProviderTxProofs` and `MNBlockProofs`:

| Theorem | Statement |
|---|---|
| `TypeCorrect` | `Spec => []TypeOK` |
| `IndexIsSound` | `Spec => []IndexSound` |
| `CollateralsAreIndexed` | `Spec => []CollateralIndexed` |
| `CollateralsAreUnspent` | `Spec => []CollateralUnspent` |
| `RevocationsHold` | `Spec => RevocationHolds` |
| `BansEndOnTime` | `Spec => []RevivalOnTime` |
| `PropertiesStayUnique` | `Spec => UniquenessKept` |

Assumptions: the constants have their types; transaction hashes identify
transactions; tiered masternodes are active no later than the migration
(`MigrationHeights`), which holds on all networks of `chainparams.cpp`.

`IInv` in `MNBlock` adds what the two loops know on their way:

- `IdsInv`: a masternode is listed under the hash of a mined transaction, and a block
  has only new transactions. So a registration never meets its own hash.
- `IntraInv`: the intra-block list holds exactly the registrations checked so far.
  Updates do not reach it: a checked update is of a masternode of the previous list,
  whose hash is mined (lemma `UpdateMissesIntra`).
- `RegsInv`: a checked registration has an unspent collateral and shares neither
  collateral nor owner key with the previous list or, where intra-block checks are
  enforced, with another checked registration.
- `OriginInv`: a masternode of the list under construction is one of the previous list
  or registered by the block, and has kept its collateral and owner.
- `NewIndexed`: the list under construction is already complete by collateral and owner
  key. With `RegsInv` and `OriginInv` this survives a registration, whose `AddMN` would
  overwrite the index entry of whoever had the property.
- `RevokedInv`: who is revoked for a reason is banned. A checked revocation is of a
  masternode that is not, so that no reason is overwritten.
- `BanInv`, for the bans: no ban is of a later block, and the migration block, which
  skips the revivals, has nobody to revive.
- `ClaimInv`, for the five properties: the index under construction has entries of the
  previous list and claims of the block so far, and nothing else.

`ProviderTxProofs` shows that each list operation keeps the index sound and, under
conditions, complete, and lifts this to transactions and to the passes of
`ProcessBlock`, all of which satisfy one relation, `Keeps`.

### Penalties

`PoSeProofs`:

| Theorem | Statement |
|---|---|
| `TypeCorrect` | `Spec => []TypeOK` |
| `PenaltiesNeverTwice` | `Spec => []PenaltiesAccounted` |
| `PenaltiesComeBack` | `Spec => UndoRestores` |
| `RevivalsStick` | `Spec => []RevivalSticks` |
| `ListsComeBack` | `Spec => SameListAgain` |

The first two hold through crashes, restarts and late failures (`ProcInv`, `AccountInv`).
The others are about an undisturbed node, as the properties say. Their invariant,
`HistoryInv`, ties four things together: the lists of the connected blocks, the scores
that each block found (history), the undo data, and what is in memory. Each list is the
one below it with the scores of its block applied (`ChainInv`), also halfway
through a block (`WorkInv`); a masternode that was revived has no score in memory or
in the undo data of a later block (`RevivalInv`); and what is remembered of the first
time a block was connected agrees with the chain there is (`FirstInv`). The delicate
point is the end of the undo history: a block as deep as `MAX_UNDO_HISTORY` still agrees
with its successor, one deeper does not.

### Lists along a tree of blocks, and quorums

`MNManagerProofs`:

| Theorem | Statement |
|---|---|
| `TypeCorrect` | `Spec => []TypeOK` |
| `ListsAreGenuine` | `Spec => []ListsGenuine` |
| `CacheIsBacked` | `Spec => []CacheBacked` |
| `AnswersAreExact` | `Spec => []ExactUnlessCrowded` |
| `ActiveChainExact` | `Spec => []ActiveListsExact` |
| `QuorumTypeCorrect` | `QuorumSpec => []QuorumTypeOK` |
| `CachedQuorumsAreExact` | `QuorumSpec => []CachedQuorumsExact` |
| `SigningQuorumsAreExact` | `QuorumSpec => []SigningQuorumsExact` |

The heart is what `GetListForBlock` does to a manager that is `Sound` (every list in it
of a chain without blocks that went `adrift` is genuine, the cached ones are saved, saved
ones are of blocks whose data is there): it stays
sound whatever is evicted during the replay, nothing saved is lost, and the list is the
right one unless the cache is crowded. `ChildSound` says that a block connected onto a
wrong list spoils its own descendants' lists only. `IInv` adds the chain (`ChainInv`) and
that until a restart each block of the active chain has a saved list and nothing is adrift
(`SavedInv`).

A quorum that `BuildQuorum` makes is then right for a block of the active chain, because
its list is saved, and for any other while the cache has room (`BuildExact`); the
remaining case is what `displaced` records, and there the theorems promise nothing.
`QuorumInv` follows the loop of `UpdatedBlockTip` from iteration to iteration while
other threads move (`Built`, `BuiltMore`).

### ChainLocks

`ChainLocksProofs`:

| Theorem | Statement |
|---|---|
| `TypesAndTree` | `Spec => []TypeOK` |
| `BestLockIsBacked` | `Spec => []BestBacked` |
| `LockBindsActiveChain` | `Spec => []ActiveRespectsLock` |
| `LocksAreKept` | `Spec => LocksSurvive` |

`IInv`: what is in memory is what `Init` would load from the database (`LockInv`), whatever
writes a crash has left out; the mutexes exclude each other and the lock being stored
is higher than the best (`ThreadInv`); a stored block of the best lock's height is the
locked one or was there before (`EarlyInv`). Assumed is that a quorum signs one block
of a height (`LockConstants`).

### The check queue

`CheckQueueProofs`:

| Theorem | Statement |
|---|---|
| `TypeCorrect` | `Spec => []TypeOK` |
| `TodoIsExact` | `Spec => []TodoExact` |
| `NoCheckSurvivesWait` | `Spec => []NoneLeft` |
| `VerdictsAreExact` | the safety part of `ImplementsVerification` |

`IInv`: the counters are the cardinalities they stand for (`CountInv`), and a check that
fails is queued, in the hands of a thread that will report it, or recorded in
`fAllOk`, while nothing else is ever recorded there (`StatusInv`). The batch size formula of
the code matters in one place only: a batch is neither empty nor larger than the queue.

### Coins

`ChainStateProofs`, for every tree of valid blocks:

| Theorem | Statement |
|---|---|
| `TypeCorrect` | `Spec => []TypeOK` |
| `NeverFaults` | `Spec => []NoFault` |
| `FlagsAlwaysSound` | `Spec => []FlagsSound` |
| `DatabaseAlwaysConsistent` | `Spec => []DatabaseConsistent` |
| `Refinement` | `Spec => ImplementsUTXOSet` |
| `ReplayExact` | `ReplayBlocks` on a database between two tips gives the coins of the new one. |
| `FetchCoinSound`, `UncacheSound` | The operation is invisible and keeps the flags sound. |
| `AddCoinSound`, `SpendCoinSound` | The operation changes what is seen as it should, keeps the flags sound and does not throw for a caller that announces overwrites. |
| `BatchWriteSound` | Flushing a cache with sound flags into another does not throw; the parent's flags stay sound and it shows what the child showed. |
| `WriteCoinsSound`, `FlushExact` | After a partial batch, of any entries, the rest over the changed database shows the same coins with sound flags; after the last, the database has what was seen. |

Assumed of the blocks (`ChainConstants`): a transaction spends coins that are there and
creates coins that are not, in the state its block finds it in. For inputs,
`CheckTxInputs` sees to it. For outputs it is what BIP30 was about: transactions
have different hashes because their inputs differ, and coinbases because BIP34, which
is in force from the first block (`nBIP34Enabled`, `chainparams.cpp:209`, and
`bad-cb-height`, `validation.cpp:4399`), puts the height into them.

The argument, from the bottom up. `Sound` (an entry that is not dirty is a copy, under a
fresh entry there is no unspent coin) is what makes the two shortcuts of the cache
harmless, to drop a fresh entry when it is spent and to skip a clean one when
writing. Each operation preserves it, at both levels of a view (`Good`). `ConnectGood`
follows the loop over the transactions of a block, and says that the view then shows
the coins of the block and that its undo data are right. `DisconnectGood` says two
things of undoing a block: from the coins of the block it leads cleanly to those of its
parent; and from a mixture of them with coins of any other set (`Mix`), it leads to a
mixture of the parent's coins with that set. The second is why a replay works: a flush cut
short leaves coins of the old and of the new tip, rolling back turns it into a mixture
of the fork's coins and the new tip's, and rolling forward into the new tip's alone.

`IInv` says where everything is between the steps: the database is at a block or
between two of which it has both heads (`DiskInv`); the cache over it has the coins of
the tip (`MemoryInv`); undo data are right, and there for the tip's chain (`FileInv`,
`MemoryInv`); and the chains of all blocks that a start may meet are on disk with their
undo data (`Kept`), because the block index is written before the first batch. In the
refinement a connected block is `Advance`, a disconnected one `Retreat`, a batch
`Save` or nothing, and the last batch of a replay `Start`.

### Only model-checked

- Liveness: `WorkStarts`, and that `Wait` returns (the liveness of
  `ImplementsVerification`). Fairness and `ENABLED` are beyond the prover.
- Everything about `Assets`: its verdicts come out of folds over five sets and maps
  in four layers, and but for `ConfirmedNotPending` its properties hold only for blocks
  that keep the conditions of the run (`RegularOps`).

## What is not modelled

- Checks that a payload alone decides, signatures, proof of possession and the BLS
  library: a signature is the key that made it.
- The masternode model and the chain state are not composed: a block of `MNBlock` is
  given by transactions whose inputs exist. Reorganisations of `MNBlock`'s own state:
  disconnecting a block replaces the list by an earlier one, which `MNManager` models.
- Missed-session penalties (`ProcessQuorumSession`), which only tests call.
- InstantSend, signing and key generation. Contributions, complaints and commitments are
  sent by tests only, so that the node has no secret share, `AsyncSign` returns before it
  signs, and recovery, which comes after it, is not reached: the shares that
  `ProcessSigShare` stores are not read, and no node can sign the locks that
  `ProcessInstantSendLock` accepts. A model would be of a protocol that the code does not
  run yet. What `ProcessSigShare` records as the message is a function of the context, so
  that no equivocation is found in it; the penalty of one is modelled.
- Of `Assets`: owner tokens, balances, transfers, qualifiers, restrictions, verifier
  strings, unique assets and message channels, which are further sets handled like
  the ones modelled; heights and block hashes of assets; the copies `VerifyDB` makes;
  amounts that are not multiples of a unit; a crash inside of a flush.
- Of the chain state: block checks, pruning, `VerifyDB`, the choice of the best chain
  (any child of the tip may connect), and writes that fail.
- A power failure that loses writes the operating system has not made yet, except for the
  block index and undo data of `ChainState`: a crash is that of the process.
- Monitoring and RPC, which read; mempool, wallet and network, which are the environment
  of the modules. Most of the repository's lines are these, the libraries it carries
  with it, tests and the graphical interface.

## Plan

1. An abstract specification of the list manager (a function from blocks to lists) that
   `MNManager` refines where the cache is not crowded. The invariants proved of it are what
   such a refinement needs.
2. Owner tokens and balances in `Assets`, and its composition with `ChainState`, for a
   crash between the two databases.
3. Proofs about `Assets`, beginning with `DatabaseExact`.
