-------------------------------- MODULE PoSe --------------------------------
(***************************************************************************)
(* CPoSeManager (src/src/evo/pose.cpp) under CDeterministicMNManager::     *)
(* ProcessBlock and UndoSpecialTxsInBlock: the penalties in memory and in  *)
(* the evolution database, the undo data of a block, reorganisations, and  *)
(* restarts of the node.                                                   *)
(*                                                                         *)
(* The masternode list is reduced to what PoSe reads and writes of it: the *)
(* height at which each of a fixed set of masternodes was banned.  There   *)
(* is one block per height; what a block does besides PoSe is left to      *)
(* MNBlock.  ProcessBlock holds the manager's lock, but a penalty comes    *)
(* from another thread that takes the lock of the PoSe manager only, so    *)
(* the calls ProcessBlock makes to it are steps of their own.  No caller   *)
(* outside the tests reports quorum sessions, so a penalty state is its    *)
(* score: missedSessions and lastProcessedHeight stay 0.                   *)
(***************************************************************************)
EXTENDS Integers, FiniteSets, FiniteSetsExt

CONSTANTS
  MNs,                  \* the masternodes
  nPoSeBanThreshold,
  nPoSeRevivalHeight,
  MAX_UNDO_HISTORY,
  MaxHeight,            \* bound: height of the chain
  MaxIncrements,        \* bound: penalties
  MaxReorgs,            \* bound: disconnected blocks
  MaxRestarts,          \* bound: crashes and shutdowns
  MaxFailures           \* bound: blocks that fail late

ASSUME PoSeConstants ==
  /\ nPoSeBanThreshold \in Nat \ {0}
  /\ nPoSeRevivalHeight \in Nat \ {0}
  /\ MAX_UNDO_HISTORY \in Nat \ {0}
  /\ {MaxHeight, MaxIncrements, MaxReorgs, MaxRestarts, MaxFailures} \subseteq Nat

VARIABLES
  stateMap, undoEntries, fDirty,    \* the PoSe manager's memory
  dbState, dbUndo, dbList,          \* the evolution database
  height, flushed,                  \* the chain, in memory and on disk
  pc, goal, h, list,                \* ProcessBlock, and the list it is for
  affected, toRevive,
  before, hit, first, top, total,   \* history, for the properties
  used                              \* how much of each bound is used

mem  == <<stateMap, undoEntries, fDirty>>
db   == <<dbState, dbUndo, dbList>>
proc == <<pc, goal, h, list, affected, toRevive>>
hist == <<before, hit, first, top, total>>
vars == <<mem, db, height, flushed, proc, hist, used>>

-----------------------------------------------------------------------------
(* Partial functions *)

EmptyMap == [x \in {} |-> x]
Put(m, k, v)   == [x \in (DOMAIN m) \cup {k} |-> IF x = k THEN v ELSE m[x]]
Erase(m, D)    == [x \in (DOMAIN m) \ D |-> m[x]]
Override(m, n) == [x \in (DOMAIN m) \cup (DOMAIN n) |->
                     IF x \in DOMAIN n THEN n[x] ELSE m[x]]

Score(m, p) == IF p \in DOMAIN m THEN m[p] ELSE 0

NotBanned == -1
NoBans    == [p \in MNs |-> NotBanned]

\* A list is on disk; the one before the first block is empty.
HasList(k) == k = 0 \/ k \in DOMAIN dbList
ListAt(k)  == IF k = 0 THEN NoBans ELSE dbList[k]

Spend(what, bound) == used[what] < bound /\ used' = [used EXCEPT ![what] = @ + 1]

Init ==
  /\ stateMap = EmptyMap /\ undoEntries = EmptyMap /\ fDirty = FALSE
  /\ dbState = EmptyMap /\ dbUndo = EmptyMap /\ dbList = EmptyMap
  /\ height = 0 /\ flushed = 0
  /\ pc = "idle" /\ goal = 0 /\ h = 0 /\ list = NoBans
  /\ affected = {} /\ toRevive = {}
  /\ before = EmptyMap /\ hit = EmptyMap /\ first = EmptyMap /\ top = 0
  /\ total = [p \in MNs |-> 0]
  /\ used = [w \in {"penalty", "reorg", "restart", "failure"} |-> 0]

-----------------------------------------------------------------------------
(* The PoSe manager *)

\* IncrementPenalty, called when an equivocation is detected.
IncrementPenalty(p) ==
  /\ Spend("penalty", MaxIncrements)
  /\ stateMap' = Put(stateMap, p, Score(stateMap, p) + nPoSeBanThreshold)
  /\ fDirty' = TRUE
  /\ hit' = [k \in DOMAIN hit |-> hit[k] \cup {p}]
  /\ first' = EmptyMap
  /\ total' = [total EXCEPT ![p] = @ + nPoSeBanThreshold]
  /\ UNCHANGED <<undoEntries, db, height, flushed, proc, before, top>>

\* Flush of the states, as part of the transaction that saves the list or at
\* shutdown.  A state that is not in memory is not erased.
Flushed == IF fDirty THEN Override(dbState, stateMap) ELSE dbState

\* Mutant of PrepareUndo: nothing is ever trimmed.
PrepareUndo_NoTrim(k, S) ==
  LET entry == [p \in S |-> Score(stateMap, p)]
  IN  undoEntries' = Put(undoEntries, k, entry) /\ dbUndo' = Put(dbUndo, k, entry)

\* PrepareUndo for the masternodes of S at height k; the oldest heights go
\* when there are more than MAX_UNDO_HISTORY.
PrepareUndo(k, S) ==
  LET entries == Put(undoEntries, k, [p \in S |-> Score(stateMap, p)])
      heights == DOMAIN entries
      old == { x \in heights :
                 Cardinality({ y \in heights : y >= x }) > MAX_UNDO_HISTORY }
  IN  /\ undoEntries' = Erase(entries, old)
      /\ dbUndo' = Erase(Put(dbUndo, k, entries[k]), old)

\* Mutant of ResetPenalty: the erase reaches the database only.
ResetPenalty_DbOnly(p) ==
  IF p \in DOMAIN stateMap
  THEN /\ dbState' = Erase(dbState, {p})
       /\ fDirty' = FALSE
       /\ UNCHANGED stateMap
  ELSE UNCHANGED <<stateMap, dbState, fDirty>>

\* The erase is written at once, outside any transaction.
ResetPenalty(p) ==
  IF p \in DOMAIN stateMap
  THEN /\ dbState' = Erase(dbState, {p})
       /\ stateMap' = Erase(stateMap, {p})
       /\ fDirty' = FALSE
  ELSE UNCHANGED <<stateMap, dbState, fDirty>>

\* Mutant of Restored: the recorded score is added to the one there is.
Restored_Adds(m, entries) ==
  Override(m, [p \in { q \in DOMAIN entries : entries[q] > 0 }
                 |-> entries[p] + Score(m, p)])

\* Mutant of Restored: a score of a masternode that had none stays.
Restored_KeepsNew(m, entries) ==
  Override(m, [p \in { q \in DOMAIN entries : entries[q] > 0 /\ q \in DOMAIN m }
                 |-> entries[p]])

\* m with the recorded scores; a recorded 0 stands for no state.
Restored(m, entries) ==
  Override(Erase(m, DOMAIN entries),
           [p \in { q \in DOMAIN entries : entries[q] > 0 } |-> entries[p]])

\* CPoSeManager::UndoBlock: the entries come from memory or from the database;
\* with none nothing happens, and the caller does not look at the result.
UndoBlock(k) ==
  LET entries == IF k \in DOMAIN undoEntries THEN undoEntries[k]
                 ELSE IF k \in DOMAIN dbUndo THEN dbUndo[k] ELSE EmptyMap
  IN  /\ stateMap' = Restored(stateMap, entries)
      /\ dbState' = Restored(dbState, entries)
      /\ undoEntries' = Erase(undoEntries, {k})
      /\ dbUndo' = Erase(dbUndo, {k})

-----------------------------------------------------------------------------
(* ProcessBlock *)

Revivable(l, k) ==
  { p \in MNs : l[p] # NotBanned /\ k - l[p] >= nPoSeRevivalHeight }

\* Mutant of Affected: only masternodes that are not banned yet.
Affected_PenaltiesOfTheListed(l, k) ==
  { p \in DOMAIN stateMap : stateMap[p] > 0 /\ l[p] = NotBanned }

\* Those with a penalty (GetAllPenalties), and those due for revival.
Affected(l, k) ==
  { p \in DOMAIN stateMap : stateMap[p] > 0 } \cup Revivable(l, k)

CheckAndPunish(l, k) ==
  [p \in MNs |-> IF l[p] = NotBanned /\ Score(stateMap, p) >= nPoSeBanThreshold
                 THEN k ELSE l[p]]

\* A block arrives that extends the chain.
Connect ==
  /\ pc = "idle"
  /\ height < MaxHeight
  /\ pc' = "next"
  /\ goal' = height + 1
  /\ UNCHANGED <<mem, db, height, flushed, h, list, affected, toRevive, hist, used>>

\* GetListForBlock finds the list of the parent, or replays blocks from the
\* nearest list there is; either way ProcessBlock starts on the block above
\* that list, and collects whose penalty it may change.
BeginBlock ==
  /\ pc = "next"
  /\ h' = Max({ k \in 0 .. goal - 1 : HasList(k) }) + 1
  /\ list' = ListAt(h' - 1)
  /\ affected' = Affected(list', h')
  /\ pc' = "undo"
  /\ before' = Put(before, h', stateMap)
  /\ hit' = Put(hit, h', {})
  /\ top' = Max({top, h'})
  /\ UNCHANGED <<mem, db, height, flushed, goal, toRevive, first, total, used>>

RecordUndo ==
  /\ pc = "undo"
  /\ IF affected # {} THEN PrepareUndo(h, affected)
                      ELSE UNCHANGED <<undoEntries, dbUndo>>
  /\ pc' = "punish"
  /\ UNCHANGED <<stateMap, fDirty, dbState, dbList, height, flushed, goal, h, list,
                 affected, toRevive, hist, used>>

Punish ==
  /\ pc = "punish"
  /\ list' = CheckAndPunish(list, h)
  /\ toRevive' = Revivable(list', h)
  /\ pc' = "revive"
  /\ UNCHANGED <<mem, db, height, flushed, goal, h, affected, hist, used>>

ReviveOne(p) ==
  /\ pc = "revive"
  /\ toRevive' = toRevive \ {p}
  /\ list' = [list EXCEPT ![p] = NotBanned]
  /\ ResetPenalty(p)
  /\ UNCHANGED <<undoEntries, dbUndo, dbList, height, flushed, pc, goal, h, affected,
                 hist, used>>

\* The transaction: list and penalties.  The block is connected if it is the
\* one that was asked for; otherwise the replay goes on.
Commit ==
  /\ pc = "revive"
  /\ toRevive = {}
  /\ dbList' = Put(dbList, h, list)
  /\ dbState' = Flushed
  /\ fDirty' = FALSE
  /\ pc' = IF h = goal THEN "idle" ELSE "next"
  /\ height' = IF h = goal THEN goal ELSE height
  /\ first' = IF h \notin DOMAIN first /\ \A k \in 1 .. h : k \in DOMAIN hit /\ hit[k] = {}
               THEN Put(first, h, [list |-> list, scores |-> before[h]]) ELSE first
  /\ UNCHANGED <<stateMap, undoEntries, dbUndo, flushed, goal, h, list, affected,
                 toRevive, before, hit, top, total,
                 used>>

\* ConnectBlock fails after ProcessSpecialTxsInBlock: the list is saved under
\* the hash of a block that will not be connected, the rest stays as it is.
FailLate ==
  /\ pc = "revive"
  /\ toRevive = {}
  /\ h = height + 1
  /\ Spend("failure", MaxFailures)
  /\ dbState' = Flushed
  /\ fDirty' = FALSE
  /\ pc' = "idle"
  /\ UNCHANGED <<stateMap, undoEntries, dbUndo, dbList, height, flushed, goal, h,
                 list, affected, toRevive, hist>>

\* DisconnectTip: UndoSpecialTxsInBlock, which restores the penalties, erases
\* the list and looks up (or rebuilds) the one below.
Disconnect ==
  /\ pc = "idle"
  /\ height > 0
  /\ Spend("reorg", MaxReorgs)
  /\ UndoBlock(height)
  /\ dbList' = Erase(dbList, {height})
  /\ height' = height - 1
  /\ goal' = height - 1
  /\ pc' = IF HasList(height - 1) THEN "idle" ELSE "next"
  /\ before' = Erase(before, {height})
  /\ hit' = Erase(hit, {height})
  /\ first' = IF height > top - MAX_UNDO_HISTORY THEN first ELSE EmptyMap
  /\ UNCHANGED <<fDirty, flushed, h, list, affected, toRevive, top, total>>

\* FlushStateToDisk writes the chain state, from time to time.  It matters to
\* a restart only.
FlushStateToDisk ==
  /\ pc = "idle"
  /\ used["restart"] < MaxRestarts
  /\ flushed # height
  /\ flushed' = height
  /\ UNCHANGED <<mem, db, height, proc, hist, used>>

\* InitPoSe: the states are loaded, the undo data stays in the database
\* because lastProcessedHeight is 0.
Restart(states) ==
  /\ Spend("restart", MaxRestarts)
  /\ stateMap' = states /\ undoEntries' = EmptyMap /\ fDirty' = FALSE
  /\ dbState' = states
  /\ height' = flushed'
  /\ pc' = "idle" /\ goal' = 0 /\ h' = 0 /\ list' = NoBans
  /\ affected' = {} /\ toRevive' = {}
  /\ before' = EmptyMap /\ hit' = EmptyMap /\ first' = EmptyMap
  /\ UNCHANGED <<dbUndo, dbList, top, total>>

\* The process dies; the chain is back where it was last flushed.
Crash == UNCHANGED flushed /\ Restart(dbState)

\* StopPoSe flushes, and the chain state is flushed too.
Shutdown == pc = "idle" /\ flushed' = height /\ Restart(Flushed)

Stop == pc = "idle" /\ height = MaxHeight /\ UNCHANGED vars

Next ==
  \/ \E p \in MNs : IncrementPenalty(p)
  \/ Connect
  \/ BeginBlock
  \/ RecordUndo
  \/ Punish
  \/ \E p \in toRevive : ReviveOne(p)
  \/ Commit
  \/ FailLate
  \/ Disconnect
  \/ FlushStateToDisk
  \/ Crash
  \/ Shutdown
  \/ Stop

Spec == Init /\ [][Next]_vars

-----------------------------------------------------------------------------
(* Properties *)

IsScores(m) == DOMAIN m \subseteq MNs /\ \A p \in DOMAIN m : m[p] \in Nat \ {0}
IsUndo(m) == /\ DOMAIN m \subseteq 1 .. MaxHeight
             /\ \A k \in DOMAIN m :
                  /\ DOMAIN m[k] \subseteq MNs
                  /\ \A p \in DOMAIN m[k] : m[k][p] \in Nat
IsBans(l) == DOMAIN l = MNs /\ \A p \in MNs : l[p] \in -1 .. MaxHeight

\* The types of the state; the undo data in memory stays within
\* MAX_UNDO_HISTORY blocks (the loop that ends PrepareUndo), and is on disk
\* too.
TypeOK ==
  /\ IsScores(stateMap) /\ IsScores(dbState)
  /\ IsUndo(undoEntries) /\ IsUndo(dbUndo)
  /\ Cardinality(DOMAIN undoEntries) <= MAX_UNDO_HISTORY
  /\ \A k \in DOMAIN undoEntries : k \in DOMAIN dbUndo /\ dbUndo[k] = undoEntries[k]
  /\ fDirty \in BOOLEAN
  /\ DOMAIN dbList \subseteq 1 .. MaxHeight /\ \A k \in DOMAIN dbList : IsBans(dbList[k])
  /\ {height, flushed, goal, h, top} \subseteq 0 .. MaxHeight
  /\ pc \in {"idle", "next", "undo", "punish", "revive"}
  /\ IsBans(list) /\ affected \subseteq MNs /\ toRevive \subseteq MNs

\* No block failed late and the node was not restarted: either can leave the
\* undo data of one block to be found by another of the same height.
Undisturbed == used["failure"] = 0 /\ used["restart"] = 0

\* Disconnecting a block gives every masternode the score it had when the
\* block was begun, unless it was penalised since: whatever was connected and
\* disconnected in between, as long as the block is within MAX_UNDO_HISTORY
\* of the highest one seen (PrepareUndo, UndoBlock).
UndoRestores ==
  [][ Disconnect /\ Undisturbed /\ height > top - MAX_UNDO_HISTORY
        => \A p \in MNs \ hit[height] :
             Score(stateMap', p) = Score(before[height], p) ]_vars

\* A masternode revived by a block is not banned by the next one unless it
\* was penalised since the first block was begun: ResetPenalty leaves no
\* score behind that CheckAndPunish would act on.
RevivalSticks ==
  \A k \in DOMAIN dbList, p \in MNs :
    /\ HasList(k - 1) /\ HasList(k + 1)
    /\ ListAt(k - 1)[p] # NotBanned /\ dbList[k][p] = NotBanned
    /\ Undisturbed /\ p \notin hit[k]
    => ListAt(k + 1)[p] = NotBanned

\* A block that is disconnected and connected again gets the list it had the
\* first time, if nobody was penalised since the chain below it was begun and
\* no block was disconnected whose undo data was gone: the penalties that
\* UndoBlock restores are the ones the list was computed from.
SameListAgain ==
  [][ Undisturbed => \A k \in (DOMAIN dbList') \cap (DOMAIN first) :
                       dbList'[k] = first[k].list ]_vars

\* No masternode has, in memory, on disk or in undo data, more than the
\* penalties it was given, and none is banned that was given none: reorgs,
\* replays, failed blocks and restarts never count a penalty twice, whatever
\* undo data they find.
PenaltiesAccounted ==
  \A p \in MNs :
    /\ Score(stateMap, p) <= total[p] /\ Score(dbState, p) <= total[p]
    /\ \A k \in DOMAIN dbUndo : Score(dbUndo[k], p) <= total[p]
    /\ total[p] = 0 => \A k \in DOMAIN dbList : dbList[k][p] = NotBanned

=============================================================================
