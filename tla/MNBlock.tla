------------------------------ MODULE MNBlock -------------------------------
(***************************************************************************)
(* The masternode list along one growing chain.  A block is checked        *)
(* transaction by transaction (ProcessSpecialTxsInBlock in providertx.cpp) *)
(* and then applied transaction by transaction to a copy of the previous   *)
(* list (CDeterministicMNManager::ProcessBlock), which replaces it at the  *)
(* end.  A block that fails on the way leaves the list as it was.          *)
(*                                                                         *)
(* Both loops run under cs_main, so no other block is looked at while pc   *)
(* is not "idle".  Each iteration is a step of its own; the one thing that *)
(* can happen in between is a penalty, which the thread that detects an    *)
(* equivocation adds under the lock of the PoSe manager only.              *)
(***************************************************************************)
EXTENDS ProviderTx

CONSTANTS
  MaxHeight,      \* bound: the chain stops growing here
  MaxBlockTxs,    \* bound: transactions in a block
  MaxPenalty      \* bound: penalty score of a masternode

ASSUME MNBlockConstants ==
  MaxHeight \in Nat /\ MaxBlockTxs \in Nat /\ MaxPenalty \in Nat

VARIABLES
  tip,      \* the list after the last connected block
  spent,    \* outpoints spent by the connected blocks
  mined,    \* ids of the transactions in the connected blocks
  score,    \* PoSe penalties: proTxHash -> score, where there is one
  pc,       \* "idle", "check" (first loop) or "apply" (second loop)
  block,    \* the block being processed
  i,        \* index of the next transaction in it
  intra,    \* intraBlockList
  new       \* newList

vars == <<tip, spent, mined, score, pc, block, i, intra, new>>

height == tip.nHeight + 1

Init ==
  /\ tip = EmptyList(0)
  /\ spent = {}
  /\ mined = {}
  /\ score = EmptyMap
  /\ pc = "idle"
  /\ block = <<>>
  /\ i = 1
  /\ intra = EmptyList(0)
  /\ new = EmptyList(0)

\* The masternodes the chain has registered, listed or not.
EverRegistered == { t.id : t \in { u \in Txs : u.type = "ProReg" /\ u.id \in mined } }

\* A block that is valid as far as masternodes are not concerned: new
\* transactions whose inputs exist and are spent once.
OrdinaryBlock(b) ==
  /\ \A k \in 1 .. Len(b) : /\ b[k].id \notin mined
                            /\ \A o \in b[k].spends : ~CoinIsSpent(o, spent, height - 1)
  /\ \A k, l \in 1 .. Len(b) :
       k # l => b[k].id # b[l].id /\ b[k].spends \cap b[l].spends = {}

Blocks == UNION { [1 .. n -> Txs] : n \in 0 .. MaxBlockTxs }

\* Back to waiting for a block.
Idle ==
  /\ pc' = "idle"
  /\ block' = <<>>
  /\ i' = 1
  /\ intra' = EmptyList(0)
  /\ new' = EmptyList(0)

BeginBlock ==
  /\ pc = "idle"
  /\ height <= MaxHeight
  /\ \E b \in Blocks :
       /\ OrdinaryBlock(b)
       /\ SpecialTxCountOK(b, height)
       /\ block' = b
  /\ pc' = "check"
  /\ i' = 1
  /\ intra' = EmptyList(height)
  /\ UNCHANGED <<tip, spent, mined, score, new>>

CheckTx ==
  /\ pc = "check"
  /\ i <= Len(block)
  /\ CheckSpecialTx(block[i], tip, intra, spent)
  /\ intra' = IntraBlockAdd(intra, block[i], spent, height)
  /\ i' = i + 1
  /\ UNCHANGED <<tip, spent, mined, score, pc, block, new>>

RejectTx ==
  /\ pc = "check"
  /\ i <= Len(block)
  /\ ~CheckSpecialTx(block[i], tip, intra, spent)
  /\ Idle
  /\ UNCHANGED <<tip, spent, mined, score>>

StartApply ==
  /\ pc = "check"
  /\ i > Len(block)
  /\ pc' = "apply"
  /\ i' = 1
  /\ new' = StartList(tip, block)
  /\ UNCHANGED <<tip, spent, mined, score, block, intra>>

ApplyOne ==
  /\ pc = "apply"
  /\ i <= Len(block)
  /\ CanApplyTx(new, block[i])
  /\ new' = ApplyTx(new, block[i], spent, height)
  /\ i' = i + 1
  /\ UNCHANGED <<tip, spent, mined, score, pc, block, intra>>

\* ProcessBlock returns false ("bad-protx-hash") and the block is rejected.
FailApply ==
  /\ pc = "apply"
  /\ i <= Len(block)
  /\ ~CanApplyTx(new, block[i])
  /\ Idle
  /\ UNCHANGED <<tip, spent, mined, score>>

\* The rest of ProcessBlock; revivals also reset the penalty (ResetPenalty).
\* ConnectBlock then spends the inputs.
CommitBlock ==
  /\ pc = "apply"
  /\ i > Len(block)
  /\ tip' = FinishList(new, tip, block, spent, score, tip.nHeight)
  /\ score' = Erase(score, RevivedMNs(new, tip, block, spent, score, tip.nHeight))
  /\ spent' = spent \cup SpentBy(block)
  /\ mined' = mined \cup { block[k].id : k \in 1 .. Len(block) }
  /\ Idle

\* ConnectEquivocationToPoSe: a detected equivocation adds the ban threshold
\* to the penalty of a masternode, at any time.
IncrementPenalty(p) ==
  /\ LET old == IF p \in DOMAIN score THEN score[p] ELSE 0
     IN  /\ old + nPoSeBanThreshold <= MaxPenalty
         /\ score' = Put(score, {p}, old + nPoSeBanThreshold)
  /\ UNCHANGED <<tip, spent, mined, pc, block, i, intra, new>>

\* The bound on the height is reached.
Stop == pc = "idle" /\ height > MaxHeight /\ UNCHANGED vars

Next ==
  \/ BeginBlock
  \/ CheckTx
  \/ RejectTx
  \/ StartApply
  \/ ApplyOne
  \/ FailApply
  \/ CommitBlock
  \/ \E p \in EverRegistered : IncrementPenalty(p)
  \/ Stop

Spec == Init /\ [][Next]_vars

-----------------------------------------------------------------------------
(* Properties *)

\* Every variable holds a value of its kind; in particular every list is one.
TypeOK ==
  /\ IsMNList(tip) /\ IsMNList(new) /\ IsMNList(intra)
  /\ spent \subseteq Outpoints
  /\ mined \subseteq TxIds
  /\ IsMap(score, TxIds, Nat)
  /\ pc \in {"idle", "check", "apply"}
  /\ block \in Seq(Txs)
  /\ i \in Nat \ {0}

\* No orphan index entries: in the committed list, in the list ProcessBlock is
\* building and in intraBlockList, every entry of mnUniquePropertyMap names a
\* listed masternode that has the property.  HasUniqueProperty takes an entry
\* for a live owner, so an orphan would block an address or a key for good.
IndexSound ==
  SoundIndex(tip) /\ SoundIndex(new) /\ SoundIndex(intra)

\* From the migration on, every masternode is found by its collateral and by
\* its owner key, so no two share one: GetMNByCollateral is how ProcessBlock
\* notices that a collateral is spent.  (Before the intra-block checks were
\* enforced one block could register a collateral twice.)
CollateralIndexed ==
  tip.nHeight >= nMNv2MigrationHeight =>
    CompleteIndex(tip, "utxo") /\ CompleteIndex(tip, "key")

\* From the migration on, a masternode is listed only while its collateral is
\* unspent: the two passes of ProcessBlock remove it in the very block that
\* spends the collateral, whether it was listed before or is registered by the
\* same block.  The migration block itself skips both passes.
CollateralUnspent ==
  tip.nHeight >= nMNv2MigrationHeight =>
    \A p \in DOMAIN tip.mnMap :
      \/ tip.mnMap[p].nRegisteredHeight = nMNv2MigrationHeight
      \/ tip.mnMap[p].collateralOutpoint \notin spent

\* The properties a transaction asks for.
Claims(tx) ==
  CASE tx.type = "ProReg"    -> RegProps(tx) \cup {<<"utxo", tx.collateralOutpoint>>}
    [] tx.type = "ProUpServ" -> {<<"addr", tx.addr>>}
    [] tx.type = "ProUpReg"  -> {<<"voting", tx.keyIDVoting>>,
                                 <<"operator", tx.vchOperatorPubKey>>}
    [] OTHER -> {}

\* A registration follows, in the same block, a transaction that asks for one
\* of its properties.
ClaimedTwice(b) ==
  \E k, l \in 1 .. Len(b) :
    k < l /\ b[l].type = "ProReg" /\ Claims(b[k]) \cap Claims(b[l]) # {}

AllIndexed(l) ==
  \A k \in {"utxo", "addr", "key", "voting", "operator"} : CompleteIndex(l, k)

\* A block keeps all five properties unique unless one of its registrations
\* follows another claim to the same property in that block: conflicts between
\* blocks are caught by CheckSpecialTx, conflicts of two updates by UpdateMN.
UniquenessKept ==
  [][ AllIndexed(tip) /\ ~ClaimedTwice(block) => AllIndexed(tip') ]_tip

\* Once the chain has listed a masternode as revoked for a reason, no block
\* changes the reason or lifts the ban: not a second revocation, not a change
\* of the operator key, not a revival.
RevocationHolds ==
  [][ \A p \in DOMAIN tip.mnMap \cap DOMAIN tip'.mnMap :
        tip.mnMap[p].nRevocationReason # 0 =>
          /\ tip'.mnMap[p].nRevocationReason = tip.mnMap[p].nRevocationReason
          /\ IsBanned(tip'.mnMap[p]) ]_tip

\* The masternodes the revocations in a set of transactions are of.
RevokedBy(txs) == { t.proTxHash : t \in { u \in txs : u.type = "ProUpRev" } }

\* The masternodes the chain has revoked.
EverRevoked == RevokedBy({ t \in Txs : t.id \in mined })

\* The ban of a masternode the chain never revoked is for its penalties, and
\* ends on time: ProcessBlock leaves no list with one that is of a later block
\* or nPoSeRevivalHeight blocks old.
RevivalOnTime ==
  \A p \in DOMAIN tip.mnMap \ EverRevoked :
    IsBanned(tip.mnMap[p]) =>
      /\ tip.mnMap[p].nPoSeBanHeight <= tip.nHeight
      /\ tip.nHeight - tip.mnMap[p].nPoSeBanHeight < nPoSeRevivalHeight

\* What the comment above the PoSe reset in ProcessBlock says: revocation is
\* permanent.  A listed masternode the chain has revoked is banned.
RevocationPermanent ==
  \A p \in DOMAIN tip.mnMap \cap EverRevoked : IsBanned(tip.mnMap[p])

-----------------------------------------------------------------------------
(* The inductive invariant: what the two loops know on the way. *)

\* The checked registrations of the block, by their index in it.
CheckedRegs ==
  { k \in 1 .. Len(block) : /\ block[k].type = "ProReg"
                            /\ pc = "check" => k < i }

\* A transaction is mined once, and a masternode is listed under the hash of
\* the mined transaction that registered it.
IdsInv ==
  /\ DOMAIN tip.mnMap \subseteq mined
  /\ pc # "idle" =>
       /\ i <= Len(block) + 1
       /\ \A k \in 1 .. Len(block) : block[k].id \notin mined
       /\ \A k, l \in 1 .. Len(block) : k # l => block[k].id # block[l].id

\* intraBlockList holds the checked registrations, found by collateral and
\* owner key where the intra-block checks are enforced.
IntraInv ==
  pc = "check" =>
    /\ DOMAIN intra.mnMap = { block[k].id : k \in CheckedRegs }
    /\ \A k \in CheckedRegs :
         LET mn == intra.mnMap[block[k].id]
         IN  /\ mn.collateralOutpoint = block[k].collateralOutpoint
             /\ mn.keyIDOwner = block[k].keyIDOwner
    /\ IntraBlockEnforced(height) =>
         CompleteIndex(intra, "utxo") /\ CompleteIndex(intra, "key")

\* The collateral of a checked registration is unspent, and where the
\* intra-block checks are enforced no two have the collateral or the owner key
\* in common.
RegsInv ==
  pc # "idle" =>
    \A k \in CheckedRegs :
      /\ block[k].collateralOutpoint \notin spent
      /\ ~HasUniqueProperty(tip, <<"utxo", block[k].collateralOutpoint>>)
      /\ ~HasUniqueProperty(tip, <<"key", block[k].keyIDOwner>>)
      /\ IntraBlockEnforced(height) =>
           \A l \in CheckedRegs \ {k} :
             /\ block[k].collateralOutpoint # block[l].collateralOutpoint
             /\ block[k].keyIDOwner # block[l].keyIDOwner

\* mn is masternode p of the list l, with the same collateral and owner.
FromList(l, p, mn) ==
  /\ HasMN(l, p)
  /\ mn.collateralOutpoint = l.mnMap[p].collateralOutpoint
  /\ mn.keyIDOwner = l.mnMap[p].keyIDOwner
  /\ mn.nRegisteredHeight = l.mnMap[p].nRegisteredHeight

\* mn is masternode p, registered in block b at height h before transaction n.
FromBlock(b, h, p, mn, n) ==
  \E k \in 1 .. Len(b) :
    /\ k < n
    /\ b[k].type = "ProReg"
    /\ b[k].id = p
    /\ mn.collateralOutpoint = b[k].collateralOutpoint
    /\ mn.keyIDOwner = b[k].keyIDOwner
    /\ mn.nRegisteredHeight = h

\* A masternode of the list under construction is one of the previous list or
\* one the block has registered, and has kept its collateral and owner.
OriginInv ==
  pc = "apply" =>
    /\ new.nHeight = height
    /\ \A p \in DOMAIN new.mnMap :
         \/ ~IsMigrationBlock(height) /\ FromList(tip, p, new.mnMap[p])
         \/ FromBlock(block, height, p, new.mnMap[p], i)

NewIndexed ==
  pc = "apply" /\ height >= nMNv2MigrationHeight =>
    CompleteIndex(new, "utxo") /\ CompleteIndex(new, "key")

\* A masternode revoked for a reason is banned, and a checked revocation is of
\* one that is not; the loop keeps the reasons the previous list has.
RevokedInv ==
  /\ \A p \in DOMAIN tip.mnMap :
       tip.mnMap[p].nRevocationReason # 0 => IsBanned(tip.mnMap[p])
  /\ pc # "idle" =>
       \A k \in 1 .. Len(block) :
         block[k].type = "ProUpRev" /\ (pc = "check" => k < i) =>
           /\ HasMN(tip, block[k].proTxHash)
           /\ ~IsBanned(tip.mnMap[block[k].proTxHash])
  /\ pc = "apply" =>
       \A p \in DOMAIN new.mnMap :
         /\ new.mnMap[p].nRevocationReason # 0 => IsBanned(new.mnMap[p])
         /\ HasMN(tip, p) /\ tip.mnMap[p].nRevocationReason # 0 =>
              new.mnMap[p].nRevocationReason = tip.mnMap[p].nRevocationReason

IInv ==
  /\ TypeOK /\ IndexSound /\ IdsInv /\ IntraInv /\ RegsInv /\ OriginInv
  /\ NewIndexed /\ CollateralIndexed /\ CollateralUnspent /\ RevokedInv

=============================================================================
