----------------------------- MODULE ProviderTx -----------------------------
(***************************************************************************)
(* The provider transactions of a block (src/src/evo/providertx.cpp) and   *)
(* what CDeterministicMNManager::ProcessBlock (deterministicmns.cpp) makes *)
(* of them: the checks a transaction has to pass, its effect on the list   *)
(* under construction, and what happens to the list before the first and   *)
(* after the last transaction.  Operators only; MNBlock turns them into a  *)
(* state machine.                                                          *)
(*                                                                         *)
(* A transaction is a record with an id, a type, the outpoints it spends   *)
(* and its payload.  Checks that look at the payload alone (versions, key  *)
(* and script formats, proof of possession, inputs hash, port, routable    *)
(* address) are left out: a transaction that fails one is never in a block *)
(* that connects.  A signature is modelled by the key that made it.        *)
(***************************************************************************)
EXTENDS MNList, Sequences

CONSTANTS
  Txs,                     \* the transactions blocks are made of
  NoKey,                   \* empty operator key / null voting key: no change
  CoinAmount,              \* outpoint -> tier its amount stands for, 0: none
  CoinHeight,              \* outpoint -> height of the block creating it
  nMasternodeActivationHeight,
  nTieredMNActivationHeight,
  nMNv2MigrationHeight,
  nProUpServCooldown,
  nProUpRegCooldown,
  nPoSeBanThreshold,
  nPoSeRevivalHeight,
  MAX_SPECIAL_TXS_PER_BLOCK

ProRegTxs ==
  [ type : {"ProReg"}, id : TxIds, spends : SUBSET Outpoints,
    collateralOutpoint : Outpoints, addr : Addrs, keyIDOwner : Keys,
    keyIDVoting : Keys, vchOperatorPubKey : Keys ]
ProUpServTxs ==
  [ type : {"ProUpServ"}, id : TxIds, spends : SUBSET Outpoints,
    proTxHash : TxIds, addr : Addrs, signer : Keys ]
ProUpRegTxs ==
  [ type : {"ProUpReg"}, id : TxIds, spends : SUBSET Outpoints,
    proTxHash : TxIds, vchOperatorPubKey : Keys \cup {NoKey},
    keyIDVoting : Keys \cup {NoKey}, signer : Keys ]
ProUpRevTxs ==
  [ type : {"ProUpRev"}, id : TxIds, spends : SUBSET Outpoints,
    proTxHash : TxIds, nReason : 0 .. 3, signer : Keys ]
\* verifies: the hash, the signers and the signature of the commitment are good.
CommitmentTxs ==
  [ type : {"QuorumCommitment"}, id : TxIds, spends : SUBSET Outpoints,
    quorumHeight : Nat, verifies : BOOLEAN ]
\* An ordinary transaction, or a special one of a type the code does not know.
OtherTxs ==
  [ type : {"Other", "Unknown"}, id : TxIds, spends : SUBSET Outpoints ]

ASSUME ProviderTxConstants ==
  /\ Txs \subseteq ProRegTxs \cup ProUpServTxs \cup ProUpRegTxs
                    \cup ProUpRevTxs \cup CommitmentTxs \cup OtherTxs
  /\ \A t, u \in Txs : t.id = u.id => t = u
  /\ NoKey \notin Keys
  /\ CoinAmount \in [Outpoints -> 0 .. 3]
  /\ CoinHeight \in [Outpoints -> Nat]
  /\ nMasternodeActivationHeight \in Nat
  /\ nTieredMNActivationHeight \in Nat
  /\ nMNv2MigrationHeight \in Nat
  /\ nProUpServCooldown \in Nat
  /\ nProUpRegCooldown \in Nat
  /\ nPoSeBanThreshold \in Nat \ {0}
  /\ nPoSeRevivalHeight \in Nat
  /\ MAX_SPECIAL_TXS_PER_BLOCK \in Nat

\* chainparams.cpp gives both the same value on every network.
ASSUME MigrationHeights == nTieredMNActivationHeight <= nMNv2MigrationHeight

IsTxTypeSpecial(tx) == tx.type # "Other"

\* The transactions that change no masternode.
NotProvider(tx) == tx.type \in {"Other", "Unknown", "QuorumCommitment"}

\* The outpoints the transactions of a block (a sequence) spend.
SpentBy(block) == UNION { block[k].spends : k \in 1 .. Len(block) }

\* A coin of the view: spent by the chain, or not created yet at height h.
CoinIsSpent(o, spent, h) == o \in spent \/ CoinHeight[o] > h

GetMasternodeTier(amount, h) ==
  IF amount = 1 \/ h >= nTieredMNActivationHeight THEN amount ELSE 0

\* GetMasternodeTier of AccessCoin(o): a spent coin has amount -1, no tier.
TierOfCoin(o, spent, h) ==
  IF CoinIsSpent(o, spent, h - 1) THEN 0
                                  ELSE GetMasternodeTier(CoinAmount[o], h)

-----------------------------------------------------------------------------
(* The checks.  prev is the list after the previous block, intra the list  *)
(* of the registrations already seen in this block, spent the coins spent  *)
(* by the chain up to the previous block.                                  *)

RegProps(tx) ==
  { <<"addr", tx.addr>>, <<"key", tx.keyIDOwner>>,
    <<"voting", tx.keyIDVoting>>, <<"operator", tx.vchOperatorPubKey>> }

NoDuplicate(l, tx) ==
  /\ \A q \in RegProps(tx) : ~HasUniqueProperty(l, q)
  /\ GetMNByCollateral(l, tx.collateralOutpoint) = {}

IntraBlockEnforced(h) == h >= nTieredMNActivationHeight

\* Mutant of CheckProRegTx: no intra-block check.
CheckProRegTx_PrevOnly(tx, prev, intra, spent) ==
  LET h == prev.nHeight + 1
      o == tx.collateralOutpoint
  IN  /\ h >= nMasternodeActivationHeight
      /\ ~CoinIsSpent(o, spent, h - 1)
      /\ GetMasternodeTier(CoinAmount[o], h) # 0
      /\ h - CoinHeight[o] >= nMasternodeCollateralConfirmations
      /\ NoDuplicate(prev, tx)

CheckProRegTx(tx, prev, intra, spent) ==
  LET h == prev.nHeight + 1
      o == tx.collateralOutpoint
  IN  /\ h >= nMasternodeActivationHeight
      /\ ~CoinIsSpent(o, spent, h - 1)
      /\ GetMasternodeTier(CoinAmount[o], h) # 0
      /\ h - CoinHeight[o] >= nMasternodeCollateralConfirmations
      /\ NoDuplicate(prev, tx)
      /\ IntraBlockEnforced(h) => NoDuplicate(intra, tx)

\* True when no masternode but p is indexed under the address.
AddrFreeFor(l, p, a) ==
  HasUniqueProperty(l, <<"addr", a>>) => GetMNByService(l, a) = {p}

CoolingDown(last, h, cooldown) ==
  h >= nTieredMNActivationHeight /\ last > 0 /\ h - last < cooldown

CheckProUpServTx(tx, prev, intra) ==
  LET h  == prev.nHeight + 1
      p  == tx.proTxHash
      mn == prev.mnMap[p]
  IN  /\ HasMN(prev, p)
      /\ ~CoolingDown(mn.nLastServiceUpdateHeight, h, nProUpServCooldown)
      /\ AddrFreeFor(prev, p, tx.addr)
      /\ IntraBlockEnforced(h) => AddrFreeFor(intra, p, tx.addr)
      /\ tx.signer = mn.vchOperatorPubKey

\* The keys a ProUpRegTx asks for that the masternode does not have yet.
NewKeys(tx, mn) ==
  { q \in { <<"voting", tx.keyIDVoting>>, <<"operator", tx.vchOperatorPubKey>> } :
      q[2] # NoKey /\ q \notin PropsOf(mn) }

CheckProUpRegTx(tx, prev, intra) ==
  LET h  == prev.nHeight + 1
      mn == prev.mnMap[tx.proTxHash]
  IN  /\ HasMN(prev, tx.proTxHash)
      /\ ~CoolingDown(mn.nLastRegistrarUpdateHeight, h, nProUpRegCooldown)
      /\ tx.signer = mn.keyIDOwner
      /\ \A q \in NewKeys(tx, mn) :
           /\ ~HasUniqueProperty(prev, q)
           /\ IntraBlockEnforced(h) => ~HasUniqueProperty(intra, q)

CheckProUpRevTx(tx, prev) ==
  LET mn == prev.mnMap[tx.proTxHash]
  IN  /\ HasMN(prev, tx.proTxHash)
      /\ ~IsBanned(mn)
      /\ tx.signer = mn.vchOperatorPubKey

CheckQuorumCommitmentTx(tx, prev) ==
  tx.quorumHeight <= prev.nHeight /\ tx.verifies

\* A special transaction of an unknown type is refused.
CheckSpecialTx(tx, prev, intra, spent) ==
  \/ tx.type = "Other"
  \/ tx.type = "ProReg"    /\ CheckProRegTx(tx, prev, intra, spent)
  \/ tx.type = "ProUpServ" /\ CheckProUpServTx(tx, prev, intra)
  \/ tx.type = "ProUpReg"  /\ CheckProUpRegTx(tx, prev, intra)
  \/ tx.type = "ProUpRev"  /\ CheckProUpRevTx(tx, prev)
  \/ tx.type = "QuorumCommitment" /\ CheckQuorumCommitmentTx(tx, prev)

\* The limit on special transactions, from the migration height on.
SpecialTxCountOK(block, h) ==
  h >= nMNv2MigrationHeight =>
    Cardinality({ k \in 1 .. Len(block) : IsTxTypeSpecial(block[k]) })
      <= MAX_SPECIAL_TXS_PER_BLOCK

-----------------------------------------------------------------------------
(* The effect of a transaction on a list at height h. *)

RegisteredMN(tx, l, spent, h) ==
  [ collateralOutpoint |-> tx.collateralOutpoint,
    addr               |-> tx.addr,
    keyIDOwner         |-> tx.keyIDOwner,
    keyIDVoting        |-> tx.keyIDVoting,
    vchOperatorPubKey  |-> tx.vchOperatorPubKey,
    internalId         |-> l.nTotalRegisteredCount,
    nRegisteredHeight  |-> h,
    nLastPaidHeight    |-> 0,
    nPoSePenalty       |-> 0,
    nPoSeRevivedHeight |-> -1,
    nPoSeBanHeight     |-> NotBanned,
    nRevocationReason  |-> 0,
    nTier              |-> TierOfCoin(tx.collateralOutpoint, spent, h),
    nLastServiceUpdateHeight   |-> 0,
    nLastRegistrarUpdateHeight |-> 0 ]

ServiceUpdated(mn, tx, h) ==
  [ mn EXCEPT !.addr = tx.addr, !.nLastServiceUpdateHeight = h ]

\* Mutant of ResetsPoSe: a revoked masternode is reset too.
ResetsPoSe_Revoked(mn, tx) == tx.vchOperatorPubKey # mn.vchOperatorPubKey

\* The PoSe reset compares the key of the payload, also when it is empty.
ResetsPoSe(mn, tx) ==
  tx.vchOperatorPubKey # mn.vchOperatorPubKey /\ mn.nRevocationReason = 0

RegistrarUpdated(mn, tx, h) ==
  LET OrKeep(new, old) == IF new = NoKey THEN old ELSE new
  IN  [ mn EXCEPT
          !.nLastRegistrarUpdateHeight = h,
          !.vchOperatorPubKey  = OrKeep(tx.vchOperatorPubKey, @),
          !.keyIDVoting        = OrKeep(tx.keyIDVoting, @),
          !.nPoSePenalty       = IF ResetsPoSe(mn, tx) THEN 0 ELSE @,
          !.nPoSeBanHeight     = IF ResetsPoSe(mn, tx) THEN NotBanned ELSE @,
          !.nPoSeRevivedHeight = IF ResetsPoSe(mn, tx) THEN h ELSE @ ]

Revoked(mn, tx, h) ==
  [ mn EXCEPT !.nRevocationReason = tx.nReason, !.nPoSeBanHeight = h ]

\* The masternode a transaction of one of the three update types produces.
UpdatedMN(mn, tx, h) ==
  CASE tx.type = "ProUpServ" -> ServiceUpdated(mn, tx, h)
    [] tx.type = "ProUpReg"  -> RegistrarUpdated(mn, tx, h)
    [] tx.type = "ProUpRev"  -> Revoked(mn, tx, h)

\* ProcessBlock gives up on an update of a masternode that is not listed.
CanApplyTx(l, tx) ==
  tx.type \in {"ProUpServ", "ProUpReg", "ProUpRev"} => HasMN(l, tx.proTxHash)

ApplyTx(l, tx, spent, h) ==
  CASE NotProvider(tx)    -> l
    [] tx.type = "ProReg" -> AddMN(l, tx.id, RegisteredMN(tx, l, spent, h))
    [] OTHER -> UpdateMN(l, tx.proTxHash, UpdatedMN(l.mnMap[tx.proTxHash], tx, h))

\* ProcessSpecialTxsInBlock adds the effect of a checked transaction to its
\* intra-block list, where an update finds only masternodes registered by the
\* same block.  The code leaves the update heights and the PoSe reset out of
\* the entry it updates; no check reads them from this list, and an update that
\* passed its check never finds its masternode there (UpdateMissesIntra).
IntraBlockAdd(intra, tx, spent, h) ==
  IF CanApplyTx(intra, tx) THEN ApplyTx(intra, tx, spent, h) ELSE intra

-----------------------------------------------------------------------------
(* ProcessBlock before the first and after the last transaction. *)

IsMigrationBlock(h) == h = nMNv2MigrationHeight

\* The masternodes a list finds by a collateral the block spends.
SpentMNs(l, block) ==
  UNION { GetMNByCollateral(l, o) : o \in SpentBy(block) }

RemoveSpentMNs(l, block) == BatchRemoveMNs(l, SpentMNs(l, block))

\* The list the transactions start from: the previous one, copied, without the
\* masternodes whose collateral is spent; the empty one at the migration.
StartList(prev, block) ==
  LET h == prev.nHeight + 1
  IN  IF IsMigrationBlock(h) THEN EmptyList(h)
      ELSE RemoveSpentMNs(CopyList(prev, h), block)

RemoveTierMismatches(l, spent, h) ==
  BatchRemoveMNs(l, { p \in DOMAIN l.mnMap :
    LET mn   == l.mnMap[p]
        tier == GetMasternodeTier(CoinAmount[mn.collateralOutpoint], h)
    IN  /\ ~CoinIsSpent(mn.collateralOutpoint, spent, h - 1)
        /\ tier = 0 \/ tier # mn.nTier })

\* The payee is drawn from the previous list.
RecordPayment(l, prev, block, h) ==
  LET paid == GetMNPayee(prev, block, h) \cap DOMAIN l.mnMap
  IN  BatchUpdateMNStates(l,
        [ p \in paid |-> [l.mnMap[p] EXCEPT !.nLastPaidHeight = h] ])

\* CPoSeManager::CheckAndPunish; score is its map of penalties.
CheckAndPunish(l, score, h) ==
  LET hit == { p \in DOMAIN score \cap DOMAIN l.mnMap : ~IsBanned(l.mnMap[p]) }
  IN  BatchUpdateMNStates(l,
        [ p \in hit |->
            [ l.mnMap[p] EXCEPT
                !.nPoSePenalty = score[p],
                !.nPoSeBanHeight =
                   IF score[p] >= nPoSeBanThreshold THEN h ELSE @ ] ])

\* Mutant of Revivable: one block too late.
Revivable_Late(l, h) ==
  { p \in DOMAIN l.mnMap :
      LET mn == l.mnMap[p]
      IN  /\ IsBanned(mn)
          /\ mn.nRevocationReason = 0
          /\ h - mn.nPoSeBanHeight > nPoSeRevivalHeight }

\* Banned, not revoked, and banned long enough ago.
Revivable(l, h) ==
  { p \in DOMAIN l.mnMap :
      LET mn == l.mnMap[p]
      IN  /\ IsBanned(mn)
          /\ mn.nRevocationReason = 0
          /\ h - mn.nPoSeBanHeight >= nPoSeRevivalHeight }

Revive(l, h) ==
  BatchUpdateMNStates(l,
    [ p \in Revivable(l, h) |->
        [ l.mnMap[p] EXCEPT !.nPoSeBanHeight = NotBanned,
                            !.nPoSePenalty = 0,
                            !.nPoSeRevivedHeight = h,
                            !.nLastPaidHeight = h ] ])

\* Mutant of Punished: no second pass over the spent collaterals.
Punished_OnePass(l, prev, block, spent, score, blockHash) ==
  LET h == prev.nHeight + 1
  IN  CheckAndPunish(RecordPayment(RemoveTierMismatches(l, spent, h),
                                   prev, blockHash, h), score, h)

\* Everything after the last transaction, up to the revivals; the list that
\* CheckAndPunish leaves also says whose penalties the revivals reset.
Punished(l, prev, block, spent, score, blockHash) ==
  LET h == prev.nHeight + 1
      kept == RemoveTierMismatches(RemoveSpentMNs(l, block), spent, h)
  IN  CheckAndPunish(RecordPayment(kept, prev, blockHash, h), score, h)

FinishList(l, prev, block, spent, score, blockHash) ==
  LET h == prev.nHeight + 1
  IN  IF IsMigrationBlock(h) THEN l
      ELSE Revive(Punished(l, prev, block, spent, score, blockHash), h)

RevivedMNs(l, prev, block, spent, score, blockHash) ==
  LET h == prev.nHeight + 1
  IN  IF IsMigrationBlock(h) THEN {}
      ELSE Revivable(Punished(l, prev, block, spent, score, blockHash), h)

=============================================================================
