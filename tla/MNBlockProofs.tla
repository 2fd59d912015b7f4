--------------------------- MODULE MNBlockProofs ----------------------------
(***************************************************************************)
(* The invariant IInv of MNBlock is inductive: it holds initially, and     *)
(* checking a block (ProcessSpecialTxsInBlock), applying it (ProcessBlock) *)
(* and penalties keep it; and the theorems that follow.                    *)
(***************************************************************************)
EXTENDS MNBlock, ProviderTxProofs

\* The SMT solver gets more time than its default on the leaves below.
USE SMTT(30)

-----------------------------------------------------------------------------
(* The inductive invariant *)

\* The parts of the empty list.
LEMMA EmptyListParts ==
  ASSUME NEW h
  PROVE  DOMAIN EmptyList(h).mnMap = {} /\ EmptyList(h).nHeight = h
<1>1. EmptyList(h).mnMap = EmptyMap /\ EmptyList(h).nHeight = h
  BY MkListFields DEF EmptyList
<1> QED BY <1>1, Zenon DEF EmptyMap

\* Every transaction of a block is one.
LEMMA BlockTxs ==
  ASSUME TypeOK
  PROVE  /\ Len(block) \in Nat
         /\ \A k \in 1 .. Len(block) : block[k] \in Txs
BY DEF TypeOK

\* The numbers of a state: heights, the length of the block and the place in it.
LEMMA BlockNumbers ==
  ASSUME IInv
  PROVE  /\ Len(block) \in Nat /\ i \in Nat /\ i + 1 \in Nat \ {0}
         /\ tip.nHeight \in Nat /\ height \in Nat
         /\ \A k \in 1 .. Len(block) : block[k] \in Txs
         /\ i <= Len(block) => i \in 1 .. Len(block)
<1>1. TypeOK
  BY Zenon DEF IInv
<1>2. tip.nHeight \in Nat /\ i \in Nat \ {0}
  BY <1>1, Zenon DEF TypeOK, IsMNList
<1> QED BY <1>1, <1>2, BlockTxs DEF height

\* The invariant holds initially.
LEMMA InitIInv == Init => IInv
<1> SUFFICES ASSUME Init PROVE IInv
  BY Zenon
<1>1. SoundList(EmptyList(0)) /\ DOMAIN EmptyList(0).mnMap = {}
  BY EmptyListSound, EmptyListParts, Zenon DEF SoundList
<1>2. IsMap(EmptyMap, TxIds, Nat)
  BY EmptyMapIsMap, Zenon
<1>3. TypeOK /\ IndexSound
  BY <1>1, <1>2 DEF Init, TypeOK, IndexSound, SoundList
<1>4. CollateralIndexed /\ CollateralUnspent
  BY <1>1, Zenon DEF Init, CollateralIndexed, CollateralUnspent, CompleteIndex
<1> QED BY <1>1, <1>3, <1>4, Zenon
  DEF Init, IInv, IdsInv, IntraInv, RegsInv, OriginInv, NewIndexed, RevokedInv

\* Giving up on a block keeps it.
LEMMA IdleIInv ==
  ASSUME IInv, Idle, UNCHANGED <<tip, spent, mined, score>>
  PROVE  IInv'
<1>1. SoundList(EmptyList(0))
  BY EmptyListSound, Zenon DEF SoundList
<1>2. TypeOK' /\ IndexSound'
  BY <1>1 DEF IInv, Idle, TypeOK, IndexSound, SoundList
<1>3. CollateralIndexed' /\ CollateralUnspent'
  BY Zenon DEF IInv, CollateralIndexed, CollateralUnspent
<1> QED BY <1>2, <1>3, Zenon
  DEF IInv, Idle, IdsInv, IntraInv, RegsInv, OriginInv, NewIndexed, RevokedInv

\* So does starting on one.
LEMMA BeginBlockIInv ==
  ASSUME IInv, BeginBlock
  PROVE  IInv'
<1>1. PICK b \in Blocks : OrdinaryBlock(b) /\ block' = b
  BY Zenon DEF BeginBlock
<1>2. b \in Seq(Txs)
  <2>1. PICK n \in Nat : b \in [1 .. n -> Txs]
    BY <1>1, MNBlockConstants DEF Blocks
  <2> QED BY <2>1
<1>3. height \in Nat
  BY DEF IInv, TypeOK, IsMNList, height
<1>4. SoundList(EmptyList(height)) /\ DOMAIN EmptyList(height).mnMap = {}
  BY <1>3, EmptyListSound, EmptyListParts, Zenon DEF SoundList
<1>5. TypeOK' /\ IndexSound'
  BY <1>1, <1>2, <1>4 DEF IInv, BeginBlock, TypeOK, IndexSound, SoundList
<1>6. CheckedRegs' = {}
  BY DEF BeginBlock, CheckedRegs
<1>7. IdsInv'
  <2>1. Len(block') \in Nat
    BY <1>1, <1>2
  <2> QED BY <1>1, <2>1 DEF IInv, IdsInv, BeginBlock, OrdinaryBlock
<1>8. IntraInv' /\ RegsInv'
  BY <1>4, <1>6, Zenon DEF BeginBlock, IntraInv, RegsInv, CompleteIndex
<1>9. CollateralIndexed' /\ CollateralUnspent'
  BY Zenon DEF IInv, BeginBlock, CollateralIndexed, CollateralUnspent
<1>10. RevokedInv'
  BY DEF IInv, BeginBlock, RevokedInv
<1> QED BY <1>5, <1>7, <1>8, <1>9, <1>10, Zenon
  DEF IInv, BeginBlock, OriginInv, NewIndexed

\* A checked registration neither takes a collateral or an owner key that the
\* previous list has, nor one an earlier registration of the block has.
LEMMA CheckedReg ==
  ASSUME NEW prev, SoundIndex(prev), NEW l, SoundIndex(l), NEW S, NEW tx,
         tx.type = "ProReg", CheckSpecialTx(tx, prev, l, S)
  PROVE  /\ tx.collateralOutpoint \notin S
         /\ ~HasUniqueProperty(prev, <<"utxo", tx.collateralOutpoint>>)
         /\ ~HasUniqueProperty(prev, <<"key", tx.keyIDOwner>>)
         /\ IntraBlockEnforced(prev.nHeight + 1) =>
              /\ ~HasUniqueProperty(l, <<"utxo", tx.collateralOutpoint>>)
              /\ ~HasUniqueProperty(l, <<"key", tx.keyIDOwner>>)
<1>1. CheckProRegTx(tx, prev, l, S)
  BY Zenon DEF CheckSpecialTx
<1>2. ASSUME NEW m, SoundIndex(m), NoDuplicate(m, tx)
      PROVE  /\ ~HasUniqueProperty(m, <<"utxo", tx.collateralOutpoint>>)
             /\ ~HasUniqueProperty(m, <<"key", tx.keyIDOwner>>)
  BY <1>2, Zenon DEF NoDuplicate, RegProps, GetMNByCollateral, GetMNByProperty,
              SoundIndex, HasMN, HasUniqueProperty
<1> QED BY <1>1, <1>2, Zenon DEF CheckProRegTx, CoinIsSpent

\* An update does not reach intraBlockList: it is checked against the previous
\* list, whose masternodes the block cannot register again.
LEMMA UpdateMissesIntra ==
  ASSUME IInv, pc = "check", i <= Len(block), IsUpdate(block[i]),
         CheckSpecialTx(block[i], tip, intra, spent)
  PROVE  intra = IntraBlockAdd(intra, block[i], spent, height)
<1>1. HasMN(tip, block[i].proTxHash)
  BY Zenon DEF IsUpdate, CheckSpecialTx, CheckProUpServTx, CheckProUpRegTx, CheckProUpRevTx
<1>2. block[i].proTxHash \in mined
  BY <1>1, Zenon DEF IInv, IdsInv, HasMN
<1>3. ~HasMN(intra, block[i].proTxHash)
  BY <1>2 DEF IInv, IdsInv, IntraInv, CheckedRegs, HasMN
<1> QED BY <1>3, Zenon DEF IntraBlockAdd, CanApplyTx, IsUpdate

\* Checking a transaction keeps the invariant.
LEMMA CheckTxIInv ==
  ASSUME IInv, CheckTx
  PROVE  IInv'
<1> DEFINE tx == block[i]
<1>1. /\ Len(block) \in Nat /\ i \in 1 .. Len(block)
      /\ tx \in Txs
      /\ pc = "check" /\ pc' = "check" /\ i' = i + 1 /\ i \in Nat
      /\ height \in Nat /\ height' = height
      /\ intra' = IntraBlockAdd(intra, tx, spent, height)
      /\ CheckSpecialTx(tx, tip, intra, spent)
      /\ i' \in Nat \ {0}
      /\ UNCHANGED <<tip, spent, mined, score, block, new>>
  <2>1. i \in 1 .. Len(block) /\ i' = i + 1
    BY BlockNumbers, Zenon DEF CheckTx
  <2> QED BY <2>1, BlockNumbers, Zenon DEF CheckTx, height
<1>2. /\ SoundList(tip) /\ SoundList(intra) /\ SoundList(new)
      /\ \A k \in CheckedRegs : k \in 1 .. Len(block) /\ k < i /\ block[k].type = "ProReg"
  BY <1>1, Zenon DEF IInv, TypeOK, IndexSound, SoundList, CheckedRegs
<1> HIDE DEF tx
<1>3. /\ IdsInv' /\ OriginInv' /\ NewIndexed'
      /\ CollateralIndexed' /\ CollateralUnspent'
  BY <1>1 DEF IInv, IdsInv, OriginInv, NewIndexed, CollateralIndexed, CollateralUnspent
<1>4. RevokedInv'
  <2>1. tx.type = "ProUpRev" =>
          HasMN(tip, tx.proTxHash) /\ ~IsBanned(tip.mnMap[tx.proTxHash])
    BY <1>1, Zenon DEF CheckSpecialTx, CheckProUpRevTx
  <2> QED BY <1>1, <2>1 DEF IInv, RevokedInv, tx
<1>5. CASE tx.type = "ProReg"
  <2>1. CheckedRegs' = CheckedRegs \cup {i}
    BY <1>1, <1>5 DEF CheckedRegs, tx
  <2>2. /\ tx.collateralOutpoint \notin spent
        /\ ~HasUniqueProperty(tip, <<"utxo", tx.collateralOutpoint>>)
        /\ ~HasUniqueProperty(tip, <<"key", tx.keyIDOwner>>)
        /\ IntraBlockEnforced(height) =>
             /\ ~HasUniqueProperty(intra, <<"utxo", tx.collateralOutpoint>>)
             /\ ~HasUniqueProperty(intra, <<"key", tx.keyIDOwner>>)
    BY <1>1, <1>2, <1>5, CheckedReg, Zenon DEF SoundList, height
  <2>3. intra' = ApplyTx(intra, tx, spent, height)
    BY <1>1, <1>5, Zenon DEF IntraBlockAdd, CanApplyTx
  <2>4. tx.id \notin DOMAIN intra.mnMap
    BY <1>1, <1>2 DEF IInv, IdsInv, IntraInv, tx
  <2>5. ASSUME IntraBlockEnforced(height), NEW k \in CheckedRegs
        PROVE  /\ block[k].collateralOutpoint # tx.collateralOutpoint
               /\ block[k].keyIDOwner # tx.keyIDOwner
    <3> DEFINE mn == intra.mnMap[block[k].id]
    <3>1. /\ block[k].id \in DOMAIN intra.mnMap
          /\ mn.collateralOutpoint = block[k].collateralOutpoint
          /\ mn.keyIDOwner = block[k].keyIDOwner
          /\ CompleteIndex(intra, "utxo") /\ CompleteIndex(intra, "key")
      BY <1>1, <2>5, Zenon DEF IInv, IntraInv
    <3>2. /\ <<"utxo", mn.collateralOutpoint>> \in PropsOf(mn)
          /\ <<"key", mn.keyIDOwner>> \in PropsOf(mn)
      BY Zenon DEF PropsOf
    <3>3. /\ HasUniqueProperty(intra, <<"utxo", mn.collateralOutpoint>>)
          /\ HasUniqueProperty(intra, <<"key", mn.keyIDOwner>>)
      BY <3>1, <3>2, Zenon DEF CompleteIndex
    <3> QED BY <2>2, <2>5, <3>1, <3>3, Zenon
  <2>6. /\ SoundList(intra')
        /\ DOMAIN intra'.mnMap = DOMAIN intra.mnMap \cup {tx.id}
        /\ \A p \in DOMAIN intra.mnMap : intra'.mnMap[p] = intra.mnMap[p]
        /\ intra'.mnMap[tx.id].collateralOutpoint = tx.collateralOutpoint
        /\ intra'.mnMap[tx.id].keyIDOwner = tx.keyIDOwner
        /\ /\ CollComplete(intra)
           /\ \A p \in DOMAIN intra.mnMap :
                /\ intra.mnMap[p].collateralOutpoint # tx.collateralOutpoint
                /\ intra.mnMap[p].keyIDOwner # tx.keyIDOwner
           => CollComplete(intra')
    BY <1>1, <1>2, <1>5, <2>3, <2>4, RegisterApplied
  <2>7. TypeOK' /\ IndexSound'
    BY <1>1, <2>6, Zenon DEF IInv, TypeOK, IndexSound, SoundList
  <2>8. IntraInv'
    <3>1. DOMAIN intra'.mnMap = { block[k].id : k \in CheckedRegs' }
      BY <1>1, <2>1, <2>6, Zenon DEF IInv, IntraInv, tx
    <3>2. ASSUME NEW k \in CheckedRegs'
          PROVE  /\ intra'.mnMap[block[k].id].collateralOutpoint = block[k].collateralOutpoint
                 /\ intra'.mnMap[block[k].id].keyIDOwner = block[k].keyIDOwner
      <4>1. CASE k = i
        BY <2>6, <4>1, Zenon DEF tx
      <4>2. CASE k \in CheckedRegs
        BY <1>1, <2>6, <4>2, Zenon DEF IInv, IntraInv
      <4> QED BY <2>1, <4>1, <4>2, Zenon
    <3>3. IntraBlockEnforced(height) => CollComplete(intra')
      BY <1>1, <2>5, <2>6 DEF IInv, IntraInv, CollComplete
    <3> QED BY <1>1, <3>1, <3>2, <3>3, Zenon DEF IntraInv, CollComplete
  <2>9. RegsInv'
    BY <1>1, <2>1, <2>2, <2>5 DEF IInv, RegsInv, tx
  <2> QED BY <1>3, <1>4, <2>7, <2>8, <2>9, Zenon DEF IInv
<1>6. CASE tx.type # "ProReg"
  <2>1. CheckedRegs' = CheckedRegs
    BY <1>1, <1>6 DEF CheckedRegs, tx
  <2>2. intra' = intra
    <3>1. CASE NotProvider(tx)
      BY <1>1, <3>1, Zenon DEF IntraBlockAdd, ApplyTx, NotProvider
    <3>2. CASE IsUpdate(tx)
      BY <1>1, <3>2, UpdateMissesIntra DEF tx
    <3> QED BY <1>1, <1>6, <3>1, <3>2, TxTypes, Zenon DEF IsUpdate
  <2>3. TypeOK' /\ IndexSound'
    BY <1>1, <2>2, Zenon DEF IInv, TypeOK, IndexSound
  <2>4. IntraInv' /\ RegsInv'
    BY <1>1, <2>1, <2>2 DEF IInv, IntraInv, RegsInv
  <2> QED BY <1>3, <1>4, <2>3, <2>4, Zenon DEF IInv
<1> QED BY <1>5, <1>6, Zenon

\* Starting to apply the block keeps the invariant.
LEMMA StartApplyIInv ==
  ASSUME IInv, StartApply
  PROVE  IInv'
<1>1. /\ Len(block) \in Nat /\ i = Len(block) + 1
      /\ pc = "check" /\ pc' = "apply" /\ i' = 1
      /\ height \in Nat /\ height' = height
      /\ new' = StartList(tip, block)
      /\ UNCHANGED <<tip, spent, mined, score, block, intra>>
  <2>1. i > Len(block) /\ i <= Len(block) + 1
    BY Zenon DEF IInv, IdsInv, StartApply
  <2>2. i = Len(block) + 1
    BY <2>1, BlockNumbers
  <2> QED BY <2>2, BlockNumbers, Zenon DEF StartApply, height
<1>2. CheckedRegs' = CheckedRegs
  BY <1>1 DEF CheckedRegs
<1>3. SoundList(tip)
  BY Zenon DEF IInv, TypeOK, IndexSound, SoundList
<1>4. /\ SoundList(new')
      /\ new'.nHeight = height
      /\ StillFound(tip, new')
      /\ IsMigrationBlock(height) => \A k : CompleteIndex(new', k)
      /\ \A p \in DOMAIN new'.mnMap :
           /\ ~IsMigrationBlock(height)
           /\ p \in DOMAIN tip.mnMap
           /\ KeepsMN(tip.mnMap[p], new'.mnMap[p])
  BY <1>1, <1>3, StartListSound, Zenon DEF height
<1>5. TypeOK' /\ IndexSound'
  BY <1>1, <1>4 DEF IInv, TypeOK, IndexSound, SoundList
<1>6. IdsInv' /\ CollateralIndexed' /\ CollateralUnspent' /\ IntraInv' /\ RegsInv'
  <2>1. 1 <= Len(block) + 1
    BY <1>1
  <2>2. IdsInv'
    BY <1>1, <2>1, Zenon DEF IInv, IdsInv
  <2>3. IntraInv'
    BY <1>1, Zenon DEF IntraInv
  <2>4. RegsInv'
    BY <1>1, <1>2 DEF IInv, RegsInv
  <2>5. CollateralIndexed' /\ CollateralUnspent'
    BY <1>1, Zenon DEF IInv, CollateralIndexed, CollateralUnspent
  <2> QED BY <2>2, <2>3, <2>4, <2>5, Zenon
<1>7. OriginInv'
  BY <1>1, <1>4, Zenon DEF OriginInv, FromList, KeepsMN, SameMN, HasMN
<1>8. NewIndexed'
  <2>1. height > nMNv2MigrationHeight => tip.nHeight >= nMNv2MigrationHeight
    BY ProviderTxConstants DEF IInv, TypeOK, IsMNList, height
  <2>2. height >= nMNv2MigrationHeight =>
          IsMigrationBlock(height) \/ height > nMNv2MigrationHeight
    BY <1>1, ProviderTxConstants DEF IsMigrationBlock
  <2> QED BY <1>1, <1>4, <2>1, <2>2, Zenon
    DEF IInv, CollateralIndexed, NewIndexed, StillFound
<1>9. RevokedInv'
  BY <1>1, <1>4 DEF IInv, RevokedInv, KeepsMN, RevokedBanned, HasMN
<1> QED BY <1>5, <1>6, <1>7, <1>8, <1>9, Zenon DEF IInv

-----------------------------------------------------------------------------
(* Steps of ProcessBlock *)

\* A masternode that keeps its collateral, owner and registration still comes
\* from where it came from, and has come there before the next transaction.
LEMMA FromLater ==
  ASSUME IInv, NEW p, NEW mn, NEW later, SameMN(mn, later)
  PROVE  /\ FromList(tip, p, mn) => FromList(tip, p, later)
         /\ FromBlock(block, height, p, mn, i) => FromBlock(block, height, p, later, i)
         /\ FromBlock(block, height, p, mn, i) => FromBlock(block, height, p, later, i + 1)
<1>1. /\ later.collateralOutpoint = mn.collateralOutpoint
      /\ later.keyIDOwner = mn.keyIDOwner
      /\ later.nRegisteredHeight = mn.nRegisteredHeight
  BY Zenon DEF SameMN
<1>2. \A k \in 1 .. Len(block) : k < i => k < i + 1
  BY BlockNumbers
<1> QED BY <1>1, <1>2, Zenon DEF FromList, FromBlock

\* The list ProcessBlock is building has no masternode yet under the id of the
\* transaction it comes to.
LEMMA FreshId ==
  ASSUME IInv, pc = "apply", i \in 1 .. Len(block)
  PROVE  block[i].id \notin DOMAIN new.mnMap
<1> DEFINE id == block[i].id
<1>1. SUFFICES ASSUME id \in DOMAIN new.mnMap PROVE FALSE
  BY Zenon
<1>2. id \notin DOMAIN tip.mnMap
  BY Zenon DEF IInv, IdsInv
<1>3. ~FromList(tip, id, new.mnMap[id])
  BY <1>2, Zenon DEF FromList, HasMN
<1>4. FromBlock(block, height, id, new.mnMap[id], i)
  BY <1>1, <1>3, Zenon DEF IInv, OriginInv
<1>5. PICK k \in 1 .. Len(block) : k < i /\ block[k].id = id
  BY <1>4, Zenon DEF FromBlock
<1>6. k # i
  BY <1>5, BlockNumbers
<1>7. block[k].id # block[i].id
  BY <1>6, Zenon DEF IInv, IdsInv
<1> QED BY <1>5, <1>7, Zenon

\* Applying a transaction keeps the invariant.
LEMMA ApplyOneIInv ==
  ASSUME IInv, ApplyOne
  PROVE  IInv'
<1> DEFINE tx == block[i]
<1>1. /\ Len(block) \in Nat /\ i \in 1 .. Len(block) /\ i \in Nat
      /\ tx \in Txs
      /\ pc = "apply" /\ pc' = "apply" /\ i' = i + 1
      /\ height \in Nat /\ height' = height
      /\ CanApplyTx(new, tx)
      /\ new' = ApplyTx(new, tx, spent, height)
      /\ i' \in Nat \ {0}
      /\ UNCHANGED <<tip, spent, mined, score, block, intra>>
  <2>1. i \in 1 .. Len(block) /\ i' = i + 1
    BY BlockNumbers, Zenon DEF ApplyOne
  <2> QED BY <2>1, BlockNumbers, Zenon DEF ApplyOne, height
<1>2. /\ CheckedRegs' = CheckedRegs
      /\ \A k \in CheckedRegs : k \in Nat /\ k \in 1 .. Len(block)
  BY <1>1 DEF CheckedRegs
<1>3. SoundList(new)
  BY Zenon DEF IInv, TypeOK, IndexSound, SoundList
<1>4. IdsInv' /\ IntraInv' /\ RegsInv' /\ CollateralIndexed' /\ CollateralUnspent'
  <2>1. i + 1 <= Len(block) + 1
    BY <1>1
  <2>2. IdsInv'
    BY <1>1, <2>1, Zenon DEF IInv, IdsInv
  <2>3. IntraInv'
    BY <1>1, Zenon DEF IntraInv
  <2>4. RegsInv'
    BY <1>1, <1>2 DEF IInv, RegsInv
  <2>5. CollateralIndexed' /\ CollateralUnspent'
    BY <1>1, Zenon DEF IInv, CollateralIndexed, CollateralUnspent
  <2> QED BY <2>2, <2>3, <2>4, <2>5, Zenon
<1>5. CASE NotProvider(tx)
  <2>1. new' = new
    BY <1>1, <1>5, Zenon DEF ApplyTx, NotProvider
  <2>2. OriginInv'
    BY <1>1, <2>1 DEF IInv, OriginInv, FromBlock
  <2>3. TypeOK' /\ IndexSound' /\ NewIndexed' /\ RevokedInv'
    BY <1>1, <2>1, Zenon DEF IInv, TypeOK, IndexSound, NewIndexed, RevokedInv
  <2> QED BY <1>4, <2>2, <2>3, Zenon DEF IInv
<1>6. CASE tx.type = "ProReg"
  <2>1. i \in CheckedRegs
    BY <1>1, <1>6, Zenon DEF CheckedRegs
  <2>2. tx.id \notin mined /\ tx.id \notin DOMAIN tip.mnMap
    BY <1>1, Zenon DEF IInv, IdsInv
  <2>3. tx.id \notin DOMAIN new.mnMap
    BY <1>1, FreshId, Zenon
  <2>4. ASSUME height >= nMNv2MigrationHeight, NEW p \in DOMAIN new.mnMap
        PROVE  /\ new.mnMap[p].collateralOutpoint # tx.collateralOutpoint
               /\ new.mnMap[p].keyIDOwner # tx.keyIDOwner
    <3>1. /\ ~HasUniqueProperty(tip, <<"utxo", tx.collateralOutpoint>>)
          /\ ~HasUniqueProperty(tip, <<"key", tx.keyIDOwner>>)
      BY <1>1, <2>1, Zenon DEF IInv, RegsInv
    <3>2. CASE ~IsMigrationBlock(height) /\ FromList(tip, p, new.mnMap[p])
      <4>1. tip.nHeight >= nMNv2MigrationHeight
        BY <2>4, <3>2, ProviderTxConstants
        DEF IInv, TypeOK, IsMNList, IsMigrationBlock, height, FromList
      <4>2. CompleteIndex(tip, "utxo") /\ CompleteIndex(tip, "key")
        BY <4>1, Zenon DEF IInv, CollateralIndexed
      <4>3. /\ <<"utxo", tip.mnMap[p].collateralOutpoint>> \in PropsOf(tip.mnMap[p])
            /\ <<"key", tip.mnMap[p].keyIDOwner>> \in PropsOf(tip.mnMap[p])
        BY Zenon DEF PropsOf
      <4>4. /\ HasUniqueProperty(tip, <<"utxo", tip.mnMap[p].collateralOutpoint>>)
            /\ HasUniqueProperty(tip, <<"key", tip.mnMap[p].keyIDOwner>>)
        BY <3>2, <4>2, <4>3, Zenon DEF CompleteIndex, HasMN, FromList
      <4> QED BY <3>1, <3>2, <4>4, Zenon DEF FromList
    <3>3. CASE FromBlock(block, height, p, new.mnMap[p], i)
      <4>1. IntraBlockEnforced(height)
        BY <1>1, <2>4, MigrationHeights, ProviderTxConstants DEF IntraBlockEnforced
      <4>2. PICK k \in 1 .. Len(block) :
                 /\ block[k].type = "ProReg"
                 /\ k < i
                 /\ new.mnMap[p].collateralOutpoint = block[k].collateralOutpoint
                 /\ new.mnMap[p].keyIDOwner = block[k].keyIDOwner
        BY <3>3, Zenon DEF FromBlock
      <4>3. k \in CheckedRegs /\ k # i
        BY <1>1, <4>2 DEF CheckedRegs
      <4>4. \A l \in CheckedRegs \ {k} :
              /\ block[k].collateralOutpoint # block[l].collateralOutpoint
              /\ block[k].keyIDOwner # block[l].keyIDOwner
        BY <1>1, <4>1, <4>3, Zenon DEF IInv, RegsInv
      <4> QED BY <2>1, <4>2, <4>3, <4>4, Zenon
    <3> QED BY <1>1, <3>2, <3>3, Zenon DEF IInv, OriginInv
  <2>5. /\ SoundList(new')
        /\ new'.nHeight = new.nHeight
        /\ DOMAIN new'.mnMap = DOMAIN new.mnMap \cup {tx.id}
        /\ \A p \in DOMAIN new.mnMap : new'.mnMap[p] = new.mnMap[p]
        /\ new'.mnMap[tx.id].collateralOutpoint = tx.collateralOutpoint
        /\ new'.mnMap[tx.id].keyIDOwner = tx.keyIDOwner
        /\ new'.mnMap[tx.id].nRegisteredHeight = height
        /\ new'.mnMap[tx.id].nRevocationReason = 0
        /\ height >= nMNv2MigrationHeight /\ CollComplete(new) => CollComplete(new')
    <3> HIDE DEF tx
    <3> QED BY <1>1, <1>3, <1>6, <2>3, <2>4, RegisterApplied
  <2>6. TypeOK' /\ IndexSound'
    BY <1>1, <2>5, Zenon DEF IInv, TypeOK, IndexSound, SoundList
  <2>7. NewIndexed'
    BY <1>1, <2>5, Zenon DEF IInv, NewIndexed, CollComplete
  <2>8. RevokedInv'
    <3>1. ASSUME NEW p \in DOMAIN new'.mnMap
          PROVE  /\ new'.mnMap[p].nRevocationReason # 0 => IsBanned(new'.mnMap[p])
                 /\ HasMN(tip, p) /\ tip.mnMap[p].nRevocationReason # 0 =>
                      new'.mnMap[p].nRevocationReason = tip.mnMap[p].nRevocationReason
      <4>1. CASE p = tx.id
        BY <2>2, <2>5, <4>1, Zenon DEF HasMN
      <4>2. CASE p \in DOMAIN new.mnMap
        BY <1>1, <2>5, <4>2, Zenon DEF IInv, RevokedInv
      <4> QED BY <2>5, <4>1, <4>2, Zenon
    <3> QED BY <1>1, <3>1, Zenon DEF IInv, RevokedInv
  <2>9. OriginInv'
    <3>1. new'.nHeight = height
      BY <1>1, <2>5, Zenon DEF IInv, OriginInv
    <3>2. ASSUME NEW p \in DOMAIN new.mnMap
          PROVE  \/ ~IsMigrationBlock(height) /\ FromList(tip, p, new'.mnMap[p])
                 \/ FromBlock(block, height, p, new'.mnMap[p], i + 1)
      <4>1. \/ ~IsMigrationBlock(height) /\ FromList(tip, p, new.mnMap[p])
            \/ FromBlock(block, height, p, new.mnMap[p], i)
        BY <1>1, Zenon DEF IInv, OriginInv
      <4>2. new'.mnMap[p] = new.mnMap[p]
        BY <2>5, Zenon
      <4> QED BY <4>1, <4>2, FromLater, Zenon DEF SameMN
    <3>3. FromBlock(block, height, tx.id, new'.mnMap[tx.id], i + 1)
      <4>1. i < i + 1
        BY <1>1
      <4> QED BY <1>1, <1>6, <2>5, <4>1, Zenon DEF FromBlock
    <3> QED BY <1>1, <2>5, <3>1, <3>2, <3>3, Zenon DEF OriginInv
  <2> QED BY <1>4, <2>6, <2>7, <2>8, <2>9, Zenon DEF IInv
<1>7. CASE IsUpdate(tx)
  <2>1. HasMN(new, tx.proTxHash)
    BY <1>1, <1>7, Zenon DEF CanApplyTx, IsUpdate
  <2>2. /\ SoundList(new')
        /\ new'.nHeight = new.nHeight
        /\ DOMAIN new'.mnMap = DOMAIN new.mnMap
        /\ \A p \in DOMAIN new.mnMap :
             /\ SameMN(new.mnMap[p], new'.mnMap[p])
             /\ RevokedBanned(new.mnMap[p]) => RevokedBanned(new'.mnMap[p])
             /\ tx.type # "ProUpRev" \/ p # tx.proTxHash =>
                  new'.mnMap[p].nRevocationReason = new.mnMap[p].nRevocationReason
        /\ StillFound(new, new')
    <3> HIDE DEF tx
    <3> QED BY <1>1, <1>3, <1>7, <2>1, UpdateApplied
  <2>3. TypeOK' /\ IndexSound'
    BY <1>1, <2>2, Zenon DEF IInv, TypeOK, IndexSound, SoundList
  <2>4. NewIndexed'
    BY <1>1, <2>2, Zenon DEF IInv, NewIndexed, StillFound
  <2>5. OriginInv'
    <3>1. ASSUME NEW p \in DOMAIN new.mnMap
          PROVE  \/ ~IsMigrationBlock(height) /\ FromList(tip, p, new'.mnMap[p])
                 \/ FromBlock(block, height, p, new'.mnMap[p], i + 1)
      <4>1. \/ ~IsMigrationBlock(height) /\ FromList(tip, p, new.mnMap[p])
            \/ FromBlock(block, height, p, new.mnMap[p], i)
        BY <1>1, Zenon DEF IInv, OriginInv
      <4> QED BY <2>2, <4>1, FromLater, Zenon
    <3> QED BY <1>1, <2>2, <3>1, Zenon DEF IInv, OriginInv
  <2>6. RevokedInv'
    <3>1. tx.type = "ProUpRev" =>
            /\ HasMN(tip, tx.proTxHash)
            /\ ~IsBanned(tip.mnMap[tx.proTxHash])
            /\ tip.mnMap[tx.proTxHash].nRevocationReason = 0
      BY <1>1, Zenon DEF IInv, RevokedInv, HasMN
    <3>2. ASSUME NEW p \in DOMAIN new.mnMap
          PROVE  /\ RevokedBanned(new'.mnMap[p])
                 /\ HasMN(tip, p) /\ tip.mnMap[p].nRevocationReason # 0 =>
                      new'.mnMap[p].nRevocationReason = tip.mnMap[p].nRevocationReason
      BY <1>1, <2>2, <3>1, Zenon DEF IInv, RevokedInv, RevokedBanned
    <3> QED BY <1>1, <2>2, <3>2, Zenon DEF IInv, RevokedInv, RevokedBanned
  <2> QED BY <1>4, <2>3, <2>4, <2>5, <2>6, Zenon DEF IInv
<1> QED BY <1>1, <1>5, <1>6, <1>7, TxTypes, Zenon DEF IsUpdate

\* What CommitBlock makes of the list under construction.
LEMMA CommitKeeps ==
  ASSUME IInv, CommitBlock
  PROVE  /\ Keeps(new, tip')
         /\ tip'.nHeight = height
         /\ CollComplete(new) /\ ~IsMigrationBlock(height) =>
              \A p \in DOMAIN tip'.mnMap :
                tip'.mnMap[p].collateralOutpoint \notin SpentBy(block)
<1>1. /\ SoundList(new) /\ tip.nHeight \in Nat /\ IsMap(score, TxIds, Nat)
      /\ pc = "apply"
  BY Zenon DEF IInv, TypeOK, IndexSound, SoundList, IsMNList, CommitBlock
<1>2. tip' = FinishList(new, tip, block, spent, score, tip.nHeight)
  BY Zenon DEF CommitBlock
<1>3. /\ Keeps(new, tip')
      /\ CollComplete(new) /\ ~IsMigrationBlock(height) =>
           \A p \in DOMAIN tip'.mnMap :
             tip'.mnMap[p].collateralOutpoint \notin SpentBy(block)
  BY <1>1, <1>2, FinishListKeeps, Zenon DEF height
<1>4. new.nHeight = height
  BY <1>1, Zenon DEF IInv, OriginInv
<1> QED BY <1>3, <1>4, Zenon DEF Keeps

\* Committing a block keeps the invariant.
LEMMA CommitBlockIInv ==
  ASSUME IInv, CommitBlock
  PROVE  IInv'
<1>1. /\ Len(block) \in Nat /\ i = Len(block) + 1
      /\ pc = "apply" /\ pc' = "idle"
      /\ tip.nHeight \in Nat /\ height = tip.nHeight + 1
      /\ spent' = spent \cup SpentBy(block)
      /\ mined' = mined \cup { block[k].id : k \in 1 .. Len(block) }
      /\ \A k \in 1 .. Len(block) : block[k] \in Txs
  <2>1. i > Len(block) /\ i <= Len(block) + 1
    BY Zenon DEF IInv, IdsInv, CommitBlock
  <2>2. i = Len(block) + 1
    BY <2>1, BlockNumbers
  <2> QED BY <2>2, BlockNumbers, Zenon DEF CommitBlock, Idle, height
<1>2. /\ SoundList(tip') /\ tip'.nHeight = height
      /\ StillFound(new, tip')
      /\ DOMAIN tip'.mnMap \subseteq DOMAIN new.mnMap
      /\ \A p \in DOMAIN tip'.mnMap : KeepsMN(new.mnMap[p], tip'.mnMap[p])
  BY CommitKeeps, Zenon DEF Keeps
<1>3. ASSUME NEW p \in DOMAIN tip'.mnMap
      PROVE  \/ ~IsMigrationBlock(height) /\ FromList(tip, p, tip'.mnMap[p])
             \/ FromBlock(block, height, p, tip'.mnMap[p], i)
  <2>1. p \in DOMAIN new.mnMap /\ SameMN(new.mnMap[p], tip'.mnMap[p])
    BY <1>2, Zenon DEF KeepsMN
  <2>2. \/ ~IsMigrationBlock(height) /\ FromList(tip, p, new.mnMap[p])
        \/ FromBlock(block, height, p, new.mnMap[p], i)
    BY <1>1, <2>1, Zenon DEF IInv, OriginInv
  <2> QED BY <2>1, <2>2, FromLater, Zenon
<1>4. TypeOK' /\ IndexSound'
  <2>1. SpentBy(block) \subseteq Outpoints
    BY <1>1, TxTypes, Zenon DEF SpentBy
  <2>2. { block[k].id : k \in 1 .. Len(block) } \subseteq TxIds
    BY <1>1, TxTypes, Zenon
  <2>3. IsMap(score', TxIds, Nat)
    BY EraseMap, Zenon DEF IInv, TypeOK, CommitBlock
  <2>4. SoundList(EmptyList(0)) /\ new' = EmptyList(0) /\ intra' = EmptyList(0)
    BY EmptyListSound, Zenon DEF SoundList, CommitBlock, Idle
  <2>5. block' = <<>> /\ i' = 1
    BY Zenon DEF CommitBlock, Idle
  <2> QED BY <1>1, <1>2, <2>1, <2>2, <2>3, <2>4, <2>5
    DEF IInv, TypeOK, IndexSound, SoundList
<1>5. IdsInv'
  BY <1>1, <1>3 DEF IInv, IdsInv, FromList, FromBlock, HasMN
<1>6. CollateralIndexed'
  BY <1>1, <1>2, Zenon DEF IInv, NewIndexed, CollateralIndexed, StillFound
<1>7. CollateralUnspent'
  <2> SUFFICES ASSUME height >= nMNv2MigrationHeight, NEW p \in DOMAIN tip'.mnMap
               PROVE  \/ tip'.mnMap[p].nRegisteredHeight = nMNv2MigrationHeight
                      \/ tip'.mnMap[p].collateralOutpoint \notin spent'
    BY <1>2, Zenon DEF CollateralUnspent
  <2> DEFINE mn == tip'.mnMap[p]
  <2>1. CASE IsMigrationBlock(height)
    BY <1>3, <2>1, Zenon DEF FromBlock, IsMigrationBlock
  <2>2. CASE ~IsMigrationBlock(height)
    <3>1. CollComplete(new)
      BY <1>1, Zenon DEF IInv, NewIndexed, CollComplete
    <3>2. mn.collateralOutpoint \notin SpentBy(block)
      BY <2>2, <3>1, CommitKeeps, Zenon
    <3>3. CASE FromList(tip, p, mn)
      <4>1. tip.nHeight >= nMNv2MigrationHeight
        BY <1>1, <2>2, ProviderTxConstants DEF IsMigrationBlock
      <4>2. \/ tip.mnMap[p].nRegisteredHeight = nMNv2MigrationHeight
            \/ tip.mnMap[p].collateralOutpoint \notin spent
        BY <3>3, <4>1, Zenon DEF IInv, CollateralUnspent, FromList, HasMN
      <4> QED BY <1>1, <3>2, <3>3, <4>2, Zenon DEF FromList
    <3>4. CASE FromBlock(block, height, p, mn, i)
      <4>1. mn.collateralOutpoint \notin spent
        BY <1>1, <3>4, Zenon DEF IInv, RegsInv, FromBlock, CheckedRegs
      <4> QED BY <1>1, <3>2, <4>1, Zenon
    <3> QED BY <1>3, <3>3, <3>4, Zenon
  <2> QED BY <2>1, <2>2, Zenon
<1>8. RevokedInv'
  BY <1>1, <1>2, Zenon DEF IInv, RevokedInv, KeepsMN, RevokedBanned
<1> QED BY <1>1, <1>4, <1>5, <1>6, <1>7, <1>8, Zenon
  DEF IInv, IntraInv, RegsInv, OriginInv, NewIndexed

\* No conjunct of the invariant but the type of the score reads the score.
LEMMA ScorelessIInv ==
  ASSUME IInv, UNCHANGED <<tip, spent, mined, pc, block, i, intra, new>>
  PROVE  /\ IndexSound' /\ IdsInv' /\ IntraInv' /\ RegsInv' /\ OriginInv'
         /\ NewIndexed' /\ CollateralIndexed' /\ CollateralUnspent' /\ RevokedInv'
<1>1. CheckedRegs' = CheckedRegs /\ height' = height
  BY Zenon DEF CheckedRegs, height
<1>2. IndexSound'
  BY Zenon DEF IInv, IndexSound
<1>3. IdsInv'
  BY Zenon DEF IInv, IdsInv
<1>4. IntraInv'
  BY <1>1, Zenon DEF IInv, IntraInv
<1>5. RegsInv'
  BY <1>1, Zenon DEF IInv, RegsInv
<1>6. OriginInv'
  BY <1>1, Zenon DEF IInv, OriginInv
<1>7. NewIndexed'
  BY <1>1, Zenon DEF IInv, NewIndexed
<1>8. CollateralIndexed' /\ CollateralUnspent'
  BY Zenon DEF IInv, CollateralIndexed, CollateralUnspent
<1>9. RevokedInv'
  BY Zenon DEF IInv, RevokedInv
<1> QED BY <1>2, <1>3, <1>4, <1>5, <1>6, <1>7, <1>8, <1>9, Zenon

\* A penalty touches the score only.
LEMMA IncrementPenaltyIInv ==
  ASSUME IInv, NEW p \in EverRegistered, IncrementPenalty(p)
  PROVE  IInv'
<1>1. p \in TxIds
  BY TxTypes, Zenon DEF EverRegistered
<1>2. IsMap(score', TxIds, Nat)
  <2> DEFINE old == IF p \in DOMAIN score THEN score[p] ELSE 0
  <2>1. IsMap(score, TxIds, Nat)
    BY Zenon DEF IInv, TypeOK
  <2>2. old + nPoSeBanThreshold \in Nat
    BY <2>1, ProviderTxConstants DEF IsMap
  <2>3. score' = Put(score, {p}, old + nPoSeBanThreshold)
    BY Zenon DEF IncrementPenalty
  <2> QED BY <1>1, <2>1, <2>2, <2>3, PutMap, Zenon
<1>3. UNCHANGED <<tip, spent, mined, pc, block, i, intra, new>>
  BY Zenon DEF IncrementPenalty
<1>4. TypeOK'
  BY <1>2, <1>3, Zenon DEF IInv, TypeOK
<1> QED BY <1>3, <1>4, ScorelessIInv, Zenon DEF IInv

\* Every step keeps the invariant.
LEMMA NextIInv == IInv /\ [Next]_vars => IInv'
<1> SUFFICES ASSUME IInv, [Next]_vars PROVE IInv'
  BY Zenon
<1>1. CASE BeginBlock
  BY <1>1, BeginBlockIInv, Zenon
<1>2. CASE CheckTx
  BY <1>2, CheckTxIInv, Zenon
<1>3. CASE RejectTx
  BY <1>3, IdleIInv, Zenon DEF RejectTx
<1>4. CASE StartApply
  BY <1>4, StartApplyIInv, Zenon
<1>5. CASE ApplyOne
  BY <1>5, ApplyOneIInv, Zenon
<1>6. CASE FailApply
  BY <1>6, IdleIInv, Zenon DEF FailApply
<1>7. CASE CommitBlock
  BY <1>7, CommitBlockIInv, Zenon
<1>8. CASE \E p \in EverRegistered : IncrementPenalty(p)
  BY <1>8, IncrementPenaltyIInv, Zenon
<1>9. CASE UNCHANGED vars
  <2>1. UNCHANGED <<tip, spent, mined, pc, block, i, intra, new>>
    BY <1>9, Zenon DEF vars
  <2>2. TypeOK'
    BY <1>9, Zenon DEF IInv, TypeOK, vars
  <2> QED BY <2>1, <2>2, ScorelessIInv, Zenon DEF IInv
<1> QED BY <1>1, <1>2, <1>3, <1>4, <1>5, <1>6, <1>7, <1>8, <1>9, Zenon DEF Next, Stop

-----------------------------------------------------------------------------
(* Theorems *)

\* The inductive invariant holds in every reachable state.
LEMMA InvariantHolds == Spec => []IInv
BY InitIInv, NextIInv, PTL DEF Spec

\* Type correctness: the three lists of ProcessBlock and ProcessSpecialTxsInBlock
\* are lists of masternodes whatever blocks arrive.
THEOREM TypeCorrect == Spec => []TypeOK
<1>1. IInv => TypeOK
  BY Zenon DEF IInv
<1> QED BY <1>1, InvariantHolds, PTL

\* The index of unique properties never has an orphan entry, in the committed
\* list or in the lists the two loops build (AddMN, UpdateMN, BatchRemoveMNs).
THEOREM IndexIsSound == Spec => []IndexSound
<1>1. IInv => IndexSound
  BY Zenon DEF IInv
<1> QED BY <1>1, InvariantHolds, PTL

\* From the migration on no two masternodes share a collateral or an owner
\* key, and GetMNByCollateral finds every masternode.
THEOREM CollateralsAreIndexed == Spec => []CollateralIndexed
<1>1. IInv => CollateralIndexed
  BY Zenon DEF IInv
<1> QED BY <1>1, InvariantHolds, PTL

\* From the migration on a masternode that the migration block did not itself
\* register is listed only while its collateral is unspent.
THEOREM CollateralsAreUnspent == Spec => []CollateralUnspent
<1>1. IInv => CollateralUnspent
  BY Zenon DEF IInv
<1> QED BY <1>1, InvariantHolds, PTL

\* No block lifts a revocation that has a reason.
THEOREM RevocationsHold == Spec => RevocationHolds
<1> DEFINE A == \A p \in DOMAIN tip.mnMap \cap DOMAIN tip'.mnMap :
                  tip.mnMap[p].nRevocationReason # 0 =>
                    /\ tip'.mnMap[p].nRevocationReason = tip.mnMap[p].nRevocationReason
                    /\ IsBanned(tip'.mnMap[p])
<1>1. IInv /\ [Next]_vars => [A]_tip
  <2> SUFFICES ASSUME IInv, Next PROVE tip' = tip \/ A
    BY Zenon DEF vars
  <2>1. CASE CommitBlock
    <3>1. Keeps(new, tip') /\ pc = "apply"
      BY <2>1, CommitKeeps, Zenon DEF CommitBlock
    <3> QED BY <3>1, Zenon DEF IInv, RevokedInv, Keeps, KeepsMN, RevokedBanned, HasMN
  <2>2. CASE ~CommitBlock
    BY <2>2, Zenon DEF Next, BeginBlock, CheckTx, RejectTx, StartApply, ApplyOne, FailApply,
                IncrementPenalty, Stop, vars
  <2> QED BY <2>1, <2>2, Zenon
<1> QED BY <1>1, InvariantHolds, PTL DEF Spec, RevocationHolds

-----------------------------------------------------------------------------
(* Bans end on time *)

\* No ban is of a later block, and the migration block, which skips the
\* revivals, has nobody to revive: it starts from nothing, and what it revokes
\* it does not list.
BanInv ==
  /\ \A p \in DOMAIN tip.mnMap : tip.mnMap[p].nPoSeBanHeight <= tip.nHeight
  /\ pc = "apply" =>
       \A p \in DOMAIN new.mnMap :
         /\ new.mnMap[p].nPoSeBanHeight <= height
         /\ IsMigrationBlock(height) => ~IsBanned(new.mnMap[p])

\* The heights a list has for its bans are integers.
LEMMA BanType ==
  ASSUME NEW l, IsMNList(l)
  PROVE  \A p \in DOMAIN l.mnMap : l.mnMap[p].nPoSeBanHeight \in Int
BY Zenon DEF IsMNList, IsMap, Masternode

\* Applying a transaction bans at most at the height of the block, and in the
\* migration block nobody.
LEMMA ApplyOneBans ==
  ASSUME IInv, BanInv, ApplyOne
  PROVE  BanInv'
<1> DEFINE tx == block[i]
<1>1. /\ i \in 1 .. Len(block)
      /\ tx \in Txs
      /\ pc = "apply" /\ pc' = "apply"
      /\ height \in Nat /\ height' = height
      /\ CanApplyTx(new, tx)
      /\ new' = ApplyTx(new, tx, spent, height)
      /\ tip' = tip
  <2>1. i \in 1 .. Len(block)
    BY BlockNumbers, Zenon DEF ApplyOne
  <2> QED BY <2>1, BlockNumbers, Zenon DEF ApplyOne, height
<1>2. SoundList(new)
  BY Zenon DEF IInv, TypeOK, IndexSound, SoundList
<1>3. /\ \A p \in DOMAIN tip.mnMap : tip.mnMap[p].nPoSeBanHeight <= tip.nHeight
      /\ \A p \in DOMAIN new.mnMap :
           /\ new.mnMap[p].nPoSeBanHeight <= height
           /\ IsMigrationBlock(height) => ~IsBanned(new.mnMap[p])
  BY <1>1, Zenon DEF BanInv
<1>4. NotBanned <= height
  BY <1>1 DEF NotBanned
<1> SUFFICES \A p \in DOMAIN new'.mnMap :
               /\ new'.mnMap[p].nPoSeBanHeight <= height
               /\ IsMigrationBlock(height) => ~IsBanned(new'.mnMap[p])
  BY <1>1, <1>3, Zenon DEF BanInv
<1>5. CASE NotProvider(tx)
  BY <1>1, <1>3, <1>5, Zenon DEF ApplyTx, NotProvider
<1>6. CASE tx.type = "ProReg"
  <2> HIDE DEF tx
  <2>1. /\ DOMAIN new'.mnMap = DOMAIN new.mnMap \cup {tx.id}
        /\ \A p \in DOMAIN new.mnMap : p # tx.id => new'.mnMap[p] = new.mnMap[p]
        /\ new'.mnMap[tx.id].nPoSeBanHeight = NotBanned
    <3> DEFINE n == ApplyTx(new, tx, spent, height)
    <3>1. /\ DOMAIN n.mnMap = DOMAIN new.mnMap \cup {tx.id}
          /\ \A p \in DOMAIN new.mnMap : p # tx.id => n.mnMap[p] = new.mnMap[p]
          /\ n.mnMap[tx.id].nPoSeBanHeight = NotBanned
      BY <1>6, RegisterBans
    <3> QED BY <1>1, <3>1, Zenon
  <2> QED BY <1>3, <1>4, <2>1, Zenon DEF IsBanned
<1>7. CASE IsUpdate(tx)
  <2>1. HasMN(new, tx.proTxHash)
    BY <1>1, <1>7, Zenon DEF CanApplyTx, IsUpdate
  <2>2. IsMigrationBlock(height) => tx.type # "ProUpRev"
    <3>1. tx.type = "ProUpRev" => HasMN(tip, tx.proTxHash)
      BY <1>1, Zenon DEF IInv, RevokedInv
    <3>2. IsMigrationBlock(height) => \A p \in DOMAIN new.mnMap : p \notin DOMAIN tip.mnMap
      <4>1. ASSUME NEW p \in DOMAIN new.mnMap, IsMigrationBlock(height)
            PROVE  p \notin mined
        <5>1. FromBlock(block, height, p, new.mnMap[p], i)
          BY <1>1, <4>1, Zenon DEF IInv, OriginInv
        <5>2. PICK k \in 1 .. Len(block) : block[k].id = p
          BY <5>1, Zenon DEF FromBlock
        <5> QED BY <1>1, <5>2, Zenon DEF IInv, IdsInv
      <4> QED BY <4>1, Zenon DEF IInv, IdsInv
    <3> QED BY <2>1, <3>1, <3>2, Zenon DEF HasMN
  <2>3. /\ DOMAIN new'.mnMap = DOMAIN new.mnMap
        /\ \A p \in DOMAIN new.mnMap :
             \/ new'.mnMap[p].nPoSeBanHeight = new.mnMap[p].nPoSeBanHeight
             \/ new'.mnMap[p].nPoSeBanHeight = NotBanned
             \/ tx.type = "ProUpRev" /\ new'.mnMap[p].nPoSeBanHeight = height
    <3> HIDE DEF tx
    <3> QED BY <1>1, <1>2, <1>7, <2>1, UpdateBans
  <2> HIDE DEF tx
  <2> QED BY <1>1, <1>3, <1>4, <2>2, <2>3 DEF IsBanned
<1> QED BY <1>1, <1>5, <1>6, <1>7, TxTypes, Zenon DEF IsUpdate

\* A ban without a reason is recent.
BansRecent ==
  \A p \in DOMAIN tip.mnMap :
    IsBanned(tip.mnMap[p]) /\ tip.mnMap[p].nRevocationReason = 0 =>
      /\ tip.mnMap[p].nPoSeBanHeight <= tip.nHeight
      /\ tip.nHeight - tip.mnMap[p].nPoSeBanHeight < nPoSeRevivalHeight

\* A committed list has no ban that should have ended.
LEMMA CommitBans ==
  ASSUME IInv, BanInv, CommitBlock
  PROVE  BanInv' /\ BansRecent'
<1> DEFINE l4 == Punished(new, tip, block, spent, score, tip.nHeight)
           h  == height
<1>1. /\ SoundList(new) /\ tip.nHeight \in Nat /\ IsMap(score, TxIds, Nat)
      /\ pc = "apply" /\ pc' = "idle"
      /\ tip' = FinishList(new, tip, block, spent, score, tip.nHeight)
  BY Zenon DEF IInv, TypeOK, IndexSound, SoundList, IsMNList, CommitBlock, Idle
<1>2. tip'.nHeight = h /\ h = tip.nHeight + 1 /\ h \in Nat
  BY <1>1, CommitKeeps DEF height
<1>3. \A p \in DOMAIN new.mnMap :
        /\ new.mnMap[p].nPoSeBanHeight <= h
        /\ IsMigrationBlock(h) => ~IsBanned(new.mnMap[p])
  BY <1>1, Zenon DEF BanInv
<1>4. nPoSeRevivalHeight \in Nat
  BY ProviderTxConstants, Zenon
<1> HIDE DEF h
<1>5. CASE IsMigrationBlock(h)
  <2>1. tip' = new
    BY <1>1, <1>2, <1>5, Zenon DEF FinishList
  <2> QED BY <1>1, <1>2, <1>3, <1>5, <2>1, Zenon DEF BanInv, BansRecent
<1>6. CASE ~IsMigrationBlock(h)
  <2>1. tip' = Revive(l4, h)
    BY <1>1, <1>2, <1>6, Zenon DEF FinishList
  <2>2. /\ SoundList(l4)
        /\ DOMAIN l4.mnMap \subseteq DOMAIN new.mnMap
        /\ \A p \in DOMAIN l4.mnMap :
             l4.mnMap[p].nPoSeBanHeight \in {new.mnMap[p].nPoSeBanHeight, h}
    BY <1>1, <1>2, PunishedBans, Zenon
  <2> HIDE DEF l4
  <2>3. /\ DOMAIN tip'.mnMap = DOMAIN l4.mnMap
        /\ \A p \in DOMAIN tip'.mnMap :
             \/ tip'.mnMap[p].nPoSeBanHeight = NotBanned
             \/ p \notin Revivable(l4, h) /\ tip'.mnMap[p] = l4.mnMap[p]
    BY <1>2, <2>1, <2>2, RevivedBans, Zenon
  <2>4. \A p \in DOMAIN l4.mnMap : /\ l4.mnMap[p].nPoSeBanHeight \in Int
                                   /\ l4.mnMap[p].nPoSeBanHeight <= h
    BY <1>2, <1>3, <2>2, BanType DEF SoundList
  <2>5. ASSUME NEW p \in DOMAIN tip'.mnMap
        PROVE  /\ tip'.mnMap[p].nPoSeBanHeight <= h
               /\ IsBanned(tip'.mnMap[p]) /\ tip'.mnMap[p].nRevocationReason = 0 =>
                    h - tip'.mnMap[p].nPoSeBanHeight < nPoSeRevivalHeight
    <3>1. CASE tip'.mnMap[p].nPoSeBanHeight = NotBanned
      BY <1>2, <3>1 DEF IsBanned, NotBanned
    <3>2. CASE p \notin Revivable(l4, h) /\ tip'.mnMap[p] = l4.mnMap[p]
      BY <1>2, <1>4, <2>3, <2>4, <3>2 DEF Revivable
    <3> QED BY <2>3, <3>1, <3>2, Zenon
  <2> QED BY <1>1, <1>2, <2>5, Zenon DEF BanInv, BansRecent
<1> QED BY <1>5, <1>6, Zenon

\* A list has a reason only for a masternode that the chain, or the block it is
\* built for, revokes.
ReasonInv ==
  /\ \A p \in DOMAIN tip.mnMap : tip.mnMap[p].nRevocationReason # 0 => p \in EverRevoked
  /\ pc = "apply" =>
       \A p \in DOMAIN new.mnMap :
         new.mnMap[p].nRevocationReason # 0 =>
           p \in EverRevoked \/ p \in RevokedBy({ block[k] : k \in 1 .. Len(block) })

\* The list the transactions start from has the reasons of the previous one.
LEMMA StartApplyReasons ==
  ASSUME IInv, ReasonInv, StartApply
  PROVE  ReasonInv'
<1>1. /\ pc' = "apply" /\ new' = StartList(tip, block)
      /\ tip' = tip /\ mined' = mined /\ block' = block
  BY Zenon DEF StartApply
<1>2. \A p \in DOMAIN new'.mnMap : p \in DOMAIN tip.mnMap /\ new'.mnMap[p] = tip.mnMap[p]
  BY <1>1, StartBans, Zenon
<1>3. EverRevoked' = EverRevoked
  BY <1>1, Zenon DEF EverRevoked
<1> QED BY <1>1, <1>2, <1>3, Zenon DEF ReasonInv

\* Applying a transaction gives a reason to the masternode it revokes only.
LEMMA ApplyOneReasons ==
  ASSUME IInv, ReasonInv, ApplyOne
  PROVE  ReasonInv'
<1> DEFINE tx == block[i]
           all == { block[k] : k \in 1 .. Len(block) }
           Fits(p, r) == r # 0 => p \in EverRevoked \/ p \in RevokedBy(all)
<1>1. /\ i \in 1 .. Len(block)
      /\ tx \in Txs
      /\ pc = "apply" /\ pc' = "apply"
      /\ height \in Nat
      /\ CanApplyTx(new, tx)
      /\ new' = ApplyTx(new, tx, spent, height)
      /\ tip' = tip /\ mined' = mined /\ block' = block
  <2>1. i \in 1 .. Len(block)
    BY BlockNumbers, Zenon DEF ApplyOne
  <2> QED BY <2>1, BlockNumbers, Zenon DEF ApplyOne, height
<1>2. SoundList(new)
  BY Zenon DEF IInv, TypeOK, IndexSound, SoundList
<1>3. \A p \in DOMAIN new.mnMap : Fits(p, new.mnMap[p].nRevocationReason)
  BY <1>1, Zenon DEF ReasonInv
<1>4. EverRevoked' = EverRevoked
  BY <1>1, Zenon DEF EverRevoked
<1>5. tx.type = "ProUpRev" => tx.proTxHash \in RevokedBy(all)
  BY <1>1, Zenon DEF RevokedBy
<1> SUFFICES \A p \in DOMAIN new'.mnMap : Fits(p, new'.mnMap[p].nRevocationReason)
  BY <1>1, <1>4, Zenon DEF ReasonInv
<1>6. CASE NotProvider(tx)
  <2>1. new' = new
    BY <1>1, <1>6, Zenon DEF ApplyTx, NotProvider
  <2> QED BY <1>3, <2>1, Zenon
<1>7. CASE tx.type = "ProReg"
  <2>1. tx.id \notin DOMAIN new.mnMap
    BY <1>1, FreshId, Zenon
  <2> HIDE DEF tx, all
  <2>2. /\ DOMAIN new'.mnMap = DOMAIN new.mnMap \cup {tx.id}
        /\ \A p \in DOMAIN new.mnMap : new'.mnMap[p] = new.mnMap[p]
        /\ new'.mnMap[tx.id].nRevocationReason = 0
    BY <1>1, <1>2, <1>7, <2>1, RegisterApplied
  <2> QED BY <1>3, <2>2, Zenon
<1>8. CASE IsUpdate(tx)
  <2>1. HasMN(new, tx.proTxHash)
    BY <1>1, <1>8, Zenon DEF CanApplyTx, IsUpdate
  <2> HIDE DEF tx, all
  <2>2. /\ DOMAIN new'.mnMap = DOMAIN new.mnMap
        /\ \A p \in DOMAIN new.mnMap :
             tx.type # "ProUpRev" \/ p # tx.proTxHash =>
               new'.mnMap[p].nRevocationReason = new.mnMap[p].nRevocationReason
    BY <1>1, <1>2, <1>8, <2>1, UpdateApplied
  <2> QED BY <1>3, <1>5, <2>2, Zenon
<1> QED BY <1>1, <1>6, <1>7, <1>8, TxTypes, Zenon DEF IsUpdate

\* A committed list has the reasons of the list under construction, and what
\* its block revokes the chain has revoked from then on.
LEMMA CommitReasons ==
  ASSUME IInv, ReasonInv, CommitBlock
  PROVE  ReasonInv'
<1>1. /\ pc = "apply" /\ pc' = "idle"
      /\ mined' = mined \cup { block[k].id : k \in 1 .. Len(block) }
      /\ \A k \in 1 .. Len(block) : block[k] \in Txs
  BY BlockNumbers, Zenon DEF CommitBlock, Idle
<1>2. EverRevoked \subseteq EverRevoked'
  BY <1>1, Zenon DEF EverRevoked, RevokedBy
<1>3. RevokedBy({ block[k] : k \in 1 .. Len(block) }) \subseteq EverRevoked'
  BY <1>1, Zenon DEF EverRevoked, RevokedBy
<1>4. /\ DOMAIN tip'.mnMap \subseteq DOMAIN new.mnMap
      /\ \A p \in DOMAIN tip'.mnMap :
           tip'.mnMap[p].nRevocationReason = new.mnMap[p].nRevocationReason
  BY CommitKeeps, Zenon DEF Keeps, KeepsMN
<1> QED BY <1>1, <1>2, <1>3, <1>4, Zenon DEF ReasonInv

\* The ban of a masternode that was never revoked ends on time: the revivals of
\* ProcessBlock leave no list with one that is nPoSeRevivalHeight blocks old.
THEOREM BansEndOnTime == Spec => []RevivalOnTime
<1> DEFINE Inv == BanInv /\ BansRecent /\ ReasonInv
<1>1. Init => Inv
  <2> SUFFICES ASSUME Init PROVE Inv
    BY Zenon
  <2>1. DOMAIN tip.mnMap = {}
    BY EmptyListParts, Zenon DEF Init
  <2> QED BY <2>1, Zenon DEF Init, BanInv, BansRecent, ReasonInv
<1>2. IInv /\ Inv /\ [Next]_vars => Inv'
  <2> SUFFICES ASSUME IInv, Inv, [Next]_vars PROVE Inv'
    BY Zenon
  <2>1. CASE StartApply
    <3>1. /\ pc' = "apply" /\ new' = StartList(tip, block) /\ tip' = tip
          /\ tip.nHeight \in Nat
      BY <2>1, Zenon DEF StartApply, IInv, TypeOK, IsMNList
    <3>2. \A p \in DOMAIN new'.mnMap :
            /\ ~IsMigrationBlock(height)
            /\ p \in DOMAIN tip.mnMap
            /\ new'.mnMap[p] = tip.mnMap[p]
      BY <3>1, StartBans, Zenon DEF height
    <3>3. \A p \in DOMAIN tip.mnMap : /\ tip.mnMap[p].nPoSeBanHeight \in Int
                                      /\ tip.mnMap[p].nPoSeBanHeight <= tip.nHeight + 1
      BY <3>1, BanType DEF IInv, TypeOK, BanInv
    <3>4. BanInv'
      BY <3>1, <3>2, <3>3, Zenon DEF BanInv, height
    <3> QED BY <2>1, <3>1, <3>4, StartApplyReasons, Zenon DEF BansRecent
  <2>2. CASE ApplyOne
    BY <2>2, ApplyOneBans, ApplyOneReasons, Zenon DEF ApplyOne, BansRecent
  <2>3. CASE CommitBlock
    BY <2>3, CommitBans, CommitReasons, Zenon
  <2>4. CASE ~StartApply /\ ~ApplyOne /\ ~CommitBlock
    <3>1. CASE BeginBlock \/ CheckTx \/ RejectTx \/ FailApply
      BY <3>1, Zenon DEF BeginBlock, CheckTx, RejectTx, FailApply, Idle, BanInv, BansRecent,
                         ReasonInv, EverRevoked
    <3>2. CASE UNCHANGED <<tip, mined, pc, block, new>>
      BY <3>2, Zenon DEF BanInv, BansRecent, ReasonInv, EverRevoked, height
    <3>3. \/ BeginBlock \/ CheckTx \/ RejectTx \/ FailApply
          \/ UNCHANGED <<tip, mined, pc, block, new>>
      BY <2>4, Zenon DEF Next, IncrementPenalty, Stop, vars
    <3> QED BY <3>1, <3>2, <3>3, Zenon
  <2> QED BY <2>1, <2>2, <2>3, <2>4, Zenon
<1>3. Inv => RevivalOnTime
  BY Zenon DEF BansRecent, ReasonInv, RevivalOnTime
<1> QED BY <1>1, <1>2, <1>3, InvariantHolds, PTL DEF Spec

-----------------------------------------------------------------------------
(* Unique properties *)

\* What the index of the list under construction holds: entries of the previous
\* list and claims of the transactions applied so far.  A checked registration
\* claims nothing the previous list has; so, unless the block claims something
\* twice, every masternode stays found by all of its properties.
ClaimInv ==
  pc # "idle" =>
    /\ \A k \in CheckedRegs : \A q \in Claims(block[k]) : ~HasUniqueProperty(tip, q)
    /\ pc = "apply" /\ AllIndexed(tip) =>
         /\ \A q \in DOMAIN new.mnUniquePropertyMap :
              \/ HasUniqueProperty(tip, q)
              \/ \E k \in 1 .. Len(block) : k < i /\ q \in Claims(block[k])
         /\ ~ClaimedTwice(block) => AllIndexed(new)

\* What keeps masternodes found by each kind of property keeps them found by all.
LEMMA StillIndexed ==
  ASSUME NEW l, NEW n, StillFound(l, n), AllIndexed(l)
  PROVE  AllIndexed(n)
BY Zenon DEF StillFound, AllIndexed

\* If all properties are indexed, every property of a masternode has an entry.
LEMMA IndexedProps ==
  ASSUME NEW l, AllIndexed(l), NEW p \in DOMAIN l.mnMap, NEW q \in PropsOf(l.mnMap[p])
  PROVE  HasUniqueProperty(l, q)
<1>1. q[1] \in {"utxo", "addr", "key", "voting", "operator"}
  BY DEF PropsOf
<1> QED BY <1>1, Zenon DEF AllIndexed, CompleteIndex

\* A registration adds an entry for each of its claims; if none had one, every
\* masternode stays found.
LEMMA RegisterClaims ==
  ASSUME NEW l, NEW tx, tx.type = "ProReg", tx.id \notin DOMAIN l.mnMap,
         NEW S, NEW h
  PROVE  LET n == ApplyTx(l, tx, S, h)
         IN  /\ DOMAIN n.mnUniquePropertyMap
                  = DOMAIN l.mnUniquePropertyMap \cup Claims(tx)
             /\ (\A q \in Claims(tx) : ~HasUniqueProperty(l, q)) => StillFound(l, n)
<1> DEFINE mn == RegisteredMN(tx, l, S, h)
           n  == AddMN(l, tx.id, mn)
<1>1. ApplyTx(l, tx, S, h) = n
  BY Zenon DEF ApplyTx, NotProvider
<1>2. PropsOf(mn) = Claims(tx)
  <2>1. Claims(tx) = RegProps(tx) \cup {<<"utxo", tx.collateralOutpoint>>}
    BY Zenon DEF Claims
  <2>2. /\ mn.collateralOutpoint = tx.collateralOutpoint /\ mn.addr = tx.addr
        /\ mn.keyIDOwner = tx.keyIDOwner /\ mn.keyIDVoting = tx.keyIDVoting
        /\ mn.vchOperatorPubKey = tx.vchOperatorPubKey
    BY Zenon DEF RegisteredMN
  <2> HIDE DEF mn
  <2> QED BY <2>1, <2>2, Zenon DEF PropsOf, RegProps
<1> HIDE DEF mn
<1>3. n.mnUniquePropertyMap = Put(l.mnUniquePropertyMap, Claims(tx), tx.id)
  BY <1>2, MkListFields DEF AddMN
<1>4. ASSUME \A q \in Claims(tx) : ~HasUniqueProperty(l, q)
      PROVE  StillFound(l, n)
  BY <1>2, <1>4, AddMNComplete, Zenon DEF StillFound
<1> HIDE DEF n
<1> QED BY <1>1, <1>3, <1>4, Zenon DEF Put

\* An update adds entries for its claims only.
LEMMA UpdateClaims ==
  ASSUME NEW l, SoundList(l), NEW tx \in Txs, IsUpdate(tx),
         HasMN(l, tx.proTxHash), NEW S, NEW h
  PROVE  DOMAIN ApplyTx(l, tx, S, h).mnUniquePropertyMap
           \subseteq DOMAIN l.mnUniquePropertyMap \cup Claims(tx)
<1> DEFINE r  == tx.proTxHash
           mn == l.mnMap[r]
           m2 == UpdatedMN(mn, tx, h)
           n  == UpdateMN(l, r, m2)
<1>1. ApplyTx(l, tx, S, h) = n
  BY Zenon DEF ApplyTx, NotProvider, IsUpdate
<1>2. mn \in Masternode
  BY Zenon DEF HasMN, SoundList, IsMNList, IsMap
<1>3. n = l \/ n.mnUniquePropertyMap =
                 Put(Erase(l.mnUniquePropertyMap, PropsOf(mn) \ PropsOf(m2)),
                     PropsOf(m2) \ PropsOf(mn), r)
  <2> HIDE DEF m2
  <2> QED BY MkListFields DEF UpdateMN
<1>4. PropsOf(m2) \subseteq PropsOf(mn) \cup Claims(tx)
  <2> HIDE DEF mn
  <2>1. CASE tx.type = "ProUpServ"
    <3>1. m2 = ServiceUpdated(mn, tx, h) /\ Claims(tx) = {<<"addr", tx.addr>>}
      BY <2>1, Zenon DEF UpdatedMN, Claims
    <3>2. /\ m2.collateralOutpoint = mn.collateralOutpoint /\ m2.addr = tx.addr
          /\ m2.keyIDOwner = mn.keyIDOwner /\ m2.keyIDVoting = mn.keyIDVoting
          /\ m2.vchOperatorPubKey = mn.vchOperatorPubKey
      BY <1>2, <3>1, Zenon DEF ServiceUpdated, Masternode
    <3> HIDE DEF m2
    <3> QED BY <3>1, <3>2, Zenon DEF PropsOf
  <2>2. CASE tx.type = "ProUpReg"
    <3>1. /\ m2 = RegistrarUpdated(mn, tx, h)
          /\ Claims(tx) = {<<"voting", tx.keyIDVoting>>, <<"operator", tx.vchOperatorPubKey>>}
      BY <2>2, Zenon DEF UpdatedMN, Claims
    <3>2. /\ m2.collateralOutpoint = mn.collateralOutpoint /\ m2.addr = mn.addr
          /\ m2.keyIDOwner = mn.keyIDOwner
          /\ m2.keyIDVoting \in {mn.keyIDVoting, tx.keyIDVoting}
          /\ m2.vchOperatorPubKey \in {mn.vchOperatorPubKey, tx.vchOperatorPubKey}
      BY <1>2, <3>1 DEF RegistrarUpdated, Masternode
    <3> HIDE DEF m2
    <3> QED BY <3>1, <3>2, Zenon DEF PropsOf
  <2>3. CASE tx.type = "ProUpRev"
    <3>1. m2 = Revoked(mn, tx, h)
      BY <2>3, Zenon DEF UpdatedMN
    <3>2. /\ m2.collateralOutpoint = mn.collateralOutpoint /\ m2.addr = mn.addr
          /\ m2.keyIDOwner = mn.keyIDOwner /\ m2.keyIDVoting = mn.keyIDVoting
          /\ m2.vchOperatorPubKey = mn.vchOperatorPubKey
      BY <1>2, <3>1, Zenon DEF Revoked, Masternode
    <3> HIDE DEF m2
    <3> QED BY <3>2, Zenon DEF PropsOf
  <2> QED BY <2>1, <2>2, <2>3, Zenon DEF IsUpdate
<1> HIDE DEF n, m2, mn
<1>5. CASE n = l
  BY <1>1, <1>5, Zenon
<1>6. CASE n # l
  BY <1>1, <1>3, <1>4, <1>6, Zenon DEF Put, Erase
<1> QED BY <1>5, <1>6, Zenon

\* The list the transactions start from has entries of the previous list only,
\* if that one has an entry for every property.
LEMMA StartClaims ==
  ASSUME NEW prev, AllIndexed(prev), NEW b
  PROVE  DOMAIN StartList(prev, b).mnUniquePropertyMap
           \subseteq DOMAIN prev.mnUniquePropertyMap
<1> DEFINE h == prev.nHeight + 1
           c == CopyList(prev, h)
<1>1. CASE IsMigrationBlock(h)
  BY <1>1, MkListFields DEF StartList, EmptyList, EmptyMap
<1>2. CASE ~IsMigrationBlock(h)
  <2> DEFINE gone == SpentMNs(c, b) \cap DOMAIN c.mnMap
             props == UNION { PropsOf(c.mnMap[p]) : p \in gone }
             n == BatchRemoveMNs(c, SpentMNs(c, b))
  <2>1. StartList(prev, b) = n
    BY <1>2, Zenon DEF StartList, RemoveSpentMNs
  <2>2. n.mnUniquePropertyMap = Erase(c.mnUniquePropertyMap, props)
    BY MkListFields DEF BatchRemoveMNs
  <2>3. DOMAIN c.mnUniquePropertyMap
          = UNION { PropsOf(prev.mnMap[p]) : p \in DOMAIN prev.mnMap }
    BY MkListFields DEF CopyList
  <2>4. UNION { PropsOf(prev.mnMap[p]) : p \in DOMAIN prev.mnMap }
          \subseteq DOMAIN prev.mnUniquePropertyMap
    BY IndexedProps, Zenon DEF HasUniqueProperty
  <2> HIDE DEF n, c, props
  <2> QED BY <2>1, <2>2, <2>3, <2>4, Zenon DEF Erase
<1> QED BY <1>1, <1>2, Zenon

\* A checked registration claims nothing that the previous list has.
LEMMA CheckedClaims ==
  ASSUME NEW prev, SoundIndex(prev), NEW l, NEW S, NEW tx,
         tx.type = "ProReg", CheckSpecialTx(tx, prev, l, S)
  PROVE  \A q \in Claims(tx) : ~HasUniqueProperty(prev, q)
<1>1. NoDuplicate(prev, tx)
  BY Zenon DEF CheckSpecialTx, CheckProRegTx
<1>2. Claims(tx) = RegProps(tx) \cup {<<"utxo", tx.collateralOutpoint>>}
  BY Zenon DEF Claims
<1>3. \A q \in RegProps(tx) : ~HasUniqueProperty(prev, q)
  BY <1>1, Zenon DEF NoDuplicate
<1>4. ~HasUniqueProperty(prev, <<"utxo", tx.collateralOutpoint>>)
  BY <1>1, Zenon DEF NoDuplicate, GetMNByCollateral, GetMNByProperty, SoundIndex, HasMN,
              HasUniqueProperty
<1> QED BY <1>2, <1>3, <1>4, Zenon

\* Checking a transaction keeps ClaimInv.
LEMMA CheckTxClaims ==
  ASSUME IInv, ClaimInv, CheckTx
  PROVE  ClaimInv'
<1>1. /\ i \in Nat /\ Len(block) \in Nat
      /\ pc = "check" /\ pc' = "check" /\ i' = i + 1
      /\ tip' = tip /\ block' = block
      /\ CheckSpecialTx(block[i], tip, intra, spent)
  BY BlockTxs, Zenon DEF IInv, TypeOK, CheckTx
<1>2. SoundIndex(tip)
  BY Zenon DEF IInv, IndexSound
<1>3. ASSUME NEW k \in CheckedRegs'
      PROVE  k \in CheckedRegs \/ (k = i /\ block[i].type = "ProReg")
  BY <1>1, <1>3 DEF CheckedRegs
<1>4. ASSUME NEW k \in CheckedRegs'
      PROVE  \A q \in Claims(block[k]) : ~HasUniqueProperty(tip, q)
  <2>1. CASE k \in CheckedRegs
    BY <1>1, <2>1, Zenon DEF ClaimInv
  <2>2. CASE k = i /\ block[i].type = "ProReg"
    BY <1>1, <1>2, <2>2, CheckedClaims, Zenon
  <2> QED BY <1>3, <2>1, <2>2, Zenon
<1> QED BY <1>1, <1>4, Zenon DEF ClaimInv

\* So does starting to apply the block.
LEMMA StartApplyClaims ==
  ASSUME IInv, ClaimInv, StartApply
  PROVE  ClaimInv'
<1>1. /\ Len(block) \in Nat /\ i = Len(block) + 1
      /\ pc = "check" /\ pc' = "apply" /\ i' = 1
      /\ new' = StartList(tip, block)
      /\ tip' = tip /\ block' = block
  <2>1. i > Len(block) /\ i <= Len(block) + 1
    BY Zenon DEF IInv, IdsInv, StartApply
  <2>2. i = Len(block) + 1
    BY <2>1, BlockNumbers
  <2> QED BY <2>2, BlockNumbers, Zenon DEF StartApply
<1>2. CheckedRegs' = CheckedRegs
  BY <1>1 DEF CheckedRegs
<1>3. StillFound(tip, new')
  BY <1>1, StartListSound, Zenon DEF IInv, TypeOK, IndexSound, SoundList
<1>4. ASSUME AllIndexed(tip)
      PROVE  /\ AllIndexed(new')
             /\ \A q \in DOMAIN new'.mnUniquePropertyMap : HasUniqueProperty(tip, q)
  <2>1. AllIndexed(new')
    BY <1>3, <1>4, StillIndexed, Zenon
  <2>2. DOMAIN new'.mnUniquePropertyMap \subseteq DOMAIN tip.mnUniquePropertyMap
    BY <1>1, <1>4, StartClaims, Zenon
  <2> QED BY <2>1, <2>2, Zenon DEF HasUniqueProperty
<1>5. \A k \in CheckedRegs : \A q \in Claims(block[k]) : ~HasUniqueProperty(tip, q)
  BY <1>1, Zenon DEF ClaimInv
<1> QED BY <1>1, <1>2, <1>4, <1>5, Zenon DEF ClaimInv

\* So does applying a transaction: a registration claims what neither the
\* previous list nor an earlier transaction of the block has claimed.
LEMMA ApplyOneClaims ==
  ASSUME IInv, ClaimInv, ApplyOne
  PROVE  ClaimInv'
<1> DEFINE tx == block[i]
           Claimed(q, n) == \E k \in 1 .. Len(block) : k < n /\ q \in Claims(block[k])
<1>1. /\ i \in 1 .. Len(block) /\ i \in Nat /\ Len(block) \in Nat
      /\ tx \in Txs
      /\ pc = "apply" /\ pc' = "apply" /\ i' = i + 1
      /\ height \in Nat
      /\ CanApplyTx(new, tx)
      /\ new' = ApplyTx(new, tx, spent, height)
      /\ tip' = tip /\ block' = block
  <2>1. i \in 1 .. Len(block)
    BY BlockNumbers, Zenon DEF ApplyOne
  <2> QED BY <2>1, BlockNumbers, Zenon DEF ApplyOne, height
<1>2. CheckedRegs' = CheckedRegs
  BY <1>1, Zenon DEF CheckedRegs
<1>3. SoundList(new)
  BY Zenon DEF IInv, TypeOK, IndexSound, SoundList
<1>4. \A k \in CheckedRegs : \A q \in Claims(block[k]) : ~HasUniqueProperty(tip, q)
  BY <1>1, Zenon DEF ClaimInv
<1>5. CASE ~AllIndexed(tip)
  BY <1>1, <1>2, <1>4, <1>5, Zenon DEF ClaimInv
<1>6. CASE AllIndexed(tip)
  <2>1. /\ \A q \in DOMAIN new.mnUniquePropertyMap : HasUniqueProperty(tip, q) \/ Claimed(q, i)
        /\ ~ClaimedTwice(block) => AllIndexed(new)
    BY <1>1, <1>6, Zenon DEF ClaimInv
  <2>2. \A q : Claimed(q, i) \/ q \in Claims(tx) => Claimed(q, i + 1)
    BY <1>1
  <2>3. /\ DOMAIN new'.mnUniquePropertyMap
             \subseteq DOMAIN new.mnUniquePropertyMap \cup Claims(tx)
        /\ ~ClaimedTwice(block) => AllIndexed(new')
    <3>1. CASE NotProvider(tx)
      BY <1>1, <2>1, <3>1, Zenon DEF ApplyTx, NotProvider
    <3>2. CASE tx.type = "ProReg"
      <4>1. tx.id \notin DOMAIN new.mnMap
        BY <1>1, FreshId, Zenon
      <4>2. ~ClaimedTwice(block) => \A q \in Claims(tx) : ~HasUniqueProperty(new, q)
        <5> SUFFICES ASSUME NEW q \in Claims(tx), HasUniqueProperty(new, q)
                     PROVE  ClaimedTwice(block)
          BY Zenon
        <5>1. i \in CheckedRegs
          BY <1>1, <3>2, Zenon DEF CheckedRegs
        <5>2. PICK k \in 1 .. Len(block) : k < i /\ q \in Claims(block[k])
          BY <1>4, <2>1, <5>1, Zenon DEF HasUniqueProperty
        <5>3. Claims(block[k]) \cap Claims(block[i]) # {}
          BY <5>2, Zenon
        <5>4. block[i].type = "ProReg" /\ i \in 1 .. Len(block)
          BY <1>1, <3>2, Zenon
        <5> QED BY <5>2, <5>3, <5>4, Zenon DEF ClaimedTwice
      <4> HIDE DEF tx
      <4> DEFINE n == ApplyTx(new, tx, spent, height)
      <4>3. /\ DOMAIN n.mnUniquePropertyMap = DOMAIN new.mnUniquePropertyMap \cup Claims(tx)
            /\ (\A q \in Claims(tx) : ~HasUniqueProperty(new, q)) => StillFound(new, n)
        BY <3>2, <4>1, RegisterClaims, Zenon
      <4>4. n = new'
        BY <1>1, Zenon
      <4> HIDE DEF n
      <4> QED BY <2>1, <4>2, <4>3, <4>4, StillIndexed, Zenon
    <3>3. CASE IsUpdate(tx)
      <4>1. HasMN(new, tx.proTxHash)
        BY <1>1, <3>3, Zenon DEF CanApplyTx, IsUpdate
      <4> HIDE DEF tx
      <4>2. StillFound(new, new')
        BY <1>1, <1>3, <3>3, <4>1, UpdateApplied, Zenon
      <4>3. DOMAIN new'.mnUniquePropertyMap
              \subseteq DOMAIN new.mnUniquePropertyMap \cup Claims(tx)
        BY <1>1, <1>3, <3>3, <4>1, UpdateClaims, Zenon
      <4> QED BY <2>1, <4>2, <4>3, StillIndexed, Zenon
    <3> QED BY <1>1, <3>1, <3>2, <3>3, TxTypes, Zenon DEF IsUpdate
  <2>4. \A q \in DOMAIN new'.mnUniquePropertyMap :
          HasUniqueProperty(tip, q) \/ Claimed(q, i + 1)
    <3> HIDE DEF Claimed, tx
    <3> QED BY <2>1, <2>2, <2>3, Zenon
  <2> QED BY <1>1, <1>2, <1>4, <2>3, <2>4, Zenon DEF ClaimInv
<1> QED BY <1>5, <1>6, Zenon

\* A block keeps all five properties of every masternode unique, unless one of
\* its registrations follows another claim to the same property in it: the
\* checks against the previous list (NoDuplicate) and the conflict check of
\* UpdateMN leave no other way.
THEOREM PropertiesStayUnique == Spec => UniquenessKept
<1> DEFINE A == AllIndexed(tip) /\ ~ClaimedTwice(block) => AllIndexed(tip')
<1>1. Init => ClaimInv
  BY Zenon DEF Init, ClaimInv
<1>2. IInv /\ ClaimInv /\ [Next]_vars => ClaimInv'
  <2> SUFFICES ASSUME IInv, ClaimInv, [Next]_vars PROVE ClaimInv'
    BY Zenon
  <2>1. CASE CheckTx
    BY <2>1, CheckTxClaims, Zenon
  <2>2. CASE StartApply
    BY <2>2, StartApplyClaims, Zenon
  <2>3. CASE ApplyOne
    BY <2>3, ApplyOneClaims, Zenon
  <2>4. CASE BeginBlock
    <3>1. CheckedRegs' = {} /\ pc' = "check"
      BY <2>4 DEF BeginBlock, CheckedRegs
    <3> QED BY <3>1, Zenon DEF ClaimInv
  <2>5. CASE RejectTx \/ FailApply \/ CommitBlock
    BY <2>5, Zenon DEF RejectTx, FailApply, CommitBlock, Idle, ClaimInv
  <2>6. CASE UNCHANGED <<tip, pc, block, i, new>>
    BY <2>6, Zenon DEF ClaimInv, CheckedRegs
  <2>7. CASE \E p \in EverRegistered : IncrementPenalty(p)
    BY <2>6, <2>7, Zenon DEF IncrementPenalty
  <2> QED BY <2>1, <2>2, <2>3, <2>4, <2>5, <2>6, <2>7, Zenon DEF Next, Stop, vars
<1>3. IInv /\ ClaimInv /\ [Next]_vars => [A]_tip
  <2> SUFFICES ASSUME IInv, ClaimInv, Next PROVE tip' = tip \/ A
    BY Zenon DEF vars
  <2>1. CASE CommitBlock
    <3>1. StillFound(new, tip') /\ pc = "apply"
      BY <2>1, CommitKeeps, Zenon DEF CommitBlock, Keeps
    <3>2. AllIndexed(tip) /\ ~ClaimedTwice(block) => AllIndexed(new)
      BY <3>1, Zenon DEF ClaimInv
    <3> QED BY <3>1, <3>2, StillIndexed, Zenon
  <2>2. CASE ~CommitBlock
    BY <2>2, Zenon DEF Next, BeginBlock, CheckTx, RejectTx, StartApply, ApplyOne, FailApply,
                IncrementPenalty, Stop, vars
  <2> QED BY <2>1, <2>2, Zenon
<1> QED BY <1>1, <1>2, <1>3, InvariantHolds, PTL DEF Spec, UniquenessKept

=============================================================================
