-------------------------- MODULE ProviderTxProofs --------------------------
(***************************************************************************)
(* What the operations of a masternode list, and the special transactions  *)
(* applied through them, preserve, for every list: its type, the soundness *)
(* and the completeness of its index, and what a masternode keeps.         *)
(* MNBlockProofs rests on these.                                           *)
(***************************************************************************)
EXTENDS ProviderTx, WellFoundedInduction, TLAPS

-----------------------------------------------------------------------------
(* Maps *)

\* Setting some keys of a partial function leaves it one.
LEMMA PutMap ==
  ASSUME NEW m, NEW D, NEW R, IsMap(m, D, R), NEW S, S \subseteq D, NEW v, v \in R
  PROVE  IsMap(Put(m, S, v), D, R)
BY Zenon DEF IsMap, Put

\* Erasing some keys of a partial function leaves it one.
LEMMA EraseMap ==
  ASSUME NEW m, NEW D, NEW R, IsMap(m, D, R), NEW S
  PROVE  IsMap(Erase(m, S), D, R)
BY Zenon DEF IsMap, Erase

\* The empty map is a partial function of any type.
LEMMA EmptyMapIsMap ==
  ASSUME NEW D, NEW R
  PROVE  IsMap(EmptyMap, D, R)
BY Zenon DEF IsMap, EmptyMap

\* A list given by its four parts has these parts.
LEMMA MkListFields ==
  ASSUME NEW a, NEW b, NEW c, NEW d
  PROVE  /\ MkList(a, b, c, d).mnMap = a
         /\ MkList(a, b, c, d).mnUniquePropertyMap = b
         /\ MkList(a, b, c, d).nTotalRegisteredCount = c
         /\ MkList(a, b, c, d).nHeight = d
BY Zenon DEF MkList

\* The properties of a masternode are properties.
LEMMA PropsOfType ==
  ASSUME NEW mn \in Masternode
  PROVE  PropsOf(mn) \subseteq Properties
BY DEF PropsOf, Masternode, Properties

\* An empty list is a list, and its index is sound.
LEMMA EmptyListSound ==
  ASSUME NEW h \in Nat
  PROVE  IsMNList(EmptyList(h)) /\ SoundIndex(EmptyList(h))
<1>1. IsMNList(EmptyList(h))
  BY MkListFields, EmptyMapIsMap DEF EmptyList, IsMNList
<1>2. SoundIndex(EmptyList(h))
  BY MkListFields DEF EmptyList, SoundIndex, EmptyMap
<1> QED BY <1>1, <1>2, Zenon

-----------------------------------------------------------------------------
(* AddMN *)

\* Registering a masternode under a new hash leaves no orphan entries: an entry
\* that is not its own belongs to a masternode that stays as it is.
LEMMA AddMNSound ==
  ASSUME NEW l, IsMNList(l), SoundIndex(l),
         NEW p \in TxIds, p \notin DOMAIN l.mnMap, NEW mn \in Masternode
  PROVE  IsMNList(AddMN(l, p, mn)) /\ SoundIndex(AddMN(l, p, mn))
<1> DEFINE n == AddMN(l, p, mn)
<1>1. /\ n.mnMap = Put(l.mnMap, {p}, mn)
      /\ n.mnUniquePropertyMap = Put(l.mnUniquePropertyMap, PropsOf(mn), p)
      /\ n.nTotalRegisteredCount = l.nTotalRegisteredCount + 1
      /\ n.nHeight = l.nHeight
  BY MkListFields DEF AddMN
<1>2. IsMNList(n)
  <2>1. IsMap(n.mnMap, TxIds, Masternode)
    BY <1>1, PutMap, Zenon DEF IsMNList
  <2>2. IsMap(n.mnUniquePropertyMap, Properties, TxIds)
    BY <1>1, PutMap, PropsOfType, Zenon DEF IsMNList
  <2> QED BY <1>1, <2>1, <2>2 DEF IsMNList
<1>3. SoundIndex(n)
  <2> SUFFICES ASSUME NEW q \in DOMAIN n.mnUniquePropertyMap
               PROVE  LET r == n.mnUniquePropertyMap[q]
                      IN  HasMN(n, r) /\ q \in PropsOf(n.mnMap[r])
    BY Zenon DEF SoundIndex
  <2>1. CASE q \in PropsOf(mn)
    BY <1>1, <2>1, Zenon DEF Put, HasMN
  <2>2. CASE q \notin PropsOf(mn)
    BY <1>1, <2>2 DEF Put, HasMN, SoundIndex
  <2> QED BY <2>1, <2>2, Zenon
<1> QED BY <1>2, <1>3, Zenon

-----------------------------------------------------------------------------
(* UpdateMN *)

\* An update moves the entries of the changed properties along with them.
LEMMA UpdateMNSound ==
  ASSUME NEW l, IsMNList(l), SoundIndex(l),
         NEW p \in TxIds, NEW mn \in Masternode
  PROVE  IsMNList(UpdateMN(l, p, mn)) /\ SoundIndex(UpdateMN(l, p, mn))
<1> DEFINE old == PropsOf(l.mnMap[p])
           changed == PropsOf(mn) \ old
           erased == Erase(l.mnUniquePropertyMap, old \ PropsOf(mn))
           n == MkList(Put(l.mnMap, {p}, mn), Put(erased, changed, p),
                       l.nTotalRegisteredCount, l.nHeight)
<1>1. CASE UpdateMN(l, p, mn) = l
  BY <1>1, Zenon
<1>2. CASE HasMN(l, p) /\ UpdateMN(l, p, mn) = n
  <2>1. /\ n.mnMap = Put(l.mnMap, {p}, mn)
        /\ n.mnUniquePropertyMap = Put(erased, changed, p)
        /\ n.nTotalRegisteredCount = l.nTotalRegisteredCount
        /\ n.nHeight = l.nHeight
    BY MkListFields
  <2>a. erased = Erase(l.mnUniquePropertyMap, old \ PropsOf(mn))
    BY Zenon
  <2> HIDE DEF n, erased
  <2>2. IsMNList(n)
    <3>1. IsMap(n.mnMap, TxIds, Masternode)
      BY <2>1, PutMap, Zenon DEF IsMNList
    <3>2. IsMap(erased, Properties, TxIds)
      BY <2>a, EraseMap, Zenon DEF IsMNList
    <3>3. IsMap(n.mnUniquePropertyMap, Properties, TxIds)
      BY <2>1, <3>2, PutMap, PropsOfType, Zenon
    <3> QED BY <2>1, <3>1, <3>3, Zenon DEF IsMNList
  <2>3. SoundIndex(n)
    <3> SUFFICES ASSUME NEW q \in DOMAIN n.mnUniquePropertyMap
                 PROVE  LET r == n.mnUniquePropertyMap[q]
                        IN  HasMN(n, r) /\ q \in PropsOf(n.mnMap[r])
      BY Zenon DEF SoundIndex
    <3>1. CASE q \in changed
      BY <1>2, <2>1, <3>1, Zenon DEF Put, HasMN
    <3>2. CASE q \notin changed
      <4>1. /\ q \in DOMAIN l.mnUniquePropertyMap
            /\ q \notin old \ PropsOf(mn)
            /\ n.mnUniquePropertyMap[q] = l.mnUniquePropertyMap[q]
        BY <2>a, <2>1, <3>2, Zenon DEF Put, Erase
      <4>2. CASE l.mnUniquePropertyMap[q] = p
        BY <1>2, <2>1, <4>1, <4>2 DEF Put, HasMN, SoundIndex
      <4>3. CASE l.mnUniquePropertyMap[q] # p
        BY <1>2, <2>1, <4>1, <4>3 DEF Put, HasMN, SoundIndex
      <4> QED BY <4>2, <4>3, Zenon
    <3> QED BY <3>1, <3>2, Zenon
  <2> QED BY <1>2, <2>2, <2>3, Zenon
<1> QED BY <1>1, <1>2, Zenon DEF UpdateMN

-----------------------------------------------------------------------------
(* BatchUpdateMNStates *)

\* New states with the old properties leave the index right.
LEMMA BatchUpdateSound ==
  ASSUME NEW l, IsMNList(l), SoundIndex(l), NEW upd,
         \A p \in DOMAIN upd \cap DOMAIN l.mnMap :
           upd[p] \in Masternode /\ PropsOf(upd[p]) = PropsOf(l.mnMap[p])
  PROVE  /\ IsMNList(BatchUpdateMNStates(l, upd))
         /\ SoundIndex(BatchUpdateMNStates(l, upd))
<1> DEFINE n == BatchUpdateMNStates(l, upd)
<1>1. /\ n.mnMap = [ p \in DOMAIN l.mnMap |->
                       IF p \in DOMAIN upd THEN upd[p] ELSE l.mnMap[p] ]
      /\ n.mnUniquePropertyMap = l.mnUniquePropertyMap
      /\ n.nTotalRegisteredCount = l.nTotalRegisteredCount
      /\ n.nHeight = l.nHeight
  BY MkListFields DEF BatchUpdateMNStates
<1>2. IsMNList(n)
  BY <1>1, Zenon DEF IsMNList, IsMap
<1>3. SoundIndex(n)
  BY <1>1 DEF SoundIndex, HasMN
<1> QED BY <1>2, <1>3, Zenon

-----------------------------------------------------------------------------
(* BatchRemoveMNs *)

\* Removing masternodes removes every entry that names one of them: an entry
\* names a masternode that has the property, and these are erased.
LEMMA BatchRemoveSound ==
  ASSUME NEW l, IsMNList(l), SoundIndex(l), NEW S
  PROVE  IsMNList(BatchRemoveMNs(l, S)) /\ SoundIndex(BatchRemoveMNs(l, S))
<1> DEFINE gone == S \cap DOMAIN l.mnMap
           props == UNION { PropsOf(l.mnMap[p]) : p \in gone }
           n == BatchRemoveMNs(l, S)
<1>1. /\ n.mnMap = Erase(l.mnMap, gone)
      /\ n.mnUniquePropertyMap = Erase(l.mnUniquePropertyMap, props)
      /\ n.nTotalRegisteredCount = l.nTotalRegisteredCount
      /\ n.nHeight = l.nHeight
  BY MkListFields DEF BatchRemoveMNs
<1>2. IsMNList(n)
  BY <1>1, EraseMap DEF IsMNList
<1>3. SoundIndex(n)
  <2> SUFFICES ASSUME NEW q \in DOMAIN n.mnUniquePropertyMap
               PROVE  LET r == n.mnUniquePropertyMap[q]
                      IN  HasMN(n, r) /\ q \in PropsOf(n.mnMap[r])
    BY Zenon DEF SoundIndex
  <2> DEFINE r == l.mnUniquePropertyMap[q]
  <2>1. /\ q \in DOMAIN l.mnUniquePropertyMap
        /\ q \notin props
        /\ n.mnUniquePropertyMap[q] = r
    BY <1>1, Zenon DEF Erase
  <2>2. r \in DOMAIN l.mnMap /\ q \in PropsOf(l.mnMap[r])
    BY <2>1, Zenon DEF SoundIndex, HasMN
  <2>3. r \notin gone
    BY <2>1, <2>2, Zenon
  <2> QED BY <1>1, <2>1, <2>2, <2>3 DEF Erase, HasMN
<1> QED BY <1>2, <1>3, Zenon

-----------------------------------------------------------------------------
(* CopyList *)

\* A set of transaction hashes that is not empty has a greatest element.
LEMMA GreatestTxId ==
  ASSUME NEW T, T \subseteq TxIds, T # {}
  PROVE  \E p \in T : \A r \in T : r <= p
<1> DEFINE U == { n \in Nat : MaxTxId - n \in T }
           lt == OpToRel(<, Nat)
<1>1. MaxTxId \in Nat
  BY MNListConstants, Zenon
<1>2. U \subseteq Nat
  BY Zenon
<1>3. PICK t \in T : TRUE
  BY Zenon
<1>4. MaxTxId - t \in U
  <2>1. t \in Nat /\ t <= MaxTxId
    BY <1>1 DEF TxIds
  <2>2. MaxTxId - t \in Nat /\ MaxTxId - (MaxTxId - t) = t
    BY <1>1, <2>1
  <2> QED BY <2>2, Zenon
<1>5. IsWellFoundedOn(lt, Nat)
  BY NatLessThanWellFounded, Zenon
<1> HIDE DEF lt, U
<1>6. PICK x \in U : \A y \in U : ~(<<y, x>> \in lt)
  BY <1>2, <1>4, <1>5, WFMin, Zenon
<1>7. \A y \in U : ~(y < x)
  BY <1>2, <1>6, Zenon DEF OpToRel, lt
<1>8. x \in Nat /\ MaxTxId - x \in T
  BY <1>6, Zenon DEF U
<1>9. ASSUME NEW r \in T
      PROVE  r <= MaxTxId - x
  <2>1. r \in Nat /\ r <= MaxTxId
    BY <1>1 DEF TxIds
  <2>2. MaxTxId - r \in Nat /\ MaxTxId - (MaxTxId - r) = r
    BY <1>1, <2>1
  <2>3. MaxTxId - r \in U
    BY <2>2, Zenon DEF U
  <2> QED BY <1>1, <1>7, <1>8, <2>1, <2>2, <2>3
<1> QED BY <1>8, <1>9, Zenon

\* The index ProcessBlock rebuilds from the masternodes alone is sound.
LEMMA CopyListSound ==
  ASSUME NEW l, IsMNList(l), NEW h \in Nat
  PROVE  IsMNList(CopyList(l, h)) /\ SoundIndex(CopyList(l, h))
<1> DEFINE props == UNION { PropsOf(l.mnMap[p]) : p \in DOMAIN l.mnMap }
           last(q) == CHOOSE p \in Owners(l, q) : \A r \in Owners(l, q) : r <= p
           n == CopyList(l, h)
<1>1. /\ n.mnMap = l.mnMap
      /\ n.mnUniquePropertyMap = [ q \in props |-> last(q) ]
      /\ n.nTotalRegisteredCount = l.nTotalRegisteredCount
      /\ n.nHeight = h
  BY MkListFields DEF CopyList
<1>2. ASSUME NEW q \in props
      PROVE  last(q) \in Owners(l, q)
  <2>1. Owners(l, q) \subseteq TxIds /\ Owners(l, q) # {}
    BY Zenon DEF Owners, IsMNList, IsMap
  <2> QED BY <2>1, GreatestTxId, Zenon
<1>3. \A q \in props : last(q) \in TxIds
  BY <1>2, Zenon DEF Owners, IsMNList, IsMap
<1>4. props \subseteq Properties
  BY PropsOfType, Zenon DEF IsMNList, IsMap
<1>5. \A q \in props : last(q) \in DOMAIN l.mnMap /\ q \in PropsOf(l.mnMap[last(q)])
  BY <1>2, Zenon DEF Owners
<1> HIDE DEF last, props, n
<1>6. IsMNList(n)
  BY <1>1, <1>3, <1>4, Zenon DEF IsMNList, IsMap
<1>7. SoundIndex(n)
  BY <1>1, <1>5, Zenon DEF SoundIndex, HasMN
<1> QED BY <1>6, <1>7, Zenon DEF n

-----------------------------------------------------------------------------
(* Complete indexes *)

\* Registering a masternode whose property of kind k has no entry yet keeps
\* every masternode found by its property of kind k.
LEMMA AddMNComplete ==
  ASSUME NEW l, NEW k, CompleteIndex(l, k), NEW p, NEW mn,
         p \notin DOMAIN l.mnMap,
         \A q \in PropsOf(mn) : q[1] = k => ~HasUniqueProperty(l, q)
  PROVE  CompleteIndex(AddMN(l, p, mn), k)
<1> DEFINE n == AddMN(l, p, mn)
<1>1. /\ n.mnMap = Put(l.mnMap, {p}, mn)
      /\ n.mnUniquePropertyMap = Put(l.mnUniquePropertyMap, PropsOf(mn), p)
  BY MkListFields DEF AddMN
<1> HIDE DEF n
<1> SUFFICES ASSUME NEW r \in DOMAIN n.mnMap, NEW q \in PropsOf(n.mnMap[r]), q[1] = k
             PROVE  HasUniqueProperty(n, q) /\ n.mnUniquePropertyMap[q] = r
  BY Zenon DEF CompleteIndex, n
<1>2. CASE r = p
  BY <1>1, <1>2, Zenon DEF Put, HasUniqueProperty
<1>3. CASE r # p
  <2>1. r \in DOMAIN l.mnMap /\ q \in PropsOf(l.mnMap[r])
    BY <1>1, <1>3, Zenon DEF Put
  <2>2. HasUniqueProperty(l, q) /\ l.mnUniquePropertyMap[q] = r
    BY <2>1, Zenon DEF CompleteIndex
  <2>3. q \notin PropsOf(mn)
    BY <2>2, Zenon
  <2> QED BY <1>1, <2>2, <2>3, Zenon DEF Put, HasUniqueProperty
<1> QED BY <1>2, <1>3, Zenon

\* An update leaves every masternode found by its property of kind k: a new
\* property that another masternode has is a conflict, and then nothing changes.
LEMMA UpdateMNComplete ==
  ASSUME NEW l, NEW k, CompleteIndex(l, k), NEW p, NEW mn
  PROVE  CompleteIndex(UpdateMN(l, p, mn), k)
<1> DEFINE old == PropsOf(l.mnMap[p])
           changed == PropsOf(mn) \ old
           n == MkList(Put(l.mnMap, {p}, mn),
                       Put(Erase(l.mnUniquePropertyMap, old \ PropsOf(mn)), changed, p),
                       l.nTotalRegisteredCount, l.nHeight)
           free == \A q \in changed : HasUniqueProperty(l, q) => l.mnUniquePropertyMap[q] = p
<1>1. CASE UpdateMN(l, p, mn) = l
  BY <1>1, Zenon
<1>2. CASE HasMN(l, p) /\ free /\ UpdateMN(l, p, mn) = n
  <2>1. /\ n.mnMap = Put(l.mnMap, {p}, mn)
        /\ n.mnUniquePropertyMap =
             Put(Erase(l.mnUniquePropertyMap, old \ PropsOf(mn)), changed, p)
    BY MkListFields
  <2> HIDE DEF n
  <2> SUFFICES ASSUME NEW r \in DOMAIN n.mnMap, NEW q \in PropsOf(n.mnMap[r]), q[1] = k
               PROVE  HasUniqueProperty(n, q) /\ n.mnUniquePropertyMap[q] = r
    BY <1>2, Zenon DEF CompleteIndex
  <2>2. \A o \in old : o[1] = k => HasUniqueProperty(l, o) /\ l.mnUniquePropertyMap[o] = p
    BY <1>2, Zenon DEF CompleteIndex, HasMN
  <2>3. CASE r = p
    <3>1. q \in PropsOf(mn)
      BY <2>1, <2>3, Zenon DEF Put
    <3>2. CASE q \in changed
      BY <2>1, <2>3, <3>2, Zenon DEF Put, HasUniqueProperty
    <3>3. CASE q \in old
      <4>1. HasUniqueProperty(l, q) /\ l.mnUniquePropertyMap[q] = r
        BY <2>2, <2>3, <3>3, Zenon
      <4>2. q \notin changed /\ q \notin old \ PropsOf(mn)
        BY <3>1, <3>3, Zenon
      <4> HIDE DEF changed, old
      <4> QED BY <2>1, <4>1, <4>2, Zenon DEF Put, Erase, HasUniqueProperty
    <3> QED BY <3>1, <3>2, <3>3, Zenon
  <2>4. CASE r # p
    <3>1. r \in DOMAIN l.mnMap /\ q \in PropsOf(l.mnMap[r])
      BY <2>1, <2>4, Zenon DEF Put
    <3>2. HasUniqueProperty(l, q) /\ l.mnUniquePropertyMap[q] = r
      BY <3>1, Zenon DEF CompleteIndex
    <3>3. q \notin changed /\ q \notin old
      BY <1>2, <2>2, <2>4, <3>2, Zenon
    <3> HIDE DEF changed, old
    <3> QED BY <2>1, <3>2, <3>3, Zenon DEF Put, Erase, HasUniqueProperty
  <2> QED BY <2>3, <2>4, Zenon
<1> QED BY <1>1, <1>2, Zenon DEF UpdateMN

\* New states with the old properties leave every masternode found.
LEMMA BatchUpdateComplete ==
  ASSUME NEW l, NEW k, CompleteIndex(l, k), NEW upd,
         \A p \in DOMAIN upd \cap DOMAIN l.mnMap :
           PropsOf(upd[p]) = PropsOf(l.mnMap[p])
  PROVE  CompleteIndex(BatchUpdateMNStates(l, upd), k)
<1> DEFINE n == BatchUpdateMNStates(l, upd)
<1>1. /\ n.mnMap = [ p \in DOMAIN l.mnMap |->
                       IF p \in DOMAIN upd THEN upd[p] ELSE l.mnMap[p] ]
      /\ n.mnUniquePropertyMap = l.mnUniquePropertyMap
  BY MkListFields DEF BatchUpdateMNStates
<1> QED BY <1>1 DEF CompleteIndex, HasUniqueProperty

\* Removing masternodes leaves the others found: an entry of theirs is erased
\* only if a removed masternode has the property as well, and it cannot.
LEMMA BatchRemoveComplete ==
  ASSUME NEW l, NEW k, CompleteIndex(l, k), NEW S
  PROVE  CompleteIndex(BatchRemoveMNs(l, S), k)
<1> DEFINE gone == S \cap DOMAIN l.mnMap
           props == UNION { PropsOf(l.mnMap[p]) : p \in gone }
           n == BatchRemoveMNs(l, S)
<1>1. /\ n.mnMap = Erase(l.mnMap, gone)
      /\ n.mnUniquePropertyMap = Erase(l.mnUniquePropertyMap, props)
  BY MkListFields DEF BatchRemoveMNs
<1> HIDE DEF n
<1> SUFFICES ASSUME NEW r \in DOMAIN n.mnMap, NEW q \in PropsOf(n.mnMap[r]), q[1] = k
             PROVE  HasUniqueProperty(n, q) /\ n.mnUniquePropertyMap[q] = r
  BY Zenon DEF CompleteIndex, n
<1>2. r \in DOMAIN l.mnMap /\ r \notin gone /\ q \in PropsOf(l.mnMap[r])
  BY <1>1, Zenon DEF Erase
<1>3. HasUniqueProperty(l, q) /\ l.mnUniquePropertyMap[q] = r
  BY <1>2, Zenon DEF CompleteIndex
<1>4. q \notin props
  BY <1>2, <1>3 DEF CompleteIndex
<1> HIDE DEF props
<1> QED BY <1>1, <1>3, <1>4, Zenon DEF Erase, HasUniqueProperty

\* The rebuilt index finds what the copied one finds.
LEMMA CopyListComplete ==
  ASSUME NEW l, IsMNList(l), NEW k, CompleteIndex(l, k), NEW h
  PROVE  CompleteIndex(CopyList(l, h), k)
<1> DEFINE props == UNION { PropsOf(l.mnMap[p]) : p \in DOMAIN l.mnMap }
           last(q) == CHOOSE p \in Owners(l, q) : \A r \in Owners(l, q) : r <= p
           n == CopyList(l, h)
<1>1. n.mnMap = l.mnMap /\ n.mnUniquePropertyMap = [ q \in props |-> last(q) ]
  BY MkListFields DEF CopyList
<1> SUFFICES ASSUME NEW r \in DOMAIN l.mnMap, NEW q \in PropsOf(l.mnMap[r]), q[1] = k
             PROVE  q \in props /\ last(q) = r
  BY <1>1 DEF CompleteIndex, HasUniqueProperty
<1>2. Owners(l, q) = {r}
  BY DEF Owners, CompleteIndex
<1>3. r <= r
  BY DEF IsMNList, IsMap, TxIds
<1>4. last(q) = r
  BY <1>2, <1>3, Zenon
<1> QED BY <1>4, Zenon

-----------------------------------------------------------------------------
(* Types of transactions and of the masternodes they make *)

\* The type tag of a transaction decides its fields.
LEMMA TxTypes ==
  ASSUME NEW tx \in Txs
  PROVE  /\ tx.id \in TxIds
         /\ tx.spends \subseteq Outpoints
         /\ tx.type \in {"ProReg", "ProUpServ", "ProUpReg", "ProUpRev"} \/ NotProvider(tx)
         /\ tx.type = "ProReg"    => tx \in ProRegTxs
         /\ tx.type = "ProUpServ" => tx \in ProUpServTxs
         /\ tx.type = "ProUpReg"  => tx \in ProUpRegTxs
         /\ tx.type = "ProUpRev"  => tx \in ProUpRevTxs
<1>1. \/ tx \in ProRegTxs \/ tx \in ProUpServTxs \/ tx \in ProUpRegTxs
      \/ tx \in ProUpRevTxs \/ tx \in CommitmentTxs \/ tx \in OtherTxs
  BY ProviderTxConstants, Zenon
<1> QED
  BY <1>1, Zenon DEF ProRegTxs, ProUpServTxs, ProUpRegTxs, ProUpRevTxs, CommitmentTxs,
                     OtherTxs, NotProvider

\* The tier of an amount at a height.
LEMMA TierType ==
  ASSUME NEW o \in Outpoints, NEW S, NEW h
  PROVE  /\ GetMasternodeTier(CoinAmount[o], h) \in 0 .. 3
         /\ TierOfCoin(o, S, h) \in 0 .. 3
BY ProviderTxConstants DEF TierOfCoin, GetMasternodeTier

\* A registration makes a masternode with the keys and collateral it names.
LEMMA RegisteredMNType ==
  ASSUME NEW tx \in Txs, tx.type = "ProReg", NEW l, IsMNList(l),
         NEW S, NEW h \in Nat
  PROVE  RegisteredMN(tx, l, S, h) \in Masternode
<1>1. tx \in ProRegTxs
  BY TxTypes, Zenon
<1>2. TierOfCoin(tx.collateralOutpoint, S, h) \in 0 .. 3
  BY <1>1, TierType, Zenon DEF ProRegTxs
<1>3. l.nTotalRegisteredCount \in Nat
  BY Zenon DEF IsMNList
<1> QED
  BY <1>1, <1>2, <1>3 DEF RegisteredMN, Masternode, ProRegTxs, NotBanned

\* What an update keeps of a masternode: collateral, owner and age, and the
\* ban of one that is revoked and stays so.
SameMN(mn, m2) ==
  /\ m2.collateralOutpoint = mn.collateralOutpoint
  /\ m2.keyIDOwner = mn.keyIDOwner
  /\ m2.nRegisteredHeight = mn.nRegisteredHeight

RevokedBanned(mn) == mn.nRevocationReason # 0 => IsBanned(mn)

IsUpdate(tx) == tx.type \in {"ProUpServ", "ProUpReg", "ProUpRev"}

\* An update makes a masternode; only a ProUpRevTx changes the reason, and a
\* masternode that is revoked for a reason is banned afterwards as before.
LEMMA UpdatedMNType ==
  ASSUME NEW tx \in Txs, IsUpdate(tx), NEW mn \in Masternode, NEW h \in Nat
  PROVE  /\ UpdatedMN(mn, tx, h) \in Masternode
         /\ SameMN(mn, UpdatedMN(mn, tx, h))
         /\ RevokedBanned(mn) => RevokedBanned(UpdatedMN(mn, tx, h))
         /\ tx.type # "ProUpRev" =>
              UpdatedMN(mn, tx, h).nRevocationReason = mn.nRevocationReason
<1>1. CASE tx.type = "ProUpServ"
  <2>1. UpdatedMN(mn, tx, h) = ServiceUpdated(mn, tx, h)
    BY <1>1, Zenon DEF UpdatedMN
  <2>2. tx.addr \in Addrs
    BY <1>1, TxTypes, Zenon DEF ProUpServTxs
  <2> QED
    BY <1>1, <2>1, <2>2, Zenon
    DEF ServiceUpdated, Masternode, SameMN, RevokedBanned, IsBanned
<1>2. CASE tx.type = "ProUpReg"
  <2>1. UpdatedMN(mn, tx, h) = RegistrarUpdated(mn, tx, h)
    BY <1>2, Zenon DEF UpdatedMN
  <2>2. /\ tx.vchOperatorPubKey \in Keys \cup {NoKey}
        /\ tx.keyIDVoting \in Keys \cup {NoKey}
    BY <1>2, TxTypes, Zenon DEF ProUpRegTxs
  <2> DEFINE n == RegistrarUpdated(mn, tx, h)
             key  == IF tx.vchOperatorPubKey = NoKey THEN mn.vchOperatorPubKey
                                                     ELSE tx.vchOperatorPubKey
             vote == IF tx.keyIDVoting = NoKey THEN mn.keyIDVoting
                                               ELSE tx.keyIDVoting
             pen  == IF ResetsPoSe(mn, tx) THEN 0 ELSE mn.nPoSePenalty
             ban  == IF ResetsPoSe(mn, tx) THEN NotBanned ELSE mn.nPoSeBanHeight
             rev  == IF ResetsPoSe(mn, tx) THEN h ELSE mn.nPoSeRevivedHeight
  <2>6. n = [ mn EXCEPT !.nLastRegistrarUpdateHeight = h,
                        !.vchOperatorPubKey = key, !.keyIDVoting = vote,
                        !.nPoSePenalty = pen, !.nPoSeBanHeight = ban,
                        !.nPoSeRevivedHeight = rev ]
    BY Zenon DEF RegistrarUpdated, Masternode
  <2>7. /\ key \in Keys /\ vote \in Keys /\ pen \in Nat
        /\ ban \in Int /\ rev \in Int
    BY <2>2 DEF Masternode, NotBanned
  <2>8. mn.nRevocationReason # 0 => ban = mn.nPoSeBanHeight
    BY Zenon DEF ResetsPoSe
  <2> HIDE DEF n, key, vote, pen, ban, rev
  <2>3. n \in Masternode
    BY <2>6, <2>7, Zenon DEF Masternode
  <2>4. SameMN(mn, n) /\ n.nRevocationReason = mn.nRevocationReason
    BY <2>6, Zenon DEF Masternode, SameMN
  <2>5. mn.nRevocationReason # 0 => n.nPoSeBanHeight = mn.nPoSeBanHeight
    BY <2>6, <2>8, Zenon DEF Masternode
  <2> QED BY <2>1, <2>3, <2>4, <2>5, Zenon DEF RevokedBanned, IsBanned, n
<1>3. CASE tx.type = "ProUpRev"
  <2>1. UpdatedMN(mn, tx, h) = Revoked(mn, tx, h)
    BY <1>3, Zenon DEF UpdatedMN
  <2>2. tx.nReason \in 0 .. 3
    BY <1>3, TxTypes, Zenon DEF ProUpRevTxs
  <2>6. h \in Int
    OBVIOUS
  <2>7. Revoked(mn, tx, h) \in Masternode
    BY <2>2, <2>6, Zenon DEF Revoked, Masternode
  <2>3. SameMN(mn, Revoked(mn, tx, h))
    BY Zenon DEF Revoked, Masternode, SameMN
  <2>4. Revoked(mn, tx, h).nPoSeBanHeight = h
    BY Zenon DEF Revoked, Masternode
  <2>5. h # NotBanned
    BY DEF NotBanned
  <2> QED BY <1>3, <2>1, <2>7, <2>3, <2>4, <2>5, Zenon DEF RevokedBanned, IsBanned
<1> QED BY <1>1, <1>2, <1>3, Zenon DEF IsUpdate

-----------------------------------------------------------------------------
(* Steps that only touch or remove masternodes a list has *)

SoundList(l) == IsMNList(l) /\ SoundIndex(l)

CollComplete(l) == CompleteIndex(l, "utxo") /\ CompleteIndex(l, "key")

\* Whatever kind of property finds every masternode of l does so in n.
StillFound(l, n) == \A k : CompleteIndex(l, k) => CompleteIndex(n, k)

\* mn became m2 without a provider transaction.
KeepsMN(mn, m2) ==
  /\ SameMN(mn, m2)
  /\ m2.nRevocationReason = mn.nRevocationReason
  /\ RevokedBanned(mn) => RevokedBanned(m2)

Keeps(l, n) ==
  /\ SoundList(n)
  /\ StillFound(l, n)
  /\ n.nHeight = l.nHeight
  /\ DOMAIN n.mnMap \subseteq DOMAIN l.mnMap
  /\ \A p \in DOMAIN n.mnMap : KeepsMN(l.mnMap[p], n.mnMap[p])

\* Two such steps make one.
LEMMA KeepsTrans ==
  ASSUME NEW l, NEW m, NEW n, Keeps(l, m), Keeps(m, n)
  PROVE  Keeps(l, n)
<1>1. \A p \in DOMAIN n.mnMap : KeepsMN(l.mnMap[p], n.mnMap[p])
  BY Zenon DEF Keeps, KeepsMN, SameMN
<1>2. StillFound(l, n)
  BY Zenon DEF Keeps, StillFound
<1> QED BY <1>1, <1>2, Zenon DEF Keeps

\* Removing masternodes is such a step.
LEMMA RemoveKeeps ==
  ASSUME NEW l, SoundList(l), NEW S
  PROVE  Keeps(l, BatchRemoveMNs(l, S))
<1> DEFINE n == BatchRemoveMNs(l, S)
<1>1. SoundList(n)
  BY BatchRemoveSound, Zenon DEF SoundList
<1>2. StillFound(l, n)
  BY BatchRemoveComplete, Zenon DEF StillFound
<1>3. n.mnMap = Erase(l.mnMap, S \cap DOMAIN l.mnMap) /\ n.nHeight = l.nHeight
  BY MkListFields DEF BatchRemoveMNs
<1> HIDE DEF n
<1>4. /\ DOMAIN n.mnMap \subseteq DOMAIN l.mnMap
      /\ \A p \in DOMAIN n.mnMap : n.mnMap[p] = l.mnMap[p]
  BY <1>3, Zenon DEF Erase
<1> QED BY <1>1, <1>2, <1>3, <1>4, Zenon DEF Keeps, KeepsMN, SameMN, n

\* So are new states with the same properties.
LEMMA UpdateStatesKeeps ==
  ASSUME NEW l, SoundList(l), NEW upd,
         \A p \in DOMAIN upd \cap DOMAIN l.mnMap :
           /\ upd[p] \in Masternode
           /\ PropsOf(upd[p]) = PropsOf(l.mnMap[p])
           /\ KeepsMN(l.mnMap[p], upd[p])
  PROVE  Keeps(l, BatchUpdateMNStates(l, upd))
<1> DEFINE n == BatchUpdateMNStates(l, upd)
<1>1. SoundList(n)
  BY BatchUpdateSound, Zenon DEF SoundList
<1>2. StillFound(l, n)
  BY BatchUpdateComplete, Zenon DEF StillFound
<1>3. /\ n.mnMap = [ p \in DOMAIN l.mnMap |->
                       IF p \in DOMAIN upd THEN upd[p] ELSE l.mnMap[p] ]
      /\ n.nHeight = l.nHeight
  BY MkListFields DEF BatchUpdateMNStates
<1> HIDE DEF n
<1>4. ASSUME NEW p \in DOMAIN l.mnMap
      PROVE  KeepsMN(l.mnMap[p], n.mnMap[p])
  <2>1. CASE p \in DOMAIN upd
    BY <1>3, <2>1, Zenon
  <2>2. CASE p \notin DOMAIN upd
    BY <1>3, <2>2, Zenon DEF KeepsMN, SameMN
  <2> QED BY <2>1, <2>2, Zenon
<1> QED BY <1>1, <1>2, <1>3, <1>4, Zenon DEF Keeps, n

\* The pass over the spent collaterals leaves none of them, if all
\* collaterals are found.
LEMMA RemoveSpentKeeps ==
  ASSUME NEW l, SoundList(l), NEW b
  PROVE  /\ Keeps(l, RemoveSpentMNs(l, b))
         /\ CollComplete(l) =>
              \A p \in DOMAIN RemoveSpentMNs(l, b).mnMap :
                l.mnMap[p].collateralOutpoint \notin SpentBy(b)
<1> DEFINE n == BatchRemoveMNs(l, SpentMNs(l, b))
<1>1. n.mnMap = Erase(l.mnMap, SpentMNs(l, b) \cap DOMAIN l.mnMap)
  BY MkListFields DEF BatchRemoveMNs
<1>2. ASSUME CollComplete(l), NEW p \in DOMAIN n.mnMap
      PROVE  l.mnMap[p].collateralOutpoint \notin SpentBy(b)
  <2> DEFINE o == l.mnMap[p].collateralOutpoint
  <2>1. p \in DOMAIN l.mnMap /\ p \notin SpentMNs(l, b)
    BY <1>1, Zenon DEF Erase
  <2>2. <<"utxo", o>> \in PropsOf(l.mnMap[p])
    BY Zenon DEF PropsOf
  <2>3. p \in GetMNByCollateral(l, o)
    BY <1>2, <2>1, <2>2, Zenon
    DEF CollComplete, CompleteIndex, GetMNByCollateral, GetMNByProperty
  <2> QED BY <2>1, <2>3, Zenon DEF SpentMNs
<1> QED BY <1>2, RemoveKeeps, Zenon DEF RemoveSpentMNs

-----------------------------------------------------------------------------
(* The list before the first and after the last transaction *)

\* Recording a payment is such a step.
LEMMA RecordPaymentKeeps ==
  ASSUME NEW l, SoundList(l), NEW prev, NEW b, NEW h \in Nat
  PROVE  Keeps(l, RecordPayment(l, prev, b, h))
<1> DEFINE paid == GetMNPayee(prev, b, h) \cap DOMAIN l.mnMap
           upd  == [ p \in paid |-> [l.mnMap[p] EXCEPT !.nLastPaidHeight = h] ]
<1>1. ASSUME NEW p \in DOMAIN upd \cap DOMAIN l.mnMap
      PROVE  /\ upd[p] \in Masternode
             /\ PropsOf(upd[p]) = PropsOf(l.mnMap[p])
             /\ KeepsMN(l.mnMap[p], upd[p])
  <2> DEFINE mn == l.mnMap[p]
             m2 == [mn EXCEPT !.nLastPaidHeight = h]
  <2>1. mn \in Masternode /\ upd[p] = m2
    BY Zenon DEF SoundList, IsMNList, IsMap
  <2> HIDE DEF mn, upd
  <2>2. m2 \in Masternode
    BY <2>1, Zenon DEF Masternode
  <2>3. PropsOf(m2) = PropsOf(mn)
    BY <2>1, Zenon DEF Masternode, PropsOf
  <2>4. KeepsMN(mn, m2)
    BY <2>1, Zenon DEF Masternode, KeepsMN, SameMN, RevokedBanned, IsBanned
  <2> QED BY <2>1, <2>2, <2>3, <2>4, Zenon DEF mn
<1> HIDE DEF paid
<1>2. RecordPayment(l, prev, b, h) = BatchUpdateMNStates(l, upd)
  BY Zenon DEF RecordPayment, paid
<1> HIDE DEF upd
<1> QED BY <1>1, <1>2, UpdateStatesKeeps, Zenon

\* So is applying the penalties: a masternode that is banned stays banned.
LEMMA CheckAndPunishKeeps ==
  ASSUME NEW l, SoundList(l), NEW s, IsMap(s, TxIds, Nat), NEW h \in Nat
  PROVE  Keeps(l, CheckAndPunish(l, s, h))
<1> DEFINE hit == { p \in DOMAIN s \cap DOMAIN l.mnMap : ~IsBanned(l.mnMap[p]) }
           ban(p) == IF s[p] >= nPoSeBanThreshold THEN h
                     ELSE l.mnMap[p].nPoSeBanHeight
           upd == [ p \in hit |-> [ l.mnMap[p] EXCEPT !.nPoSePenalty = s[p],
                                                      !.nPoSeBanHeight = ban(p) ] ]
<1>1. ASSUME NEW p \in DOMAIN upd \cap DOMAIN l.mnMap
      PROVE  /\ upd[p] \in Masternode
             /\ PropsOf(upd[p]) = PropsOf(l.mnMap[p])
             /\ KeepsMN(l.mnMap[p], upd[p])
  <2> DEFINE mn == l.mnMap[p]
             sp == s[p]
             bh == ban(p)
             m2 == [mn EXCEPT !.nPoSePenalty = sp, !.nPoSeBanHeight = bh]
  <2>1. mn \in Masternode /\ upd[p] = m2 /\ ~IsBanned(mn)
    BY Zenon DEF SoundList, IsMNList, IsMap
  <2>2. sp \in Nat
    BY Zenon DEF IsMap
  <2> HIDE DEF mn, upd, sp, bh
  <2>3. mn.nPoSeBanHeight \in Int /\ h \in Int
    BY <2>1 DEF Masternode
  <2>4. bh \in Int
    BY <2>3, Zenon DEF mn, bh
  <2> HIDE DEF ban
  <2>5. m2 \in Masternode
    BY <2>1, <2>2, <2>4, Zenon DEF Masternode
  <2>6. PropsOf(m2) = PropsOf(mn)
    BY <2>1, Zenon DEF Masternode, PropsOf
  <2>7. SameMN(mn, m2) /\ m2.nRevocationReason = mn.nRevocationReason
    BY <2>1, Zenon DEF Masternode, SameMN
  <2>8. RevokedBanned(mn) => RevokedBanned(m2)
    BY <2>1, <2>7, Zenon DEF RevokedBanned
  <2> QED BY <2>1, <2>5, <2>6, <2>7, <2>8, SMTT(30) DEF mn, KeepsMN
<1>2. CheckAndPunish(l, s, h) = BatchUpdateMNStates(l, upd)
  <2>1. ASSUME NEW p \in hit
        PROVE  [ l.mnMap[p] EXCEPT !.nPoSePenalty = s[p],
                   !.nPoSeBanHeight = IF s[p] >= nPoSeBanThreshold THEN h ELSE @ ]
               = [ l.mnMap[p] EXCEPT !.nPoSePenalty = s[p], !.nPoSeBanHeight = ban(p) ]
    <3> DEFINE mn == l.mnMap[p]
    <3>1. mn \in Masternode
      BY Zenon DEF SoundList, IsMNList, IsMap
    <3> QED BY <3>1, Zenon DEF Masternode
  <2> QED BY <2>1, Zenon DEF CheckAndPunish
<1> HIDE DEF upd
<1> QED BY <1>1, <1>2, UpdateStatesKeeps, Zenon

\* So is reviving: only masternodes that are not revoked for a reason.
LEMMA ReviveKeeps ==
  ASSUME NEW l, SoundList(l), NEW h \in Nat
  PROVE  Keeps(l, Revive(l, h))
<1> DEFINE upd == [ p \in Revivable(l, h) |->
                      [ l.mnMap[p] EXCEPT !.nPoSeBanHeight = NotBanned,
                                          !.nPoSePenalty = 0,
                                          !.nPoSeRevivedHeight = h,
                                          !.nLastPaidHeight = h ] ]
<1>1. ASSUME NEW p \in DOMAIN upd \cap DOMAIN l.mnMap
      PROVE  /\ upd[p] \in Masternode
             /\ PropsOf(upd[p]) = PropsOf(l.mnMap[p])
             /\ KeepsMN(l.mnMap[p], upd[p])
  <2> DEFINE mn == l.mnMap[p]
             m2 == [ mn EXCEPT !.nPoSeBanHeight = NotBanned, !.nPoSePenalty = 0,
                               !.nPoSeRevivedHeight = h, !.nLastPaidHeight = h ]
  <2>1. mn \in Masternode /\ upd[p] = m2 /\ mn.nRevocationReason = 0
    BY Zenon DEF SoundList, IsMNList, IsMap, Revivable
  <2>2. NotBanned \in Int /\ h \in Int
    BY DEF NotBanned
  <2> HIDE DEF mn, upd
  <2>3. m2 \in Masternode
    BY <2>1, <2>2, Zenon DEF Masternode
  <2>4. PropsOf(m2) = PropsOf(mn)
    BY <2>1, Zenon DEF Masternode, PropsOf
  <2>5. SameMN(mn, m2) /\ m2.nRevocationReason = mn.nRevocationReason
    BY <2>1, Zenon DEF Masternode, SameMN
  <2> QED BY <2>1, <2>3, <2>4, <2>5, Zenon DEF mn, KeepsMN, RevokedBanned
<1>2. Revive(l, h) = BatchUpdateMNStates(l, upd)
  BY Zenon DEF Revive
<1> HIDE DEF upd
<1> QED BY <1>1, <1>2, UpdateStatesKeeps, Zenon

\* What follows the last transaction keeps the list, and leaves no masternode
\* whose collateral the block spends.
LEMMA FinishListKeeps ==
  ASSUME NEW l, SoundList(l), NEW prev, prev.nHeight \in Nat, NEW b, NEW S,
         NEW s, IsMap(s, TxIds, Nat), NEW bh
  PROVE  LET n == FinishList(l, prev, b, S, s, bh)
         IN  /\ Keeps(l, n)
             /\ CollComplete(l) /\ ~IsMigrationBlock(prev.nHeight + 1) =>
                  \A p \in DOMAIN n.mnMap :
                    n.mnMap[p].collateralOutpoint \notin SpentBy(b)
<1> DEFINE h  == prev.nHeight + 1
           l1 == RemoveSpentMNs(l, b)
           l2 == RemoveTierMismatches(l1, S, h)
           l3 == RecordPayment(l2, prev, bh, h)
           l4 == CheckAndPunish(l3, s, h)
           l5 == Revive(l4, h)
<1>1. h \in Nat
  OBVIOUS
<1>2. FinishList(l, prev, b, S, s, bh) = IF IsMigrationBlock(h) THEN l ELSE l5
  BY Zenon DEF FinishList, Punished
<1>3. Keeps(l, l1) /\ SoundList(l1)
  BY RemoveSpentKeeps, Zenon DEF Keeps
<1> HIDE DEF h, l1
<1>4. Keeps(l1, l2) /\ SoundList(l2)
  BY <1>3, RemoveKeeps, Zenon DEF Keeps, RemoveTierMismatches
<1> HIDE DEF l2
<1>5. Keeps(l2, l3) /\ SoundList(l3)
  BY <1>1, <1>4, RecordPaymentKeeps, Zenon DEF Keeps
<1> HIDE DEF l3
<1>6. Keeps(l3, l4) /\ SoundList(l4)
  BY <1>1, <1>5, CheckAndPunishKeeps, Zenon DEF Keeps
<1> HIDE DEF l4
<1>7. Keeps(l4, l5)
  BY <1>1, <1>6, ReviveKeeps, Zenon
<1> HIDE DEF l5
<1>8. Keeps(l1, l5)
  BY <1>4, <1>5, <1>6, <1>7, KeepsTrans, SMTT(30)
<1>9. Keeps(l, l5) /\ Keeps(l, l)
  BY <1>3, <1>8, KeepsTrans, Zenon DEF Keeps, KeepsMN, SameMN, StillFound
<1>10. ASSUME CollComplete(l), NEW p \in DOMAIN l5.mnMap
       PROVE  l5.mnMap[p].collateralOutpoint \notin SpentBy(b)
  <2>1. p \in DOMAIN l1.mnMap
    BY <1>8, Zenon DEF Keeps
  <2>2. l.mnMap[p].collateralOutpoint \notin SpentBy(b)
    BY <1>10, <2>1, RemoveSpentKeeps, Zenon DEF l1
  <2> QED BY <1>9, <2>2, Zenon DEF Keeps, KeepsMN, SameMN
<1> QED BY <1>2, <1>9, <1>10, Zenon DEF h

\* The list the transactions start from: every masternode on it is one of the
\* previous list, unchanged.
LEMMA StartListSound ==
  ASSUME NEW prev, SoundList(prev), NEW b
  PROVE  LET n == StartList(prev, b)
         IN  /\ SoundList(n)
             /\ n.nHeight = prev.nHeight + 1
             /\ StillFound(prev, n)
             /\ IsMigrationBlock(prev.nHeight + 1) => \A k : CompleteIndex(n, k)
             /\ \A p \in DOMAIN n.mnMap :
                  /\ ~IsMigrationBlock(prev.nHeight + 1)
                  /\ p \in DOMAIN prev.mnMap
                  /\ KeepsMN(prev.mnMap[p], n.mnMap[p])
<1> DEFINE h == prev.nHeight + 1
           c == CopyList(prev, h)
<1>1. h \in Nat
  BY DEF SoundList, IsMNList
<1>2. CASE IsMigrationBlock(h)
  <2>1. StartList(prev, b) = EmptyList(h)
    BY <1>2, Zenon DEF StartList
  <2>2. EmptyList(h).mnMap = EmptyMap /\ EmptyList(h).nHeight = h
    BY MkListFields DEF EmptyList
  <2>3. DOMAIN EmptyMap = {}
    BY Zenon DEF EmptyMap
  <2>4. SoundList(EmptyList(h))
    BY <1>1, EmptyListSound, Zenon DEF SoundList
  <2>5. \A k : CompleteIndex(EmptyList(h), k)
    BY <2>2, <2>3, Zenon DEF CompleteIndex
  <2> QED BY <2>1, <2>2, <2>3, <2>4, <2>5, Zenon DEF StillFound
<1>3. CASE ~IsMigrationBlock(h)
  <2>1. StartList(prev, b) = RemoveSpentMNs(c, b)
    BY <1>3, Zenon DEF StartList
  <2>2. SoundList(c)
    BY <1>1, CopyListSound, Zenon DEF SoundList
  <2>3. StillFound(prev, c)
    BY CopyListComplete, Zenon DEF SoundList, StillFound
  <2>4. c.mnMap = prev.mnMap /\ c.nHeight = h
    BY MkListFields DEF CopyList
  <2> HIDE DEF c
  <2>5. Keeps(c, RemoveSpentMNs(c, b))
    BY <2>2, RemoveSpentKeeps, Zenon
  <2>6. StillFound(prev, RemoveSpentMNs(c, b))
    BY <2>3, <2>5, Zenon DEF Keeps, StillFound
  <2> QED BY <1>3, <2>1, <2>4, <2>5, <2>6, Zenon DEF Keeps
<1> QED BY <1>2, <1>3, Zenon

-----------------------------------------------------------------------------
(* The effect of one transaction *)

\* A registration adds one masternode; the others stay as they are.  All are
\* found by collateral and owner if no other masternode has the new one's.
LEMMA RegisterApplied ==
  ASSUME NEW l, SoundList(l), NEW tx \in Txs, tx.type = "ProReg",
         tx.id \notin DOMAIN l.mnMap, NEW S, NEW h \in Nat
  PROVE  LET n == ApplyTx(l, tx, S, h)
         IN  /\ SoundList(n)
             /\ n.nHeight = l.nHeight
             /\ DOMAIN n.mnMap = DOMAIN l.mnMap \cup {tx.id}
             /\ \A p \in DOMAIN l.mnMap : n.mnMap[p] = l.mnMap[p]
             /\ n.mnMap[tx.id].collateralOutpoint = tx.collateralOutpoint
             /\ n.mnMap[tx.id].keyIDOwner = tx.keyIDOwner
             /\ n.mnMap[tx.id].nRegisteredHeight = h
             /\ n.mnMap[tx.id].nRevocationReason = 0
             /\ /\ CollComplete(l)
                /\ \A p \in DOMAIN l.mnMap :
                     /\ l.mnMap[p].collateralOutpoint # tx.collateralOutpoint
                     /\ l.mnMap[p].keyIDOwner # tx.keyIDOwner
                => CollComplete(n)
<1> DEFINE mn == RegisteredMN(tx, l, S, h)
           n  == AddMN(l, tx.id, mn)
<1>1. ApplyTx(l, tx, S, h) = n
  BY Zenon DEF ApplyTx, NotProvider
<1>2. mn \in Masternode
  BY RegisteredMNType, Zenon DEF SoundList
<1>3. /\ mn.collateralOutpoint = tx.collateralOutpoint
      /\ mn.keyIDOwner = tx.keyIDOwner
      /\ mn.nRegisteredHeight = h
      /\ mn.nRevocationReason = 0
  BY Zenon DEF RegisteredMN
<1>4. tx.id \in TxIds
  BY TxTypes, Zenon
<1> HIDE DEF mn
<1>5. SoundList(n)
  BY <1>2, <1>4, AddMNSound, Zenon DEF SoundList
<1>6. n.mnMap = Put(l.mnMap, {tx.id}, mn) /\ n.nHeight = l.nHeight
  BY MkListFields DEF AddMN
<1>7. ASSUME CollComplete(l),
             \A p \in DOMAIN l.mnMap :
               /\ l.mnMap[p].collateralOutpoint # tx.collateralOutpoint
               /\ l.mnMap[p].keyIDOwner # tx.keyIDOwner
      PROVE  CollComplete(n)
  <2>1. ASSUME NEW q \in PropsOf(mn), q[1] \in {"utxo", "key"}
        PROVE  ~HasUniqueProperty(l, q)
    <3>1. \/ q = <<"utxo", tx.collateralOutpoint>> \/ q = <<"key", tx.keyIDOwner>>
      BY <1>3, <2>1 DEF PropsOf
    <3>2. \A p \in DOMAIN l.mnMap : q \notin PropsOf(l.mnMap[p])
      BY <1>7, <3>1 DEF PropsOf
    <3> QED BY <3>2, Zenon DEF SoundList, SoundIndex, HasMN, HasUniqueProperty
  <2> QED BY <1>7, <2>1, AddMNComplete, Zenon DEF CollComplete
<1> HIDE DEF n
<1>8. /\ DOMAIN n.mnMap = DOMAIN l.mnMap \cup {tx.id}
      /\ \A p \in DOMAIN l.mnMap : n.mnMap[p] = l.mnMap[p]
      /\ n.mnMap[tx.id] = mn
  BY <1>6, Zenon DEF Put
<1> QED BY <1>1, <1>3, <1>5, <1>6, <1>7, <1>8, SMTT(30)

\* An update touches one masternode at most, which keeps its collateral and
\* its owner.
LEMMA UpdateApplied ==
  ASSUME NEW l, SoundList(l), NEW tx \in Txs, IsUpdate(tx),
         HasMN(l, tx.proTxHash), NEW S, NEW h \in Nat
  PROVE  LET n == ApplyTx(l, tx, S, h)
         IN  /\ SoundList(n)
             /\ n.nHeight = l.nHeight
             /\ DOMAIN n.mnMap = DOMAIN l.mnMap
             /\ \A p \in DOMAIN l.mnMap :
                  /\ SameMN(l.mnMap[p], n.mnMap[p])
                  /\ RevokedBanned(l.mnMap[p]) => RevokedBanned(n.mnMap[p])
                  /\ tx.type # "ProUpRev" \/ p # tx.proTxHash =>
                       n.mnMap[p].nRevocationReason = l.mnMap[p].nRevocationReason
             /\ StillFound(l, n)
<1> DEFINE r  == tx.proTxHash
           mn == l.mnMap[r]
           m2 == UpdatedMN(mn, tx, h)
           n  == UpdateMN(l, r, m2)
<1>1. ApplyTx(l, tx, S, h) = n
  BY Zenon DEF ApplyTx, NotProvider, IsUpdate
<1>2. r \in TxIds /\ mn \in Masternode
  BY Zenon DEF HasMN, SoundList, IsMNList, IsMap
<1>3. /\ m2 \in Masternode
      /\ SameMN(mn, m2)
      /\ RevokedBanned(mn) => RevokedBanned(m2)
      /\ tx.type # "ProUpRev" => m2.nRevocationReason = mn.nRevocationReason
  BY <1>2, UpdatedMNType, Zenon
<1> HIDE DEF m2
<1>4. SoundList(n)
  BY <1>2, <1>3, UpdateMNSound, Zenon DEF SoundList
<1>5. StillFound(l, n)
  BY UpdateMNComplete, Zenon DEF StillFound
<1>6. n = l \/ (n.mnMap = Put(l.mnMap, {r}, m2) /\ n.nHeight = l.nHeight)
  <2>1. n = l \/ \E u : n = MkList(Put(l.mnMap, {r}, m2), u, l.nTotalRegisteredCount, l.nHeight)
    BY Zenon DEF UpdateMN
  <2> HIDE DEF n
  <2> QED BY <2>1, MkListFields
<1> HIDE DEF n
<1>7. /\ n.nHeight = l.nHeight
      /\ DOMAIN n.mnMap = DOMAIN l.mnMap
      /\ \A p \in DOMAIN l.mnMap : n.mnMap[p] = l.mnMap[p] \/ (p = r /\ n.mnMap[p] = m2)
  BY <1>6, Zenon DEF Put, HasMN
<1>8. ASSUME NEW p \in DOMAIN l.mnMap
      PROVE  /\ SameMN(l.mnMap[p], n.mnMap[p])
             /\ RevokedBanned(l.mnMap[p]) => RevokedBanned(n.mnMap[p])
             /\ tx.type # "ProUpRev" \/ p # tx.proTxHash =>
                  n.mnMap[p].nRevocationReason = l.mnMap[p].nRevocationReason
  BY <1>3, <1>7, Zenon DEF SameMN
<1> QED BY <1>1, <1>4, <1>5, <1>7, <1>8, Zenon

-----------------------------------------------------------------------------
(* Bans *)

\* New states touch the masternodes they are for only.
LEMMA BatchUpdateMap ==
  ASSUME NEW l, NEW upd
  PROVE  LET n == BatchUpdateMNStates(l, upd)
         IN  /\ DOMAIN n.mnMap = DOMAIN l.mnMap
             /\ \A p \in DOMAIN l.mnMap :
                  n.mnMap[p] = IF p \in DOMAIN upd THEN upd[p] ELSE l.mnMap[p]
<1> DEFINE n == BatchUpdateMNStates(l, upd)
<1>1. n.mnMap = [ p \in DOMAIN l.mnMap |->
                    IF p \in DOMAIN upd THEN upd[p] ELSE l.mnMap[p] ]
  BY MkListFields DEF BatchUpdateMNStates
<1> HIDE DEF n
<1> QED BY <1>1, Zenon DEF n

\* Removing some masternodes leaves the others as they are.
LEMMA BatchRemoveMap ==
  ASSUME NEW l, NEW S
  PROVE  LET n == BatchRemoveMNs(l, S)
         IN  /\ DOMAIN n.mnMap \subseteq DOMAIN l.mnMap
             /\ \A p \in DOMAIN n.mnMap : n.mnMap[p] = l.mnMap[p]
<1> DEFINE n == BatchRemoveMNs(l, S)
<1>1. n.mnMap = Erase(l.mnMap, S \cap DOMAIN l.mnMap)
  BY MkListFields DEF BatchRemoveMNs
<1> HIDE DEF n
<1> QED BY <1>1, Zenon DEF Erase, n

\* Only a revocation bans, at the height of the block; a change of the operator
\* key may lift a ban.
LEMMA UpdatedBan ==
  ASSUME NEW tx \in Txs, IsUpdate(tx), NEW mn \in Masternode, NEW h \in Nat
  PROVE  \/ UpdatedMN(mn, tx, h).nPoSeBanHeight = mn.nPoSeBanHeight
         \/ UpdatedMN(mn, tx, h).nPoSeBanHeight = NotBanned
         \/ tx.type = "ProUpRev" /\ UpdatedMN(mn, tx, h).nPoSeBanHeight = h
<1>1. CASE tx.type = "ProUpServ"
  <2>1. UpdatedMN(mn, tx, h) = ServiceUpdated(mn, tx, h)
    BY <1>1, Zenon DEF UpdatedMN
  <2> QED BY <1>1, <2>1, Zenon DEF ServiceUpdated, Masternode
<1>2. CASE tx.type = "ProUpReg"
  <2>1. UpdatedMN(mn, tx, h) = RegistrarUpdated(mn, tx, h)
    BY <1>2, Zenon DEF UpdatedMN
  <2> QED BY <1>2, <2>1, Zenon DEF RegistrarUpdated, Masternode
<1>3. CASE tx.type = "ProUpRev"
  <2>1. UpdatedMN(mn, tx, h) = Revoked(mn, tx, h)
    BY <1>3, Zenon DEF UpdatedMN
  <2> QED BY <1>3, <2>1, Zenon DEF Revoked, Masternode
<1> QED BY <1>1, <1>2, <1>3, Zenon DEF IsUpdate

\* What an update that is applied does to the bans of a list.
LEMMA UpdateBans ==
  ASSUME NEW l, SoundList(l), NEW tx \in Txs, IsUpdate(tx),
         HasMN(l, tx.proTxHash), NEW S, NEW h \in Nat
  PROVE  LET n == ApplyTx(l, tx, S, h)
         IN  /\ DOMAIN n.mnMap = DOMAIN l.mnMap
             /\ \A p \in DOMAIN l.mnMap :
                  \/ n.mnMap[p].nPoSeBanHeight = l.mnMap[p].nPoSeBanHeight
                  \/ n.mnMap[p].nPoSeBanHeight = NotBanned
                  \/ /\ tx.type = "ProUpRev" /\ p = tx.proTxHash
                     /\ n.mnMap[p].nPoSeBanHeight = h
<1> DEFINE r  == tx.proTxHash
           mn == l.mnMap[r]
           m2 == UpdatedMN(mn, tx, h)
           n  == UpdateMN(l, r, m2)
<1>1. ApplyTx(l, tx, S, h) = n
  BY Zenon DEF ApplyTx, NotProvider, IsUpdate
<1>2. mn \in Masternode
  BY Zenon DEF HasMN, SoundList, IsMNList, IsMap
<1>3. \/ m2.nPoSeBanHeight = mn.nPoSeBanHeight
      \/ m2.nPoSeBanHeight = NotBanned
      \/ tx.type = "ProUpRev" /\ m2.nPoSeBanHeight = h
  BY <1>2, UpdatedBan, Zenon
<1> HIDE DEF m2
<1>4. n = l \/ n.mnMap = Put(l.mnMap, {r}, m2)
  BY MkListFields DEF UpdateMN
<1> HIDE DEF n
<1> QED BY <1>1, <1>3, <1>4, Zenon DEF Put, HasMN

\* A registration makes a masternode that is not banned.
LEMMA RegisterBans ==
  ASSUME NEW l, NEW tx, tx.type = "ProReg", NEW S, NEW h
  PROVE  LET n == ApplyTx(l, tx, S, h)
         IN  /\ DOMAIN n.mnMap = DOMAIN l.mnMap \cup {tx.id}
             /\ \A p \in DOMAIN l.mnMap : p # tx.id => n.mnMap[p] = l.mnMap[p]
             /\ n.mnMap[tx.id].nPoSeBanHeight = NotBanned
<1> DEFINE mn == RegisteredMN(tx, l, S, h)
           n  == AddMN(l, tx.id, mn)
<1>1. ApplyTx(l, tx, S, h) = n
  BY Zenon DEF ApplyTx, NotProvider
<1>2. mn.nPoSeBanHeight = NotBanned
  BY Zenon DEF RegisteredMN
<1> HIDE DEF mn
<1>3. n.mnMap = Put(l.mnMap, {tx.id}, mn)
  BY MkListFields DEF AddMN
<1> HIDE DEF n
<1> QED BY <1>1, <1>2, <1>3, Zenon DEF Put

\* The list the transactions start from has the bans of the previous one.
LEMMA StartBans ==
  ASSUME NEW prev, NEW b
  PROVE  LET n == StartList(prev, b)
         IN  \A p \in DOMAIN n.mnMap :
               /\ ~IsMigrationBlock(prev.nHeight + 1)
               /\ p \in DOMAIN prev.mnMap
               /\ n.mnMap[p] = prev.mnMap[p]
<1> DEFINE h == prev.nHeight + 1
           c == CopyList(prev, h)
<1>1. CASE IsMigrationBlock(h)
  BY <1>1, MkListFields DEF StartList, EmptyList, EmptyMap
<1>2. CASE ~IsMigrationBlock(h)
  <2>1. StartList(prev, b) = BatchRemoveMNs(c, SpentMNs(c, b))
    BY <1>2, Zenon DEF StartList, RemoveSpentMNs
  <2>2. c.mnMap = prev.mnMap
    BY MkListFields DEF CopyList
  <2> HIDE DEF c
  <2> QED BY <1>2, <2>1, <2>2, BatchRemoveMap
<1> QED BY <1>1, <1>2, Zenon

\* Before the revivals a masternode has the ban it had or, if CheckAndPunish
\* found its score too high, one of this block.
LEMMA PunishedBans ==
  ASSUME NEW l, SoundList(l), NEW prev, prev.nHeight \in Nat, NEW b, NEW S,
         NEW s, IsMap(s, TxIds, Nat), NEW bh
  PROVE  LET n == Punished(l, prev, b, S, s, bh)
         IN  /\ SoundList(n)
             /\ DOMAIN n.mnMap \subseteq DOMAIN l.mnMap
             /\ \A p \in DOMAIN n.mnMap :
                  n.mnMap[p].nPoSeBanHeight
                    \in {l.mnMap[p].nPoSeBanHeight, prev.nHeight + 1}
<1> DEFINE h  == prev.nHeight + 1
           l1 == RemoveSpentMNs(l, b)
           l2 == RemoveTierMismatches(l1, S, h)
           l3 == RecordPayment(l2, prev, bh, h)
           l4 == CheckAndPunish(l3, s, h)
<1>1. h \in Nat
  OBVIOUS
<1>2. Punished(l, prev, b, S, s, bh) = l4
  BY Zenon DEF Punished
<1>3. h = prev.nHeight + 1
  BY Zenon
<1> HIDE DEF h
<1>4. /\ SoundList(l1) /\ DOMAIN l1.mnMap \subseteq DOMAIN l.mnMap
      /\ \A p \in DOMAIN l1.mnMap : l1.mnMap[p] = l.mnMap[p]
  <2>1. l1 = BatchRemoveMNs(l, SpentMNs(l, b))
    BY Zenon DEF RemoveSpentMNs
  <2> HIDE DEF l1
  <2>2. Keeps(l, l1)
    BY <2>1, RemoveKeeps, Zenon
  <2>3. /\ DOMAIN l1.mnMap \subseteq DOMAIN l.mnMap
        /\ \A p \in DOMAIN l1.mnMap : l1.mnMap[p] = l.mnMap[p]
    BY <2>1, BatchRemoveMap, Zenon
  <2> QED BY <2>2, <2>3, Zenon DEF Keeps
<1> HIDE DEF l1
<1>5. /\ SoundList(l2) /\ DOMAIN l2.mnMap \subseteq DOMAIN l1.mnMap
      /\ \A p \in DOMAIN l2.mnMap : l2.mnMap[p] = l1.mnMap[p]
  BY <1>4, RemoveKeeps, BatchRemoveMap, Zenon DEF RemoveTierMismatches, Keeps
<1> HIDE DEF l2
<1>6. /\ SoundList(l3) /\ DOMAIN l3.mnMap = DOMAIN l2.mnMap
      /\ \A p \in DOMAIN l3.mnMap : l3.mnMap[p].nPoSeBanHeight = l2.mnMap[p].nPoSeBanHeight
  <2>1. SoundList(l3)
    BY <1>1, <1>5, RecordPaymentKeeps, Zenon DEF Keeps
  <2> DEFINE paid == GetMNPayee(prev, bh, h) \cap DOMAIN l2.mnMap
             upd  == [ p \in paid |-> [l2.mnMap[p] EXCEPT !.nLastPaidHeight = h] ]
  <2>2. l3 = BatchUpdateMNStates(l2, upd)
    BY Zenon DEF RecordPayment
  <2>3. \A p \in DOMAIN l2.mnMap : l2.mnMap[p] \in Masternode
    BY <1>5, Zenon DEF SoundList, IsMNList, IsMap
  <2>4. \A p \in DOMAIN upd : upd[p].nPoSeBanHeight = l2.mnMap[p].nPoSeBanHeight
    <3> HIDE DEF l3
    <3> SUFFICES ASSUME NEW p \in paid
                 PROVE  upd[p].nPoSeBanHeight = l2.mnMap[p].nPoSeBanHeight
      BY Zenon
    <3>1. upd[p] = [l2.mnMap[p] EXCEPT !.nLastPaidHeight = h]
      BY Zenon
    <3> QED BY <2>3, <3>1, Zenon DEF Masternode
  <2> HIDE DEF upd, l3
  <2> QED BY <2>1, <2>2, <2>4, BatchUpdateMap
<1> HIDE DEF l3
<1>7. /\ SoundList(l4) /\ DOMAIN l4.mnMap = DOMAIN l3.mnMap
      /\ \A p \in DOMAIN l4.mnMap :
           l4.mnMap[p].nPoSeBanHeight \in {l3.mnMap[p].nPoSeBanHeight, h}
  <2>1. SoundList(l4)
    BY <1>1, <1>6, CheckAndPunishKeeps, Zenon DEF Keeps
  <2> DEFINE hit == { p \in DOMAIN s \cap DOMAIN l3.mnMap : ~IsBanned(l3.mnMap[p]) }
             upd == [ p \in hit |->
                        [ l3.mnMap[p] EXCEPT
                            !.nPoSePenalty = s[p],
                            !.nPoSeBanHeight =
                               IF s[p] >= nPoSeBanThreshold THEN h ELSE @ ] ]
  <2>2. l4 = BatchUpdateMNStates(l3, upd)
    BY Zenon DEF CheckAndPunish
  <2>3. \A p \in DOMAIN l3.mnMap : l3.mnMap[p] \in Masternode
    BY <1>6, Zenon DEF SoundList, IsMNList, IsMap
  <2>4. ASSUME NEW p \in hit
        PROVE  upd[p].nPoSeBanHeight \in {l3.mnMap[p].nPoSeBanHeight, h}
    <3> DEFINE mn == l3.mnMap[p]
               m2 == [ mn EXCEPT !.nPoSePenalty = s[p],
                                 !.nPoSeBanHeight =
                                    IF s[p] >= nPoSeBanThreshold THEN h ELSE @ ]
    <3>1. upd[p] = m2 /\ mn \in Masternode
      BY <2>3, Zenon
    <3> HIDE DEF mn, upd
    <3>2. m2.nPoSeBanHeight \in {mn.nPoSeBanHeight, h}
      BY <3>1, Zenon DEF Masternode
    <3> QED BY <3>1, <3>2, Zenon DEF mn
  <2>5. DOMAIN upd = hit
    BY Zenon
  <2> HIDE DEF upd, l4, hit
  <2> QED BY <2>1, <2>2, <2>4, <2>5, BatchUpdateMap
<1> HIDE DEF l4
<1> QED BY <1>2, <1>3, <1>4, <1>5, <1>6, <1>7

\* After the revivals a masternode either is not banned or is as it was, and
\* too recently banned or revoked for a reason.
LEMMA RevivedBans ==
  ASSUME NEW l, SoundList(l), NEW h \in Nat
  PROVE  LET n == Revive(l, h)
         IN  /\ DOMAIN n.mnMap = DOMAIN l.mnMap
             /\ \A p \in DOMAIN n.mnMap :
                  \/ n.mnMap[p].nPoSeBanHeight = NotBanned
                  \/ p \notin Revivable(l, h) /\ n.mnMap[p] = l.mnMap[p]
<1> DEFINE upd == [ p \in Revivable(l, h) |->
                      [ l.mnMap[p] EXCEPT !.nPoSeBanHeight = NotBanned,
                                          !.nPoSePenalty = 0,
                                          !.nPoSeRevivedHeight = h,
                                          !.nLastPaidHeight = h ] ]
<1>1. Revive(l, h) = BatchUpdateMNStates(l, upd)
  BY Zenon DEF Revive
<1>2. ASSUME NEW p \in Revivable(l, h)
      PROVE  upd[p].nPoSeBanHeight = NotBanned
  <2> DEFINE mn == l.mnMap[p]
  <2>1. mn \in Masternode
    BY Zenon DEF Revivable, SoundList, IsMNList, IsMap
  <2>2. upd[p] = [ mn EXCEPT !.nPoSeBanHeight = NotBanned, !.nPoSePenalty = 0,
                             !.nPoSeRevivedHeight = h, !.nLastPaidHeight = h ]
    BY Zenon
  <2> HIDE DEF mn, upd
  <2> QED BY <2>1, <2>2, Zenon DEF Masternode
<1>3. DOMAIN upd = Revivable(l, h)
  BY Zenon
<1> DEFINE n == Revive(l, h)
<1>4. /\ DOMAIN n.mnMap = DOMAIN l.mnMap
      /\ \A p \in DOMAIN l.mnMap :
           n.mnMap[p] = IF p \in DOMAIN upd THEN upd[p] ELSE l.mnMap[p]
  <2> HIDE DEF upd
  <2> QED BY <1>1, BatchUpdateMap
<1> HIDE DEF upd, n
<1>5. ASSUME NEW p \in DOMAIN n.mnMap
      PROVE  \/ n.mnMap[p].nPoSeBanHeight = NotBanned
             \/ p \notin Revivable(l, h) /\ n.mnMap[p] = l.mnMap[p]
  <2>1. CASE p \in Revivable(l, h)
    BY <1>2, <1>3, <1>4, <2>1, Zenon
  <2>2. CASE p \notin Revivable(l, h)
    BY <1>3, <1>4, <2>2, Zenon
  <2> QED BY <2>1, <2>2, Zenon
<1> QED BY <1>4, <1>5, Zenon DEF n

=============================================================================
