------------------------------- MODULE MNList -------------------------------
(***************************************************************************)
(* CDeterministicMNList (src/src/evo/deterministicmns.{h,cpp}): the set of *)
(* registered masternodes after a block, with the index of their unique    *)
(* properties.  The class is immutable: every update returns a new list.   *)
(* This module has no variables; the operators below are its methods.      *)
(*                                                                         *)
(* A list is a record                                                      *)
(*   mnMap                 : proTxHash -> masternode (a partial function)  *)
(*   mnUniquePropertyMap   : property  -> proTxHash  (a partial function)  *)
(*   nTotalRegisteredCount : how many masternodes were ever added          *)
(*   nHeight               : the height of the block it belongs to         *)
(*                                                                         *)
(* A proTxHash is the hash of the registering transaction, here a number,  *)
(* so that the two places where hashes are ordered (map iteration and the  *)
(* tie-break of the payee) have an order to use.  A property hash is       *)
(* SHA256 of a tag and a value; it is modelled by the pair itself, so two  *)
(* properties collide only if they are the same.  Payout scripts and the   *)
(* operator's reward decide nothing about the list and are left out.       *)
(***************************************************************************)
EXTENDS Integers, FiniteSets

CONSTANTS
  MaxTxId,              \* transaction hashes are 1 .. MaxTxId
  Outpoints,            \* collateral outpoints
  Addrs,                \* service addresses
  Keys,                 \* owner, voting and operator keys
  nMasternodeCollateralConfirmations,
  RawScore(_, _, _)     \* hash of (proTxHash, block, blocksSincePayment)

ASSUME MNListConstants ==
  /\ MaxTxId \in Nat
  /\ nMasternodeCollateralConfirmations \in Nat

TxIds == 1 .. MaxTxId

\* -1 in nPoSeBanHeight: the masternode is not banned.
NotBanned == -1

Masternode ==
  [ collateralOutpoint : Outpoints,
    addr               : Addrs,
    keyIDOwner         : Keys,
    keyIDVoting        : Keys,
    vchOperatorPubKey  : Keys,
    internalId         : Nat,
    nRegisteredHeight  : Nat,
    nLastPaidHeight    : Nat,
    nPoSePenalty       : Nat,
    nPoSeRevivedHeight : Int,
    nPoSeBanHeight     : Int,
    nRevocationReason  : 0 .. 3,
    nTier              : 0 .. 3,
    nLastServiceUpdateHeight   : Nat,
    nLastRegistrarUpdateHeight : Nat ]

Properties ==
  ({"utxo"} \X Outpoints) \cup ({"addr"} \X Addrs)
    \cup ({"key", "voting", "operator"} \X Keys)

\* The five unique properties of a masternode, each tagged with its domain.
PropsOf(mn) ==
  { <<"utxo",     mn.collateralOutpoint>>,
    <<"addr",     mn.addr>>,
    <<"key",      mn.keyIDOwner>>,
    <<"voting",   mn.keyIDVoting>>,
    <<"operator", mn.vchOperatorPubKey>> }

\* A partial function from D to R.
IsMap(m, D, R) == DOMAIN m \subseteq D /\ m \in [DOMAIN m -> R]

MkList(mns, idx, n, h) ==
  [ mnMap |-> mns, mnUniquePropertyMap |-> idx,
    nTotalRegisteredCount |-> n, nHeight |-> h ]

IsMNList(l) ==
  /\ IsMap(l.mnMap, TxIds, Masternode)
  /\ IsMap(l.mnUniquePropertyMap, Properties, TxIds)
  /\ l.nTotalRegisteredCount \in Nat
  /\ l.nHeight \in Nat

EmptyMap == [x \in {} |-> x]

EmptyList(h) == MkList(EmptyMap, EmptyMap, 0, h)

\* m with every key of D (re)set to v, and with every key of D erased.
Put(m, D, v) == [x \in (DOMAIN m) \cup D |-> IF x \in D THEN v ELSE m[x]]
Erase(m, D)  == [x \in (DOMAIN m) \ D |-> m[x]]

-----------------------------------------------------------------------------
(* Lookups *)

IsBanned(mn) == mn.nPoSeBanHeight # NotBanned
IsValid(mn)  == ~IsBanned(mn) /\ mn.nRevocationReason = 0

HasMN(l, p) == p \in DOMAIN l.mnMap
HasUniqueProperty(l, prop) == prop \in DOMAIN l.mnUniquePropertyMap

\* The masternodes an index lookup of prop yields: one, or none.  The index
\* entry is followed by GetMN, which misses when the masternode is gone.
GetMNByProperty(l, prop) ==
  { p \in DOMAIN l.mnMap : /\ HasUniqueProperty(l, prop)
                           /\ l.mnUniquePropertyMap[prop] = p }

GetMNByCollateral(l, o) == GetMNByProperty(l, <<"utxo", o>>)
GetMNByService(l, a)    == GetMNByProperty(l, <<"addr", a>>)

GetValidMNs(l) == { p \in DOMAIN l.mnMap : IsValid(l.mnMap[p]) }

-----------------------------------------------------------------------------
(* Payment *)

GetTierWeight(tier) ==
  CASE tier = 2 -> 10 [] tier = 3 -> 100 [] OTHER -> 1

CalcScore(l, p, block, h) ==
  LET mn       == l.mnMap[p]
      lastPaid == IF mn.nLastPaidHeight > 0 THEN mn.nLastPaidHeight
                                            ELSE mn.nRegisteredHeight
      since    == IF h > lastPaid THEN h - lastPaid ELSE 0
  IN  RawScore(p, block, since) \div GetTierWeight(mn.nTier)

GetValidMNsForPayment(l, h) ==
  { p \in GetValidMNs(l) :
      /\ l.mnMap[p].nTier # 0
      /\ h - l.mnMap[p].nRegisteredHeight >= nMasternodeCollateralConfirmations }

\* The payee, as a set of at most one: lowest score, then lowest proTxHash.
GetMNPayee(l, block, h) ==
  LET valid == GetValidMNsForPayment(l, h)
      score(p) == CalcScore(l, p, block, h)
  IN  { p \in valid : \A q \in valid :
          score(p) < score(q) \/ (score(p) = score(q) /\ p <= q) }

-----------------------------------------------------------------------------
(* Updates *)

\* Mutant of AddMN: the index holds the internal id.
AddMN_IndexesId(l, p, mn) ==
  MkList(Put(l.mnMap, {p}, mn),
         Put(l.mnUniquePropertyMap, PropsOf(mn), mn.internalId),
         l.nTotalRegisteredCount + 1, l.nHeight)

\* AddMN: the index entries of mn's properties are set whoever had them.
AddMN(l, p, mn) ==
  MkList(Put(l.mnMap, {p}, mn),
         Put(l.mnUniquePropertyMap, PropsOf(mn), p),
         l.nTotalRegisteredCount + 1, l.nHeight)

\* The list with other states for the masternodes of DOMAIN upd, which keep
\* their unique properties, so that the index stays as it is.
\* BatchUpdateMNStates is called for such states only (CheckAndPunish), where
\* its conflict check and its index updates have nothing to do; so are the
\* UpdateMN calls of ProcessBlock for the payee and the revived masternodes.
BatchUpdateMNStates(l, upd) ==
  MkList([ p \in DOMAIN l.mnMap |->
             IF p \in DOMAIN upd THEN upd[p] ELSE l.mnMap[p] ],
         l.mnUniquePropertyMap, l.nTotalRegisteredCount, l.nHeight)

\* Mutants of UpdateMN: the old entries stay; conflicts are not looked for.
UpdateMN_KeepsOld(l, p, mn) ==
  IF ~HasMN(l, p) THEN l
  ELSE MkList(Put(l.mnMap, {p}, mn),
              Put(l.mnUniquePropertyMap, PropsOf(mn), p),
              l.nTotalRegisteredCount, l.nHeight)

UpdateMN_NoConflictCheck(l, p, mn) ==
  IF ~HasMN(l, p) THEN l
  ELSE MkList(Put(l.mnMap, {p}, mn),
              Put(Erase(l.mnUniquePropertyMap, PropsOf(l.mnMap[p])), PropsOf(mn), p),
              l.nTotalRegisteredCount, l.nHeight)

\* UpdateMN: nothing happens when the masternode is unknown, or when one of
\* the changed properties is indexed to another masternode.
UpdateMN(l, p, mn) ==
  LET old      == PropsOf(l.mnMap[p])
      changed  == PropsOf(mn) \ old
      conflict == \E q \in changed : /\ HasUniqueProperty(l, q)
                                     /\ l.mnUniquePropertyMap[q] # p
  IN  IF ~HasMN(l, p) \/ conflict THEN l
      ELSE MkList(Put(l.mnMap, {p}, mn),
                  Put(Erase(l.mnUniquePropertyMap, old \ PropsOf(mn)), changed, p),
                  l.nTotalRegisteredCount, l.nHeight)

\* BatchRemoveMNs (RemoveMN for one): the property hashes of the removed
\* masternodes are erased, whoever they are indexed to.
BatchRemoveMNs(l, S) ==
  LET gone == S \cap DOMAIN l.mnMap
  IN  MkList(Erase(l.mnMap, gone),
             Erase(l.mnUniquePropertyMap,
                   UNION { PropsOf(l.mnMap[p]) : p \in gone }),
             l.nTotalRegisteredCount, l.nHeight)

\* AddMNInPlace of every entry of l in map order, into an empty list at
\* height h: a property two masternodes share stays with the later one.
Owners(l, q) == { p \in DOMAIN l.mnMap : q \in PropsOf(l.mnMap[p]) }

CopyList(l, h) ==
  MkList(l.mnMap,
         [ q \in UNION { PropsOf(l.mnMap[p]) : p \in DOMAIN l.mnMap } |->
             CHOOSE p \in Owners(l, q) : \A r \in Owners(l, q) : r <= p ],
         l.nTotalRegisteredCount, h)

-----------------------------------------------------------------------------
(* What the index promises *)

\* No index entry is an orphan: it names a masternode of the list that has
\* the property.
SoundIndex(l) ==
  \A q \in DOMAIN l.mnUniquePropertyMap :
     LET p == l.mnUniquePropertyMap[q]
     IN  HasMN(l, p) /\ q \in PropsOf(l.mnMap[p])

\* Every masternode is found by its property of kind k, hence no two
\* masternodes share one.
CompleteIndex(l, k) ==
  \A p \in DOMAIN l.mnMap : \A q \in PropsOf(l.mnMap[p]) :
     q[1] = k => HasUniqueProperty(l, q) /\ l.mnUniquePropertyMap[q] = p

=============================================================================
