----------------------------- MODULE PoSeProofs -----------------------------
(***************************************************************************)
(* Proofs about PoSe: the types, and that penalties are never counted      *)
(* twice, for every behaviour; and, as long as no block fails late and the *)
(* node is not restarted, that disconnecting a block restores the scores,  *)
(* that a revival sticks, and that a block connected again gets the list   *)
(* it had.                                                                 *)
(***************************************************************************)
EXTENDS PoSe, FiniteSetTheorems, WellFoundedInduction, TLAPS

USE SMTT(30)

-----------------------------------------------------------------------------
(* The inductive invariant *)

\* A block is being processed.
Working == pc \in {"undo", "punish", "revive"}

\* ProcessBlock never goes below the first block nor past its goal, and the
\* bounds are counted up from 0.
ProcInv ==
  /\ pc = "next" => goal > 0
  /\ Working => 0 < h /\ h <= goal
  /\ DOMAIN used = {"penalty", "reorg", "restart", "failure"}
  /\ \A w \in DOMAIN used : used[w] \in Nat

\* PenaltiesAccounted, and the list that is being computed bans nobody who
\* was never penalised.
AccountInv ==
  /\ total \in [MNs -> Nat]
  /\ PenaltiesAccounted
  /\ \A p \in MNs : total[p] = 0 => list[p] = NotBanned

\* What ProcessBlock does to one masternode at height k: with a score of s it
\* is punished, and revived if it is due.
Punished(ban, k, s) == IF ban = NotBanned /\ s >= nPoSeBanThreshold THEN k ELSE ban
Due(ban, k)         == ban # NotBanned /\ k - ban >= nPoSeRevivalHeight
NextBan(ban, k, s)   == IF Due(Punished(ban, k, s), k) THEN NotBanned
                        ELSE Punished(ban, k, s)
NextScore(ban, k, s) == IF Due(Punished(ban, k, s), k) THEN 0 ELSE s

\* The highest block begun, the undo data of a block, and the score a
\* masternode had after it.
Begun       == IF Working THEN height + 1 ELSE height
Entry(k)    == IF k \in DOMAIN dbUndo THEN dbUndo[k] ELSE EmptyMap
Later(k, p) == IF k = Begun THEN Score(stateMap, p)
               ELSE Score(before[k + 1], p)

\* Every connected block has a list and no other block has one, so nothing is
\* replayed; the history covers the blocks begun; undo data is there for
\* connected blocks only, in memory as on disk.
Shape ==
  /\ DOMAIN dbList = 1 .. height
  /\ pc # "idle" => goal = height + 1
  /\ Working => h = height + 1
  /\ DOMAIN before = 1 .. Begun /\ DOMAIN hit = 1 .. Begun
  /\ Begun <= top
  /\ DOMAIN dbUndo \subseteq 1 .. (IF pc \in {"punish", "revive"} THEN h ELSE height)
  /\ DOMAIN undoEntries = DOMAIN dbUndo
  /\ \A j, k \in 1 .. Begun : j <= k => hit[k] \subseteq hit[j]
  /\ list \in [MNs -> Int] /\ \A k \in 1 .. height : dbList[k] \in [MNs -> Int]

\* The list of a connected block comes from the one below and the scores the
\* block found; so do the scores after it, and its undo data.
ChainAt(k, p) ==
  LET s == Score(before[k], p)
      b == ListAt(k - 1)[p]
  IN  /\ dbList[k][p] = NextBan(b, k, s)
      /\ k >= top - MAX_UNDO_HISTORY \/ k \in DOMAIN first => Later(k, p) = NextScore(b, k, s)
      /\ k > top - MAX_UNDO_HISTORY => s = Score(Entry(k), p)

ChainInv == \A k \in 1 .. height : \A p \in MNs \ hit[k] : ChainAt(k, p)

\* The same of the block that is being processed, as far as it has got.
WorkAt(p) ==
  LET s == Score(before[h], p)
      b == ListAt(h - 1)[p]
  IN  /\ pc = "undo" /\ s # 0 => p \in affected
      /\ pc \in {"punish", "revive"} => s = Score(Entry(h), p)
      /\ pc \in {"undo", "punish"} => list[p] = b /\ Score(stateMap, p) = s
      /\ pc = "revive" /\ p \in toRevive => Due(Punished(b, h, s), h)
      /\ pc = "revive" /\ p \notin toRevive
           => list[p] = NextBan(b, h, s) /\ Score(stateMap, p) = NextScore(b, h, s)

WorkInv == Working => \A p \in MNs \ hit[h] : WorkAt(p)

\* A masternode revived by a connected block and not penalised since has no
\* score, neither in memory nor in the undo data of a later block, and the
\* next block does not ban it.
Revived(k, p) == ListAt(k - 1)[p] # NotBanned /\ dbList[k][p] = NotBanned

StaysRevived(k, p) ==
  /\ Score(stateMap, p) = 0
  /\ \A j \in DOMAIN dbUndo : j > k => Score(dbUndo[j], p) = 0
  /\ k + 1 \in DOMAIN dbList => dbList[k + 1][p] = NotBanned
  /\ Working /\ h = k + 1 => list[p] = NotBanned

RevivalInv ==
  \A k \in 1 .. height : \A p \in MNs \ hit[k] : Revived(k, p) => StaysRevived(k, p)

\* What is remembered of the first time a block was connected agrees with the
\* chain there is, and each block with the one remembered below it.  A block
\* is not remembered although nobody was penalised only if it is so deep that
\* disconnecting the next one forgets everything.
Below(k, p) == IF k = 1 THEN NotBanned ELSE first[k - 1].list[p]
Linked(k)   == k = 1 \/ k - 1 \in DOMAIN first

Remembered(k) ==
  /\ first[k].list \in [MNs -> Int]
  /\ ~Linked(k) => k <= height /\ k <= top - MAX_UNDO_HISTORY
  /\ k <= height => dbList[k] = first[k].list

RememberedOf(k, p) ==
  LET s == Score(first[k].scores, p)
  IN  /\ k <= Begun => Score(before[k], p) = s
      /\ k = height + 1 /\ ~Working => Score(stateMap, p) = s
      /\ Linked(k) => first[k].list[p] = NextBan(Below(k, p), k, s)
      /\ Linked(k) /\ k + 1 \in DOMAIN first
           => Score(first[k + 1].scores, p) = NextScore(Below(k, p), k, s)

FirstInv ==
  /\ DOMAIN first \subseteq 1 .. top
  /\ DOMAIN first # {} => \A k \in 1 .. Begun : hit[k] = {}
  /\ \A k \in 1 .. height :
       (\A j \in 1 .. k : hit[j] = {}) /\ k \notin DOMAIN first
         => k < top - MAX_UNDO_HISTORY
  /\ \A k \in DOMAIN first : Remembered(k) /\ \A p \in MNs : RememberedOf(k, p)

HistoryInv == Shape /\ ChainInv /\ WorkInv /\ RevivalInv /\ FirstInv

UndisturbedInv == Undisturbed => HistoryInv

-----------------------------------------------------------------------------
(* Maps, greatest elements, and trimming *)

\* Put, Erase and Override as maps.
LEMMA PutMap ==
  ASSUME NEW m, NEW k, NEW v
  PROVE  /\ DOMAIN Put(m, k, v) = (DOMAIN m) \cup {k}
         /\ Put(m, k, v)[k] = v
         /\ \A x \in DOMAIN m : x # k => Put(m, k, v)[x] = m[x]
BY Zenon DEF Put

\* Erase drops the keys it is given and keeps the other entries.
LEMMA EraseMap ==
  ASSUME NEW m, NEW D
  PROVE  /\ DOMAIN Erase(m, D) = (DOMAIN m) \ D
         /\ \A x \in (DOMAIN m) \ D : Erase(m, D)[x] = m[x]
BY Zenon DEF Erase

\* Override takes the second map where it has an entry, the first elsewhere.
LEMMA OverrideMap ==
  ASSUME NEW m, NEW n
  PROVE  /\ DOMAIN Override(m, n) = (DOMAIN m) \cup (DOMAIN n)
         /\ \A x \in DOMAIN n : Override(m, n)[x] = n[x]
         /\ \A x \in (DOMAIN m) \ (DOMAIN n) : Override(m, n)[x] = m[x]
BY Zenon DEF Override

\* The scores after a map was changed.
LEMMA ScorePut ==
  ASSUME NEW m, NEW k, NEW v, NEW p
  PROVE  Score(Put(m, k, v), p) = IF p = k THEN v ELSE Score(m, p)
BY Zenon DEF Put, Score

\* An erased masternode has no score; the others keep theirs.
LEMMA ScoreErase ==
  ASSUME NEW m, NEW D, NEW p
  PROVE  Score(Erase(m, D), p) = IF p \in D THEN 0 ELSE Score(m, p)
BY Zenon DEF Erase, Score

\* The scores after Override: the second map's where it has one.
LEMMA ScoreOverride ==
  ASSUME NEW m, NEW n, NEW p
  PROVE  Score(Override(m, n), p) = IF p \in DOMAIN n THEN n[p] ELSE Score(m, p)
BY Zenon DEF Override, Score

\* UndoBlock gives those with recorded entries the recorded score, a 0
\* included, and leaves the others alone.
LEMMA ScoreRestored ==
  ASSUME NEW m, NEW e, \A q \in DOMAIN e : e[q] \in Nat, NEW p
  PROVE  Score(Restored(m, e), p) = IF p \in DOMAIN e THEN e[p] ELSE Score(m, p)
<1> DEFINE n == [q \in { q \in DOMAIN e : e[q] > 0 } |-> e[q]]
<1>1. Restored(m, e) = Override(Erase(m, DOMAIN e), n)
  BY Zenon DEF Restored
<1>2. DOMAIN n = { q \in DOMAIN e : e[q] > 0 } /\ \A q \in DOMAIN n : n[q] = e[q]
  BY Zenon
<1> HIDE DEF n
<1>3. Score(Restored(m, e), p)
        = IF p \in DOMAIN n THEN n[p] ELSE IF p \in DOMAIN e THEN 0 ELSE Score(m, p)
  BY <1>1, ScoreOverride, ScoreErase
<1> QED BY <1>2, <1>3

\* No state is kept for a score of 0.
LEMMA RestoredScores ==
  ASSUME NEW m, IsScores(m), NEW e, DOMAIN e \subseteq MNs, \A q \in DOMAIN e : e[q] \in Nat
  PROVE  IsScores(Restored(m, e))
<1> DEFINE n == [q \in { q \in DOMAIN e : e[q] > 0 } |-> e[q]]
           d == Erase(m, DOMAIN e)
<1>1. Restored(m, e) = Override(d, n)
  BY Zenon DEF Restored
<1>2. DOMAIN n \subseteq DOMAIN e /\ \A q \in DOMAIN n : n[q] \in Nat \ {0}
  OBVIOUS
<1>3. IsScores(d)
  BY Zenon DEF Erase, IsScores
<1> HIDE DEF n, d
<1>4. DOMAIN Override(d, n) \subseteq MNs
  BY <1>2, <1>3, Zenon DEF Override, IsScores
<1>5. ASSUME NEW q \in DOMAIN Override(d, n)
      PROVE  Override(d, n)[q] \in Nat \ {0}
  BY <1>2, <1>3, Zenon DEF Override, IsScores
<1> QED BY <1>1, <1>4, <1>5, Zenon DEF IsScores

\* A set of naturals has a least element, and one that is bounded a greatest.
LEMMA LeastOf ==
  ASSUME NEW S, S \subseteq Nat, S # {}
  PROVE  \E x \in S : \A y \in S : x <= y
<1> DEFINE lt == OpToRel(<, Nat)
<1>1. IsWellFoundedOn(lt, Nat)
  BY NatLessThanWellFounded, Zenon
<1> HIDE DEF lt
<1>2. PICK x \in S : \A y \in S : ~(<<y, x>> \in lt)
  BY <1>1, WFMin, Zenon
<1>3. \A y \in S : ~(y < x)
  BY <1>2, Zenon DEF OpToRel, lt
<1> QED BY <1>3

\* A non-empty set of numbers up to n has a greatest one, and Max is it.
LEMMA MaxBounded ==
  ASSUME NEW n \in Nat, NEW S, S \subseteq 0 .. n, S # {}
  PROVE  Max(S) \in S /\ \A y \in S : y <= Max(S)
<1> DEFINE U == { n - x : x \in S }
<1>1. U \subseteq Nat /\ U # {}
  <2>1. \A x \in S : n - x \in Nat
    OBVIOUS
  <2> QED BY <2>1, Zenon
<1>2. PICK u \in U : \A v \in U : u <= v
  <2> HIDE DEF U
  <2> QED BY <1>1, LeastOf, Zenon
<1>3. PICK x \in S : u = n - x
  BY <1>2, Zenon
<1>4. \A y \in S : n - x <= n - y
  BY <1>2, <1>3, Zenon
<1>5. \A y \in S : x >= y
  BY <1>4
<1> QED BY <1>5, Zenon DEF Max

\* The heights that PrepareUndo drops.
Old(H) == { x \in H : Cardinality({ y \in H : y >= x }) > MAX_UNDO_HISTORY }

\* At most MAX_UNDO_HISTORY heights are left, and those near the highest one
\* are among them.
LEMMA TrimBound ==
  ASSUME NEW H, H \subseteq 1 .. MaxHeight
  PROVE  Cardinality(H \ Old(H)) <= MAX_UNDO_HISTORY
<1> DEFINE K == H \ Old(H)
<1>1. CASE K = {}
  BY <1>1, FS_EmptySet, PoSeConstants
<1>2. CASE K # {}
  <2>1. K \subseteq Nat
    <3>1. 1 .. MaxHeight \subseteq Nat
      BY PoSeConstants
    <3> QED BY <3>1, Zenon
  <2>2. PICK x \in K : \A y \in K : x <= y
    <3> HIDE DEF K
    <3> QED BY <2>1, <1>2, LeastOf, Zenon
  <2> DEFINE A == { y \in H : y >= x }
  <2>3. K \in SUBSET A
    BY <2>1, <2>2, Zenon
  <2>4. IsFiniteSet(1 .. MaxHeight)
    BY FS_Interval, PoSeConstants
  <2>5. IsFiniteSet(A)
    <3>1. A \in SUBSET (1 .. MaxHeight)
      BY Zenon
    <3> HIDE DEF A
    <3> QED BY <3>1, <2>4, FS_Subset, Zenon
  <2>6. Cardinality(A) \in Nat /\ Cardinality(K) \in Nat /\ Cardinality(K) <= Cardinality(A)
    BY <2>3, <2>5, FS_Subset, FS_CardinalityType, Zenon
  <2>7. ~(Cardinality(A) > MAX_UNDO_HISTORY)
    BY <2>2, Zenon DEF Old
  <2> QED BY <2>6, <2>7, PoSeConstants
<1> QED BY <1>1, <1>2, Zenon

\* PrepareUndo's trimming drops no block within MAX_UNDO_HISTORY of the highest.
LEMMA TrimNear ==
  ASSUME NEW n \in Nat, NEW H, H \subseteq 1 .. n, NEW k \in H, k > n - MAX_UNDO_HISTORY
  PROVE  k \notin Old(H)
<1> DEFINE A == { y \in H : y >= k }
<1>1. A \in SUBSET (k .. n)
  <2>1. \A y \in A : y \in k .. n
    OBVIOUS
  <2> QED BY <2>1, Zenon
<1>2. k \in Nat /\ k <= n
  OBVIOUS
<1>3. IsFiniteSet(k .. n) /\ Cardinality(k .. n) = n - k + 1
  BY <1>2, FS_Interval
<1>4. Cardinality(A) \in Nat /\ Cardinality(A) <= n - k + 1
  BY <1>1, <1>3, FS_Subset, FS_CardinalityType
<1>5. ~(Cardinality(A) > MAX_UNDO_HISTORY)
  BY <1>2, <1>4, PoSeConstants
<1> QED BY <1>5, Zenon DEF Old

\* What PrepareUndo leaves.
LEMMA PrepareUndoEffect ==
  ASSUME NEW k, NEW S, PrepareUndo(k, S)
  PROVE  LET e == [p \in S |-> Score(stateMap, p)]
             old == Old((DOMAIN undoEntries) \cup {k})
         IN  /\ undoEntries' = Erase(Put(undoEntries, k, e), old)
             /\ dbUndo' = Erase(Put(dbUndo, k, e), old)
<1> DEFINE e == [p \in S |-> Score(stateMap, p)]
           entries == Put(undoEntries, k, e)
<1>1. DOMAIN entries = (DOMAIN undoEntries) \cup {k} /\ entries[k] = e
  <2> HIDE DEF e
  <2>1. DOMAIN Put(undoEntries, k, e) = (DOMAIN undoEntries) \cup {k}
    BY PutMap, Zenon
  <2>2. Put(undoEntries, k, e)[k] = e
    BY Zenon DEF Put
  <2> QED BY <2>1, <2>2, Zenon
<1> HIDE DEF e
<1>2. /\ undoEntries' = Erase(entries, Old(DOMAIN entries))
      /\ dbUndo' = Erase(Put(dbUndo, k, entries[k]), Old(DOMAIN entries))
  BY Zenon DEF PrepareUndo, Old, e
<1> QED BY <1>1, <1>2, Zenon DEF e

-----------------------------------------------------------------------------
(* Types *)

TypeInv == TypeOK /\ ProcInv

\* The initial state: nothing is stored.
LEMMA TypeInit == Init => TypeInv
<1> SUFFICES ASSUME Init PROVE TypeInv
  BY Zenon
<1>1. DOMAIN EmptyMap = {}
  BY Zenon DEF EmptyMap
<1>2. Cardinality(DOMAIN EmptyMap) = 0
  BY <1>1, FS_EmptySet, Zenon
<1>3. IsBans(NoBans)
  BY PoSeConstants DEF IsBans, NoBans, NotBanned
<1>4. TypeOK
  <2>1. IsScores(EmptyMap) /\ IsUndo(EmptyMap)
    BY <1>1, Zenon DEF IsScores, IsUndo
  <2>2. Cardinality(DOMAIN undoEntries) <= MAX_UNDO_HISTORY
    BY <1>2, PoSeConstants DEF Init
  <2>3. {height, flushed, goal, h, top} \subseteq 0 .. MaxHeight
    BY PoSeConstants DEF Init
  <2>4. fDirty \in BOOLEAN /\ affected \subseteq MNs /\ toRevive \subseteq MNs
    BY Zenon DEF Init
  <2>5. pc \in {"idle", "next", "undo", "punish", "revive"}
    BY Zenon DEF Init
  <2> QED BY <1>1, <1>3, <2>1, <2>2, <2>3, <2>4, <2>5, Zenon DEF Init, TypeOK
<1>5. ProcInv
  BY Zenon DEF Init, ProcInv, Working
<1> QED BY <1>4, <1>5, Zenon DEF TypeInv

\* A bound that is spent stays a number.
LEMMA SpendUsed ==
  ASSUME ProcInv, NEW w \in DOMAIN used, NEW bound, Spend(w, bound)
  PROVE  DOMAIN used' = DOMAIN used /\ \A v \in DOMAIN used' : used'[v] \in Nat
BY DEF ProcInv, Spend

\* A penalty keeps the types.
LEMMA TypeIncrement ==
  ASSUME TypeInv, NEW p \in MNs, IncrementPenalty(p)
  PROVE  TypeInv'
<1> DEFINE v == Score(stateMap, p) + nPoSeBanThreshold
<1>1. v \in Nat \ {0}
  BY PoSeConstants DEF TypeInv, TypeOK, IsScores, Score
<1>2. stateMap' = Put(stateMap, p, v) /\ fDirty' = TRUE
  BY Zenon DEF IncrementPenalty
<1> HIDE DEF v
<1>3. IsScores(stateMap')
  BY <1>1, <1>2, Zenon DEF Put, IsScores, TypeInv, TypeOK
<1>4. UNCHANGED <<undoEntries, dbState, dbUndo, dbList, height, flushed, pc, goal, h,
                  list, affected, toRevive, top>>
  BY Zenon DEF IncrementPenalty, db, proc
<1>5. TypeOK'
  BY <1>2, <1>3, <1>4, Zenon DEF TypeInv, TypeOK, IsScores, IsUndo
<1>6. DOMAIN used' = DOMAIN used /\ \A w \in DOMAIN used' : used'[w] \in Nat
  BY SpendUsed, Zenon DEF IncrementPenalty, TypeInv, ProcInv
<1> QED BY <1>4, <1>5, <1>6, Zenon DEF TypeInv, ProcInv, Working

\* Starting to connect a block keeps the types.
LEMMA TypeConnect ==
  ASSUME TypeInv, Connect
  PROVE  TypeInv'
<1>1. UNCHANGED <<stateMap, undoEntries, fDirty, dbState, dbUndo, dbList, height, flushed,
                  h, list, affected, toRevive, top, used>>
  BY Zenon DEF Connect, mem, db, hist
<1>2. pc' = "next" /\ goal' = height + 1 /\ goal' \in 1 .. MaxHeight
  BY PoSeConstants DEF Connect, TypeInv, TypeOK
<1>3. TypeOK'
  BY <1>1, <1>2 DEF TypeInv, TypeOK, IsUndo
<1> QED BY <1>1, <1>2, <1>3 DEF TypeInv, ProcInv, Working

\* GetListForBlock finds a list: the one before the first block is always
\* there.
LEMMA NearestList ==
  ASSUME TypeInv, goal \in Nat \ {0}
  PROVE  LET k == Max({ j \in 0 .. goal - 1 : HasList(j) })
         IN  k \in 0 .. goal - 1 /\ HasList(k) /\ \A j \in 0 .. goal - 1 : HasList(j) => j <= k
<1> DEFINE S == { j \in 0 .. goal - 1 : HasList(j) }
<1>1. S \subseteq 0 .. goal - 1 /\ 0 \in S
  BY DEF HasList
<1>2. goal - 1 \in Nat
  OBVIOUS
<1>3. Max(S) \in S /\ \A y \in S : y <= Max(S)
  <2> HIDE DEF S
  <2> QED BY <1>1, <1>2, MaxBounded, Zenon
<1> QED BY <1>3, Zenon

\* Starting on the block above the nearest list keeps the types.
LEMMA TypeBegin ==
  ASSUME TypeInv, BeginBlock
  PROVE  TypeInv'
<1>1. goal \in Nat \ {0} /\ goal <= MaxHeight
  BY PoSeConstants DEF BeginBlock, TypeInv, TypeOK, ProcInv
<1> DEFINE k == Max({ j \in 0 .. goal - 1 : HasList(j) })
<1>2. k \in 0 .. goal - 1 /\ HasList(k)
  BY <1>1, NearestList, Zenon
<1>3. h' = k + 1
  BY Zenon DEF BeginBlock
<1> HIDE DEF k
<1>4. h' \in 1 .. goal /\ h' - 1 = k
  BY <1>1, <1>2, <1>3
<1>5. list' = ListAt(k) /\ affected' = Affected(list', h') /\ pc' = "undo"
  BY <1>4, Zenon DEF BeginBlock
<1>6. UNCHANGED <<stateMap, undoEntries, fDirty, dbState, dbUndo, dbList, height, flushed,
                  goal, toRevive, used>>
  BY Zenon DEF BeginBlock, mem, db
<1>7. IsBans(list')
  <2>1. CASE k = 0
    BY <1>5, <2>1, PoSeConstants DEF ListAt, NoBans, NotBanned, IsBans
  <2>2. CASE k # 0
    BY <1>2, <1>5, <2>2, Zenon DEF ListAt, HasList, TypeInv, TypeOK
  <2> QED BY <2>1, <2>2, Zenon
<1>8. affected' \subseteq MNs
  BY <1>5, Zenon DEF Affected, Revivable, TypeInv, TypeOK, IsScores
<1>9. top' \in 0 .. MaxHeight
  <2>1. {top, h'} \subseteq 0 .. MaxHeight
    BY <1>1, <1>4, PoSeConstants DEF TypeInv, TypeOK
  <2>2. Max({top, h'}) \in {top, h'}
    BY <2>1, MaxBounded, PoSeConstants, Zenon
  <2> QED BY <2>1, <2>2, Zenon DEF BeginBlock
<1>10. h' \in 0 .. MaxHeight
  BY <1>1, <1>4, PoSeConstants
<1>11. TypeOK'
  BY <1>5, <1>6, <1>7, <1>8, <1>9, <1>10, Zenon DEF TypeInv, TypeOK, IsUndo
<1> QED BY <1>4, <1>5, <1>6, <1>11 DEF TypeInv, ProcInv, Working

\* The undo data after PrepareUndo or an erasure is still undo data, and what
\* is in memory is on disk.
UndoType(mine, disk) ==
  /\ IsUndo(mine) /\ IsUndo(disk)
  /\ \A k \in DOMAIN mine : k \in DOMAIN disk /\ disk[k] = mine[k]

\* Undo data stays well typed, in memory as on disk, when an entry is recorded.
LEMMA UndoPut ==
  ASSUME NEW m, NEW d, UndoType(m, d), NEW k \in 1 .. MaxHeight, NEW e,
         DOMAIN e \subseteq MNs, \A p \in DOMAIN e : e[p] \in Nat
  PROVE  UndoType(Put(m, k, e), Put(d, k, e))
BY Zenon DEF UndoType, IsUndo, Put

\* The same when entries are dropped.
LEMMA UndoErase ==
  ASSUME NEW m, NEW d, UndoType(m, d), NEW D
  PROVE  UndoType(Erase(m, D), Erase(d, D))
BY Zenon DEF UndoType, IsUndo, Erase

\* RecordUndo keeps the types.
LEMMA TypeRecord ==
  ASSUME TypeInv, RecordUndo
  PROVE  TypeInv'
<1>1. UNCHANGED <<stateMap, fDirty, dbState, dbList, height, flushed, goal, h, list,
                  affected, toRevive, top, used>>
  BY Zenon DEF RecordUndo, hist
<1>2. h \in 1 .. MaxHeight /\ pc' = "punish"
  BY DEF RecordUndo, TypeInv, TypeOK, ProcInv, Working
<1>3. UndoType(undoEntries, dbUndo)
  BY Zenon DEF UndoType, TypeInv, TypeOK
<1>4. /\ UndoType(undoEntries', dbUndo')
      /\ Cardinality(DOMAIN undoEntries') <= MAX_UNDO_HISTORY
  <2>1. CASE affected = {}
    BY <1>3, <2>1, Zenon DEF RecordUndo, TypeInv, TypeOK
  <2>2. CASE affected # {}
    <3> DEFINE e == [p \in affected |-> Score(stateMap, p)]
               H == (DOMAIN undoEntries) \cup {h}
    <3>1. PrepareUndo(h, affected)
      BY <2>2, Zenon DEF RecordUndo
    <3>2. /\ undoEntries' = Erase(Put(undoEntries, h, e), Old(H))
          /\ dbUndo' = Erase(Put(dbUndo, h, e), Old(H))
      BY <3>1, PrepareUndoEffect, Zenon
    <3>3. DOMAIN e \subseteq MNs /\ \A p \in DOMAIN e : e[p] \in Nat
      BY Zenon DEF TypeInv, TypeOK, IsScores, Score
    <3> HIDE DEF e
    <3>4. UndoType(Put(undoEntries, h, e), Put(dbUndo, h, e))
      BY <1>2, <1>3, <3>3, UndoPut, Zenon
    <3>5. UndoType(undoEntries', dbUndo')
      BY <3>2, <3>4, UndoErase, Zenon
    <3>6. DOMAIN undoEntries' = H \ Old(H)
      BY <3>2, Zenon DEF Put, Erase
    <3>7. H \subseteq 1 .. MaxHeight
      BY <1>2, Zenon DEF TypeInv, TypeOK, IsUndo
    <3> QED BY <3>5, <3>6, <3>7, TrimBound, Zenon
  <2> QED BY <2>1, <2>2, Zenon
<1>5. TypeOK'
  BY <1>1, <1>2, <1>4, Zenon DEF TypeInv, TypeOK, UndoType
<1> QED BY <1>1, <1>2, <1>5, Zenon DEF TypeInv, ProcInv, Working, RecordUndo

\* CheckAndPunish keeps the types.
LEMMA TypePunish ==
  ASSUME TypeInv, Punish
  PROVE  TypeInv'
<1>1. UNCHANGED <<stateMap, undoEntries, fDirty, dbState, dbUndo, dbList, height, flushed,
                  goal, h, affected, top, used>>
  BY Zenon DEF Punish, mem, db, hist
<1>2. /\ list' = CheckAndPunish(list, h) /\ toRevive' = Revivable(list', h)
      /\ pc' = "revive" /\ pc = "punish"
  BY Zenon DEF Punish
<1>3. IsBans(list')
  BY <1>2 DEF TypeInv, TypeOK, ProcInv, Working, CheckAndPunish, IsBans
<1>4. toRevive' \subseteq MNs
  BY <1>2, Zenon DEF Revivable
<1>5. TypeOK'
  BY <1>1, <1>2, <1>3, <1>4, Zenon DEF TypeInv, TypeOK, IsUndo
<1> QED BY <1>1, <1>2, <1>5, Zenon DEF TypeInv, ProcInv, Working

\* Reviving a masternode (ResetPenalty) keeps the types.
LEMMA TypeRevive ==
  ASSUME TypeInv, NEW p \in toRevive, ReviveOne(p)
  PROVE  TypeInv'
<1>1. UNCHANGED <<undoEntries, dbUndo, dbList, height, flushed, pc, goal, h, affected, top,
                  used>>
  BY Zenon DEF ReviveOne, hist
<1>2. IsScores(stateMap') /\ IsScores(dbState') /\ fDirty' \in BOOLEAN
  <2>1. CASE p \in DOMAIN stateMap
    <3>1. /\ stateMap' = Erase(stateMap, {p}) /\ dbState' = Erase(dbState, {p})
          /\ fDirty' = FALSE
      BY <2>1, Zenon DEF ReviveOne, ResetPenalty
    <3>2. \A m : IsScores(m) => IsScores(Erase(m, {p}))
      BY Zenon DEF Erase, IsScores
    <3>3. fDirty' \in BOOLEAN
      BY <3>1, Zenon
    <3> QED BY <3>1, <3>2, <3>3, Zenon DEF TypeInv, TypeOK
  <2>2. CASE p \notin DOMAIN stateMap
    BY <2>2, Zenon DEF ReviveOne, ResetPenalty, TypeInv, TypeOK
  <2> QED BY <2>1, <2>2, Zenon
<1>3. IsBans(list')
  BY PoSeConstants DEF ReviveOne, NotBanned, IsBans, TypeInv, TypeOK
<1>4. toRevive' \subseteq MNs
  BY Zenon DEF ReviveOne, TypeInv, TypeOK
<1>5. TypeOK'
  BY <1>1, <1>2, <1>3, <1>4, Zenon DEF TypeInv, TypeOK, IsUndo
<1> QED BY <1>1, <1>5, Zenon DEF TypeInv, ProcInv, Working

\* Flush writes scores.
LEMMA FlushedScores ==
  ASSUME TypeInv
  PROVE  IsScores(Flushed)
<1>1. \A m, n : IsScores(m) /\ IsScores(n) => IsScores(Override(m, n))
  BY Zenon DEF Override, IsScores
<1> QED BY <1>1, Zenon DEF Flushed, TypeInv, TypeOK

\* Saving the list of a block keeps the types.
LEMMA TypeCommit ==
  ASSUME TypeInv, Commit
  PROVE  TypeInv'
<1>1. UNCHANGED <<stateMap, undoEntries, dbUndo, flushed, goal, h, list, affected,
                  toRevive, top, used>>
  BY Zenon DEF Commit
<1>2. /\ dbList' = Put(dbList, h, list) /\ dbState' = Flushed /\ fDirty' = FALSE
      /\ pc' = IF h = goal THEN "idle" ELSE "next"
      /\ height' = IF h = goal THEN goal ELSE height
  BY Zenon DEF Commit
<1>3. 0 < h /\ h <= goal /\ h \in 1 .. MaxHeight
  BY DEF Commit, TypeInv, TypeOK, ProcInv, Working
<1>4. IsScores(dbState')
  BY <1>2, FlushedScores, Zenon
<1>5. DOMAIN dbList' \subseteq 1 .. MaxHeight /\ \A k \in DOMAIN dbList' : IsBans(dbList'[k])
  BY <1>2, <1>3, Zenon DEF Put, TypeInv, TypeOK
<1>6. TypeOK'
  <2>1. fDirty' \in BOOLEAN
    BY <1>2, Zenon
  <2>2. height' \in 0 .. MaxHeight /\ pc' \in {"idle", "next"}
    BY <1>2, Zenon DEF TypeInv, TypeOK
  <2> QED BY <1>1, <1>4, <1>5, <2>1, <2>2, Zenon DEF TypeInv, TypeOK
<1>7. goal \in Nat /\ h \in Nat
  BY PoSeConstants DEF TypeInv, TypeOK
<1> QED BY <1>1, <1>2, <1>3, <1>6, <1>7 DEF TypeInv, ProcInv, Working

\* A connection that fails late keeps the types.
LEMMA TypeFail ==
  ASSUME TypeInv, FailLate
  PROVE  TypeInv'
<1>1. UNCHANGED <<stateMap, undoEntries, dbUndo, dbList, height, flushed, goal, h, list,
                  affected, toRevive, top>>
  BY Zenon DEF FailLate, hist
<1>2. dbState' = Flushed /\ fDirty' = FALSE /\ pc' = "idle"
  BY Zenon DEF FailLate
<1>3. TypeOK'
  <2>1. fDirty' \in BOOLEAN
    BY <1>2, Zenon
  <2>2. IsScores(dbState') /\ pc' = "idle"
    BY <1>2, FlushedScores, Zenon
  <2> QED BY <1>1, <2>1, <2>2, Zenon DEF TypeInv, TypeOK, IsUndo
<1>4. DOMAIN used' = DOMAIN used /\ \A w \in DOMAIN used' : used'[w] \in Nat
  BY SpendUsed, Zenon DEF FailLate, TypeInv, ProcInv
<1> QED BY <1>2, <1>3, <1>4, Zenon DEF TypeInv, ProcInv, Working

\* The entries UndoBlock finds are on disk.
LEMMA UndoBlockEffect ==
  ASSUME TypeInv, NEW k, UndoBlock(k)
  PROVE  /\ stateMap' = Restored(stateMap, Entry(k))
         /\ dbState' = Restored(dbState, Entry(k))
         /\ undoEntries' = Erase(undoEntries, {k})
         /\ dbUndo' = Erase(dbUndo, {k})
<1>1. Entry(k) = IF k \in DOMAIN undoEntries THEN undoEntries[k]
                 ELSE IF k \in DOMAIN dbUndo THEN dbUndo[k] ELSE EmptyMap
  BY Zenon DEF Entry, TypeInv, TypeOK
<1> QED BY <1>1, Zenon DEF UndoBlock

\* An undo entry has scores of masternodes.
LEMMA EntryType ==
  ASSUME TypeInv, NEW k
  PROVE  DOMAIN Entry(k) \subseteq MNs /\ \A p \in DOMAIN Entry(k) : Entry(k)[p] \in Nat
<1>1. CASE k \in DOMAIN dbUndo
  BY <1>1, Zenon DEF Entry, TypeInv, TypeOK, IsUndo
<1>2. CASE k \notin DOMAIN dbUndo
  BY <1>2, Zenon DEF Entry, EmptyMap
<1> QED BY <1>1, <1>2, Zenon

\* UndoBlock keeps the types.
LEMMA TypeDisconnect ==
  ASSUME TypeInv, Disconnect
  PROVE  TypeInv'
<1>1. UNCHANGED <<fDirty, flushed, h, list, affected, toRevive, top>>
  BY Zenon DEF Disconnect
<1>2. /\ dbList' = Erase(dbList, {height})
      /\ height' = height - 1 /\ goal' = height - 1
      /\ pc' = IF HasList(height - 1) THEN "idle" ELSE "next"
      /\ UndoBlock(height)
  BY Zenon DEF Disconnect
<1>3. height \in 1 .. MaxHeight
  BY PoSeConstants DEF Disconnect, TypeInv, TypeOK
<1>4. IsScores(stateMap') /\ IsScores(dbState')
  <2>1. IsScores(stateMap) /\ IsScores(dbState)
    BY Zenon DEF TypeInv, TypeOK
  <2>2. stateMap' = Restored(stateMap, Entry(height)) /\ dbState' = Restored(dbState, Entry(height))
    BY <1>2, UndoBlockEffect, Zenon
  <2> QED BY <2>1, <2>2, EntryType, RestoredScores, Zenon
<1>5. undoEntries' = Erase(undoEntries, {height}) /\ dbUndo' = Erase(dbUndo, {height})
  BY <1>2, UndoBlockEffect, Zenon
<1>6. UndoType(undoEntries', dbUndo')
  BY <1>5, UndoErase DEF UndoType, TypeInv, TypeOK
<1>7. Cardinality(DOMAIN undoEntries') <= MAX_UNDO_HISTORY
  <2>1. DOMAIN undoEntries' \in SUBSET DOMAIN undoEntries
    BY <1>5, Zenon DEF Erase
  <2>2. IsFiniteSet(DOMAIN undoEntries)
    <3>1. IsFiniteSet(1 .. MaxHeight)
      BY FS_Interval, PoSeConstants
    <3>2. DOMAIN undoEntries \in SUBSET (1 .. MaxHeight)
      BY Zenon DEF TypeInv, TypeOK, IsUndo
    <3> QED BY <3>1, <3>2, FS_Subset, Zenon
  <2>3. /\ Cardinality(DOMAIN undoEntries') <= Cardinality(DOMAIN undoEntries)
        /\ Cardinality(DOMAIN undoEntries') \in Nat /\ Cardinality(DOMAIN undoEntries) \in Nat
    BY <2>1, <2>2, FS_Subset, FS_CardinalityType, Zenon
  <2>4. Cardinality(DOMAIN undoEntries) <= MAX_UNDO_HISTORY
    BY Zenon DEF TypeInv, TypeOK
  <2> QED BY <2>3, <2>4, PoSeConstants
<1>8. DOMAIN dbList' \subseteq 1 .. MaxHeight /\ \A k \in DOMAIN dbList' : IsBans(dbList'[k])
  BY <1>2, Zenon DEF Erase, TypeInv, TypeOK
<1>9. height - 1 \in 0 .. MaxHeight
  BY <1>3, PoSeConstants
<1>10. TypeOK'
  BY <1>1, <1>2, <1>4, <1>6, <1>7, <1>8, <1>9, Zenon DEF UndoType, TypeInv, TypeOK
<1>11. pc' = "next" => goal' > 0
  BY <1>2, <1>3 DEF HasList
<1>12. DOMAIN used' = DOMAIN used /\ \A w \in DOMAIN used' : used'[w] \in Nat
  BY SpendUsed, Zenon DEF Disconnect, TypeInv, ProcInv
<1> QED BY <1>2, <1>10, <1>11, <1>12, Zenon DEF TypeInv, ProcInv, Working

\* FlushStateToDisk keeps the types.
LEMMA TypeFlushChain ==
  ASSUME TypeInv, FlushStateToDisk
  PROVE  TypeInv'
<1>1. UNCHANGED <<stateMap, undoEntries, fDirty, dbState, dbUndo, dbList, height, pc, goal,
                  h, list, affected, toRevive, top, used>>
  BY Zenon DEF FlushStateToDisk, mem, db, proc, hist
<1>2. flushed' = height
  BY Zenon DEF FlushStateToDisk
<1>3. TypeOK'
  BY <1>1, <1>2, Zenon DEF TypeInv, TypeOK, IsUndo
<1> QED BY <1>1, <1>3, Zenon DEF TypeInv, ProcInv, Working

\* InitPoSe with the scores it finds.
LEMMA TypeRestart ==
  ASSUME TypeInv, NEW m, IsScores(m), Restart(m), flushed' \in 0 .. MaxHeight
  PROVE  TypeInv'
<1>1. DOMAIN EmptyMap = {} /\ IsUndo(EmptyMap)
  BY Zenon DEF EmptyMap, IsUndo
<1>2. Cardinality(DOMAIN EmptyMap) = 0
  BY <1>1, FS_EmptySet, Zenon
<1>3. IsBans(NoBans)
  BY PoSeConstants DEF IsBans, NoBans, NotBanned
<1>4. /\ stateMap' = m /\ dbState' = m /\ undoEntries' = EmptyMap /\ fDirty' = FALSE
      /\ height' = flushed' /\ pc' = "idle" /\ goal' = 0 /\ h' = 0 /\ list' = NoBans
      /\ affected' = {} /\ toRevive' = {}
  BY Zenon DEF Restart
<1>5. UNCHANGED <<dbUndo, dbList, top>>
  BY Zenon DEF Restart
<1>6. fDirty' \in BOOLEAN
  BY <1>4, Zenon
<1>7. Cardinality(DOMAIN undoEntries') <= MAX_UNDO_HISTORY
  BY <1>2, <1>4, PoSeConstants
<1>8. {height', flushed', goal', h', top'} \subseteq 0 .. MaxHeight
  BY <1>4, <1>5, PoSeConstants DEF TypeInv, TypeOK
<1>9. /\ pc' \in {"idle", "next", "undo", "punish", "revive"}
      /\ affected' \subseteq MNs /\ toRevive' \subseteq MNs
  BY <1>4, Zenon
<1>10. IsUndo(dbUndo') /\ IsUndo(undoEntries') /\ DOMAIN undoEntries' = {}
  BY <1>1, <1>4, <1>5, Zenon DEF TypeInv, TypeOK, IsUndo
<1>11. DOMAIN dbList' \subseteq 1 .. MaxHeight /\ \A k \in DOMAIN dbList' : IsBans(dbList'[k])
  BY <1>5, Zenon DEF TypeInv, TypeOK
<1>12. TypeOK'
  BY <1>3, <1>4, <1>6, <1>7, <1>8, <1>9, <1>10, <1>11, Zenon DEF TypeOK
<1>13. DOMAIN used' = DOMAIN used /\ \A w \in DOMAIN used' : used'[w] \in Nat
  BY SpendUsed, Zenon DEF Restart, TypeInv, ProcInv
<1> QED BY <1>4, <1>12, <1>13, Zenon DEF TypeInv, ProcInv, Working

\* Every step keeps the types.
LEMMA TypeStep == TypeInv /\ [Next]_vars => TypeInv'
<1> SUFFICES ASSUME TypeInv, [Next]_vars PROVE TypeInv'
  BY Zenon
<1>1. CASE Crash
  BY <1>1, TypeRestart, Zenon DEF Crash, TypeInv, TypeOK
<1>2. CASE Shutdown
  BY <1>2, TypeRestart, FlushedScores, Zenon DEF Shutdown, TypeInv, TypeOK
<1>3. CASE UNCHANGED vars
  <2>1. UNCHANGED <<stateMap, undoEntries, fDirty, dbState, dbUndo, dbList, height, flushed,
                    pc, goal, h, list, affected, toRevive, top, used>>
    BY <1>3, Zenon DEF vars, mem, db, proc, hist
  <2>2. TypeOK'
    BY <2>1, Zenon DEF TypeInv, TypeOK, IsUndo
  <2> QED BY <2>1, <2>2, Zenon DEF TypeInv, ProcInv, Working
<1>4. CASE \E p \in MNs : IncrementPenalty(p)
  BY <1>4, TypeIncrement, Zenon
<1>5. CASE \E p \in toRevive : ReviveOne(p)
  BY <1>5, TypeRevive, Zenon
<1>6. CASE Connect \/ BeginBlock \/ RecordUndo \/ Punish
  BY <1>6, TypeConnect, TypeBegin, TypeRecord, TypePunish, Zenon
<1>7. CASE Commit \/ FailLate \/ Disconnect \/ FlushStateToDisk
  BY <1>7, TypeCommit, TypeFail, TypeDisconnect, TypeFlushChain, Zenon
<1> QED BY <1>1, <1>2, <1>3, <1>4, <1>5, <1>6, <1>7, Zenon DEF Next, Stop

\* TypeOK, for every number of masternodes, every threshold and every length
\* of the undo history: in particular the undo data in memory never exceeds
\* MAX_UNDO_HISTORY blocks and is always on disk too (PrepareUndo, UndoBlock,
\* InitPoSe).
THEOREM TypeCorrect == Spec => []TypeOK
<1>1. TypeInv => TypeOK
  BY Zenon DEF TypeInv
<1> QED BY <1>1, TypeInit, TypeStep, PTL DEF Spec

-----------------------------------------------------------------------------
(* Penalties are counted once *)

\* No score of m exceeds the penalties in t; nobody without penalties is
\* banned in l.
Within(m, t)   == \A p \in MNs : Score(m, p) <= t[p]
BansOnly(l, t) == \A p \in MNs : t[p] = 0 => l[p] = NotBanned

\* AccountInv, map by map.
LEMMA AccountParts ==
  AccountInv <=> /\ total \in [MNs -> Nat]
                 /\ Within(stateMap, total) /\ Within(dbState, total)
                 /\ \A k \in DOMAIN dbUndo : Within(dbUndo[k], total)
                 /\ BansOnly(list, total)
                 /\ \A k \in DOMAIN dbList : BansOnly(dbList[k], total)
BY Zenon DEF AccountInv, PenaltiesAccounted, Within, BansOnly

\* A score is a number.
LEMMA ScoreNat ==
  ASSUME NEW m, IsScores(m), NEW p
  PROVE  Score(m, p) \in Nat
BY Zenon DEF IsScores, Score

\* What is written from maps that are within the penalties is within them.
LEMMA WithinErase ==
  ASSUME NEW t \in [MNs -> Nat], NEW m, Within(m, t), NEW D
  PROVE  Within(Erase(m, D), t)
BY ScoreErase DEF Within

\* What Flush writes is within the penalties given, as memory and disk are.
LEMMA WithinFlushed ==
  ASSUME Within(stateMap, total), Within(dbState, total)
  PROVE  Within(Flushed, total)
<1> SUFFICES ASSUME NEW p \in MNs PROVE Score(Flushed, p) <= total[p]
  BY Zenon DEF Within
<1>1. Score(Flushed, p) \in {Score(stateMap, p), Score(dbState, p)}
  <2>1. CASE fDirty
    BY <2>1, ScoreOverride, Zenon DEF Flushed, Score
  <2>2. CASE ~fDirty
    BY <2>2, Zenon DEF Flushed
  <2> QED BY <2>1, <2>2, Zenon
<1> QED BY <1>1, Zenon DEF Within

\* Scores given back from undo data are within the penalties given.
LEMMA WithinRestored ==
  ASSUME NEW m, Within(m, total), NEW e, Within(e, total), \A q \in DOMAIN e : e[q] \in Nat
  PROVE  Within(Restored(m, e), total)
<1> SUFFICES ASSUME NEW p \in MNs PROVE Score(Restored(m, e), p) <= total[p]
  BY Zenon DEF Within
<1>1. Score(Restored(m, e), p) \in {Score(m, p), Score(e, p)}
  BY ScoreRestored, Zenon DEF Score
<1> QED BY <1>1, Zenon DEF Within

\* No penalty has been given initially.
LEMMA AccountInit == Init => AccountInv
<1> SUFFICES ASSUME Init PROVE AccountInv
  BY Zenon
<1>1. \A p : Score(EmptyMap, p) = 0
  BY Zenon DEF EmptyMap, Score
<1>2. DOMAIN EmptyMap = {}
  BY Zenon DEF EmptyMap
<1>3. total = [p \in MNs |-> 0] /\ list = [p \in MNs |-> NotBanned]
  BY Zenon DEF Init, NoBans
<1>4. Within(EmptyMap, total) /\ BansOnly(list, total)
  BY <1>1, <1>3 DEF Within, BansOnly
<1>5. /\ stateMap = EmptyMap /\ dbState = EmptyMap /\ dbUndo = EmptyMap /\ dbList = EmptyMap
  BY Zenon DEF Init
<1> QED BY <1>2, <1>3, <1>4, <1>5, AccountParts, Zenon

\* A penalty raises the score and what was given alike.
LEMMA AccountIncrement ==
  ASSUME TypeInv, AccountInv, NEW p \in MNs, IncrementPenalty(p)
  PROVE  AccountInv'
<1>1. /\ stateMap' = Put(stateMap, p, Score(stateMap, p) + nPoSeBanThreshold)
      /\ total' = [total EXCEPT ![p] = @ + nPoSeBanThreshold]
      /\ UNCHANGED <<dbState, dbUndo, dbList, list>>
  BY Zenon DEF IncrementPenalty, db, proc
<1>2. total' \in [MNs -> Nat] /\ \A q \in MNs : total[q] <= total'[q]
  BY <1>1, AccountParts, PoSeConstants
<1>3. \A q \in MNs : total'[q] = 0 => total[q] = 0
  BY <1>2, AccountParts
<1>4. Within(stateMap', total')
  <2> SUFFICES ASSUME NEW q \in MNs PROVE Score(stateMap', q) <= total'[q]
    BY Zenon DEF Within
  <2>1. Score(stateMap, q) \in Nat /\ Score(stateMap, q) <= total[q] /\ total[q] \in Nat
    BY ScoreNat, AccountParts, Zenon DEF TypeInv, TypeOK, Within
  <2>2. Score(stateMap', q) = IF q = p THEN Score(stateMap, q) + nPoSeBanThreshold
                              ELSE Score(stateMap, q)
    BY <1>1, ScorePut
  <2>3. total'[q] = IF q = p THEN total[q] + nPoSeBanThreshold ELSE total[q]
    BY <1>1, AccountParts, Zenon
  <2> QED BY <2>1, <2>2, <2>3, PoSeConstants
<1>5. \A m : IsScores(m) /\ Within(m, total) => Within(m, total')
  <2> SUFFICES ASSUME NEW m, IsScores(m), Within(m, total), NEW q \in MNs
               PROVE  Score(m, q) <= total'[q]
    BY Zenon DEF Within
  <2>1. Score(m, q) \in Nat /\ Score(m, q) <= total[q] /\ total[q] \in Nat /\ total'[q] \in Nat
    BY <1>2, ScoreNat, AccountParts, Zenon DEF Within
  <2> QED BY <2>1, <1>2
<1>6. \A k \in DOMAIN dbUndo : Within(dbUndo[k], total')
  <2> SUFFICES ASSUME NEW k \in DOMAIN dbUndo, NEW q \in MNs
               PROVE  Score(dbUndo[k], q) <= total'[q]
    BY Zenon DEF Within
  <2>1. Score(dbUndo[k], q) \in Nat
    BY Zenon DEF TypeInv, TypeOK, IsUndo, Score
  <2>2. Score(dbUndo[k], q) <= total[q] /\ total[q] \in Nat /\ total'[q] \in Nat
    BY <1>2, AccountParts, Zenon DEF Within
  <2> QED BY <2>1, <2>2, <1>2
<1>7. \A l : BansOnly(l, total) => BansOnly(l, total')
  BY <1>3, Zenon DEF BansOnly
<1>8. Within(dbState, total')
  BY <1>5, AccountParts, Zenon DEF TypeInv, TypeOK
<1>9. BansOnly(list', total') /\ \A k \in DOMAIN dbList' : BansOnly(dbList'[k], total')
  BY <1>1, <1>7, AccountParts, Zenon
<1>10. Within(dbState', total') /\ \A k \in DOMAIN dbUndo' : Within(dbUndo'[k], total')
  BY <1>1, <1>6, <1>8, Zenon
<1> QED BY <1>2, <1>4, <1>9, <1>10, Zenon DEF AccountInv, PenaltiesAccounted, Within, BansOnly

\* The list ProcessBlock starts from.
LEMMA AccountBegin ==
  ASSUME TypeInv, AccountInv, BeginBlock
  PROVE  AccountInv'
<1>1. UNCHANGED <<stateMap, dbState, dbUndo, dbList, total>>
  BY Zenon DEF BeginBlock, mem, db
<1>2. goal \in Nat \ {0}
  BY PoSeConstants DEF BeginBlock, TypeInv, TypeOK, ProcInv
<1> DEFINE k == Max({ j \in 0 .. goal - 1 : HasList(j) })
<1>3. k \in 0 .. goal - 1 /\ HasList(k)
  BY <1>2, NearestList, Zenon
<1>4. h' = k + 1
  BY Zenon DEF BeginBlock
<1> HIDE DEF k
<1>5. list' = ListAt(k)
  BY <1>3, <1>4 DEF BeginBlock
<1>6. BansOnly(list', total)
  <2>1. CASE k = 0
    BY <1>5, <2>1, Zenon DEF ListAt, NoBans, BansOnly
  <2>2. CASE k # 0
    BY <1>3, <1>5, <2>2, AccountParts, Zenon DEF ListAt, HasList
  <2> QED BY <2>1, <2>2, Zenon
<1> QED BY <1>1, <1>6, AccountParts, Zenon DEF AccountInv, PenaltiesAccounted, BansOnly

\* What PrepareUndo records are the scores there are.
LEMMA AccountRecord ==
  ASSUME TypeInv, AccountInv, RecordUndo
  PROVE  AccountInv'
<1>1. UNCHANGED <<stateMap, dbState, dbList, list, total>>
  BY Zenon DEF RecordUndo, hist
<1>2. \A k \in DOMAIN dbUndo' : Within(dbUndo'[k], total)
  <2>1. CASE affected = {}
    BY <2>1, AccountParts, Zenon DEF RecordUndo
  <2>2. CASE affected # {}
    <3> DEFINE e == [p \in affected |-> Score(stateMap, p)]
               old == Old((DOMAIN undoEntries) \cup {h})
    <3>1. PrepareUndo(h, affected)
      BY <2>2, Zenon DEF RecordUndo
    <3>2. dbUndo' = Erase(Put(dbUndo, h, e), old)
      BY <3>1, PrepareUndoEffect, Zenon
    <3>3. \A p : Score(e, p) \in {0, Score(stateMap, p)}
      BY Zenon DEF Score
    <3> HIDE DEF e, old
    <3>4. Within(e, total)
      BY <3>3, AccountParts DEF Within
    <3>5. \A k \in DOMAIN dbUndo' : dbUndo'[k] = e \/ (k \in DOMAIN dbUndo /\ dbUndo'[k] = dbUndo[k])
      BY <3>2, Zenon DEF Erase, Put
    <3> QED BY <3>4, <3>5, AccountParts, Zenon
  <2> QED BY <2>1, <2>2, Zenon
<1> QED BY <1>1, <1>2, AccountParts, Zenon DEF AccountInv, PenaltiesAccounted, Within

\* CheckAndPunish bans those with a score only.
LEMMA AccountPunish ==
  ASSUME TypeInv, AccountInv, Punish
  PROVE  AccountInv'
<1>1. UNCHANGED <<stateMap, dbState, dbUndo, dbList, total>>
  BY Zenon DEF Punish, mem, db, hist
<1>2. ASSUME NEW p \in MNs, total[p] = 0
      PROVE  list'[p] = NotBanned
  <2>1. Score(stateMap, p) = 0
    BY <1>2, ScoreNat, AccountParts DEF Within, TypeInv, TypeOK
  <2>2. list[p] = NotBanned
    BY <1>2, AccountParts, Zenon DEF BansOnly
  <2> QED BY <2>1, <2>2, PoSeConstants DEF Punish, CheckAndPunish
<1> QED BY <1>1, <1>2, Zenon DEF AccountInv, PenaltiesAccounted

\* Reviving a masternode forgets a score and lifts a ban: it adds nothing.
LEMMA AccountRevive ==
  ASSUME TypeInv, AccountInv, NEW p \in toRevive, ReviveOne(p)
  PROVE  AccountInv'
<1>1. UNCHANGED <<dbUndo, dbList, total>>
  BY Zenon DEF ReviveOne, hist
<1>2. Within(stateMap', total) /\ Within(dbState', total)
  <2>1. CASE p \in DOMAIN stateMap
    <3>1. stateMap' = Erase(stateMap, {p}) /\ dbState' = Erase(dbState, {p})
      BY <2>1, Zenon DEF ReviveOne, ResetPenalty
    <3> QED BY <3>1, WithinErase, AccountParts, Zenon
  <2>2. CASE p \notin DOMAIN stateMap
    BY <2>2, AccountParts, Zenon DEF ReviveOne, ResetPenalty
  <2> QED BY <2>1, <2>2, Zenon
<1>3. BansOnly(list', total)
  BY AccountParts, Zenon DEF ReviveOne, BansOnly, TypeInv, TypeOK, IsBans
<1> QED BY <1>1, <1>2, <1>3, AccountParts, Zenon
    DEF AccountInv, PenaltiesAccounted, Within, BansOnly

\* Saving a list keeps the account: the list in work bans only the penalised.
LEMMA AccountCommit ==
  ASSUME TypeInv, AccountInv, Commit
  PROVE  AccountInv'
<1>1. UNCHANGED <<stateMap, dbUndo, list, total>>
  BY Zenon DEF Commit
<1>2. dbState' = Flushed /\ dbList' = Put(dbList, h, list)
  BY Zenon DEF Commit
<1>3. Within(dbState', total)
  BY <1>2, WithinFlushed, AccountParts, Zenon
<1>4. \A k \in DOMAIN dbList' : BansOnly(dbList'[k], total)
  BY <1>2, AccountParts, Zenon DEF Put
<1> QED BY <1>1, <1>3, <1>4, AccountParts, Zenon DEF AccountInv, PenaltiesAccounted, Within, BansOnly

\* A late failure flushes scores that are accounted for.
LEMMA AccountFail ==
  ASSUME TypeInv, AccountInv, FailLate
  PROVE  AccountInv'
<1>1. UNCHANGED <<stateMap, dbUndo, dbList, list, total>>
  BY Zenon DEF FailLate, hist
<1>2. dbState' = Flushed
  BY Zenon DEF FailLate
<1>3. Within(dbState', total)
  BY <1>2, WithinFlushed, AccountParts, Zenon
<1> QED BY <1>1, <1>3, AccountParts, Zenon DEF AccountInv, PenaltiesAccounted, Within

\* UndoBlock restores recorded scores, whichever block recorded them.
LEMMA AccountDisconnect ==
  ASSUME TypeInv, AccountInv, Disconnect
  PROVE  AccountInv'
<1>1. UNCHANGED <<list, total>>
  BY Zenon DEF Disconnect
<1>2. UndoBlock(height) /\ dbList' = Erase(dbList, {height})
  BY Zenon DEF Disconnect
<1> DEFINE e == Entry(height)
<1>3. /\ stateMap' = Restored(stateMap, e) /\ dbState' = Restored(dbState, e)
      /\ dbUndo' = Erase(dbUndo, {height})
  BY <1>2, UndoBlockEffect, Zenon
<1>4. Within(e, total) /\ \A q \in DOMAIN e : e[q] \in Nat
  <2>1. CASE height \in DOMAIN dbUndo
    BY <2>1, EntryType, AccountParts, Zenon DEF Entry
  <2>2. CASE height \notin DOMAIN dbUndo
    BY <2>2, EntryType, AccountParts DEF Entry, EmptyMap, Score, Within
  <2> QED BY <2>1, <2>2, Zenon
<1> HIDE DEF e
<1>5. Within(stateMap', total) /\ Within(dbState', total)
  BY <1>3, <1>4, WithinRestored, AccountParts, Zenon
<1>6. \A k \in DOMAIN dbUndo' : Within(dbUndo'[k], total)
  BY <1>3, AccountParts, Zenon DEF Erase
<1>7. \A k \in DOMAIN dbList' : BansOnly(dbList'[k], total)
  BY <1>2, AccountParts, Zenon DEF Erase
<1> QED BY <1>1, <1>5, <1>6, <1>7, AccountParts, Zenon
    DEF AccountInv, PenaltiesAccounted, Within, BansOnly

\* A restart takes up scores that are accounted for.
LEMMA AccountRestart ==
  ASSUME AccountInv, NEW m, Within(m, total), Restart(m)
  PROVE  AccountInv'
<1>1. UNCHANGED <<dbUndo, dbList, total>>
  BY Zenon DEF Restart
<1>2. stateMap' = m /\ dbState' = m /\ list' = NoBans
  BY Zenon DEF Restart
<1>3. BansOnly(list', total)
  BY <1>2, Zenon DEF BansOnly, NoBans
<1> QED BY <1>1, <1>2, <1>3, AccountParts, Zenon
    DEF AccountInv, PenaltiesAccounted, Within, BansOnly

\* Every step keeps the account.
LEMMA AccountStep == TypeInv /\ AccountInv /\ [Next]_vars => AccountInv'
<1> SUFFICES ASSUME TypeInv, AccountInv, [Next]_vars PROVE AccountInv'
  BY Zenon
<1>1. CASE Crash
  BY <1>1, AccountRestart, AccountParts, Zenon DEF Crash
<1>2. CASE Shutdown
  BY <1>2, AccountRestart, WithinFlushed, AccountParts, Zenon DEF Shutdown
<1>3. CASE Connect \/ FlushStateToDisk \/ UNCHANGED vars
  <2>1. UNCHANGED <<stateMap, dbState, dbUndo, dbList, list, total>>
    BY <1>3, Zenon DEF vars, mem, db, proc, hist, Connect, FlushStateToDisk
  <2> QED BY <2>1, Zenon DEF AccountInv, PenaltiesAccounted
<1>4. CASE \E p \in MNs : IncrementPenalty(p)
  BY <1>4, AccountIncrement, Zenon
<1>5. CASE \E p \in toRevive : ReviveOne(p)
  BY <1>5, AccountRevive, Zenon
<1>6. CASE BeginBlock \/ RecordUndo \/ Punish
  BY <1>6, AccountBegin, AccountRecord, AccountPunish, Zenon
<1>7. CASE Commit \/ FailLate \/ Disconnect
  BY <1>7, AccountCommit, AccountFail, AccountDisconnect, Zenon
<1> QED BY <1>1, <1>2, <1>3, <1>4, <1>5, <1>6, <1>7, Zenon DEF Next, Stop

\* PenaltiesAccounted: whatever is disconnected, replayed, lost or restarted
\* in whatever order, no score in memory, on disk or in undo data exceeds the
\* penalties given, and nobody is banned without one (IncrementPenalty,
\* UndoBlock, Flush, CheckAndPunishMasternodes).
THEOREM PenaltiesNeverTwice == Spec => []PenaltiesAccounted
<1>1. TypeInv /\ AccountInv => PenaltiesAccounted
  BY Zenon DEF AccountInv
<1> QED BY <1>1, TypeInit, TypeStep, AccountInit, AccountStep, PTL DEF Spec

-----------------------------------------------------------------------------
(* The history of the chain, while no block fails late and nothing restarts *)

\* The empty history is a right one.
LEMMA HistoryInit == Init => HistoryInv
<1> SUFFICES ASSUME Init PROVE HistoryInv
  BY Zenon
<1>1. DOMAIN EmptyMap = {}
  BY Zenon DEF EmptyMap
<1>2. height = 0 /\ pc = "idle" /\ top = 0 /\ ~Working /\ Begun = 0 /\ 1 .. 0 = {}
  BY DEF Init, Working, Begun
<1>3. /\ DOMAIN dbList = {} /\ DOMAIN before = {} /\ DOMAIN hit = {} /\ DOMAIN dbUndo = {}
      /\ DOMAIN undoEntries = {} /\ DOMAIN first = {}
  BY <1>1, Zenon DEF Init
<1>4. list \in [MNs -> Int]
  BY DEF Init, NoBans, NotBanned
<1>5. Shape
  BY <1>2, <1>3, <1>4 DEF Shape
<1> QED BY <1>2, <1>3, <1>5, Zenon DEF HistoryInv, ChainInv, WorkInv, RevivalInv, FirstInv

\* Numbers that the proofs below keep using.
LEMMA HistoryNumbers ==
  ASSUME TypeInv
  PROVE  /\ height \in Nat /\ top \in Nat /\ goal \in Nat /\ h \in Nat
         /\ MAX_UNDO_HISTORY \in Nat \ {0} /\ top - MAX_UNDO_HISTORY \in Int
         /\ Begun \in Nat /\ height <= Begun
BY PoSeConstants DEF TypeInv, TypeOK, Begun

\* A step that leaves the chain and its history alone keeps what is remembered.
LEMMA FirstSame ==
  ASSUME FirstInv, UNCHANGED <<dbList, height, before, hit, first, top>>,
         Working' <=> Working, Begun' = Begun, Working \/ UNCHANGED stateMap
  PROVE  FirstInv'
<1>1. ASSUME NEW k \in DOMAIN first PROVE Remembered(k)'
  BY <1>1, Zenon DEF FirstInv, Remembered, Linked
<1>2. ASSUME NEW k \in DOMAIN first, NEW p \in MNs PROVE RememberedOf(k, p)'
  <2>1. Below(k, p)' = Below(k, p) /\ (Linked(k)' <=> Linked(k))
    BY Zenon DEF Below, Linked
  <2>2. RememberedOf(k, p)
    BY <1>2, Zenon DEF FirstInv
  <2> QED BY <2>1, <2>2, Zenon DEF RememberedOf
<1> QED BY <1>1, <1>2, Zenon DEF FirstInv

\* A step that leaves everything but the goal, the flushed height and the
\* bounds alone.
LEMMA HistorySame ==
  ASSUME TypeInv, HistoryInv,
         UNCHANGED <<stateMap, undoEntries, dbUndo, dbList, height, h, list, affected,
                     toRevive, before, hit, first, top>>,
         \/ pc' = pc /\ goal' = goal
         \/ pc = "idle" /\ pc' = "next" /\ goal' = height + 1
  PROVE  HistoryInv'
<1>1. Working' = Working /\ Begun' = Begun
  BY DEF Working, Begun
<1>2. Shape'
  BY <1>1, Zenon DEF HistoryInv, Shape, Working
<1>3. \A k : Entry(k)' = Entry(k) /\ ListAt(k)' = ListAt(k)
  BY Zenon DEF Entry, ListAt
<1>4. \A k, p : Later(k, p)' = Later(k, p)
  BY <1>1, Zenon DEF Later
<1>5. ChainInv'
  BY <1>3, <1>4, Zenon DEF HistoryInv, ChainInv, ChainAt
<1>6. WorkInv'
  BY <1>1, <1>3, Zenon DEF HistoryInv, WorkInv, WorkAt, Working
<1>7. RevivalInv'
  BY <1>1, <1>3 DEF HistoryInv, RevivalInv, Revived, StaysRevived
<1>8. FirstInv'
  BY <1>1, FirstSame, Zenon DEF HistoryInv
<1> QED BY <1>2, <1>5, <1>6, <1>7, <1>8, Zenon DEF HistoryInv

\* IncrementPenalty puts the masternode into hit of every block begun, and
\* changes nobody else's score.
LEMMA HistoryIncrement ==
  ASSUME TypeInv, HistoryInv, NEW q \in MNs, IncrementPenalty(q)
  PROVE  HistoryInv'
<1>1. /\ UNCHANGED <<undoEntries, dbUndo, dbList, height, pc, goal, h, list, affected,
                     toRevive, before, top>>
      /\ hit' = [k \in DOMAIN hit |-> hit[k] \cup {q}]
      /\ DOMAIN first' = {}
  BY Zenon DEF IncrementPenalty, db, proc, EmptyMap
<1>2. \A p : p # q => Score(stateMap', p) = Score(stateMap, p)
  <2>1. stateMap' = Put(stateMap, q, Score(stateMap, q) + nPoSeBanThreshold)
    BY Zenon DEF IncrementPenalty
  <2> QED BY <2>1, ScorePut
<1>3. Working' = Working /\ Begun' = Begun
  BY <1>1, Zenon DEF Working, Begun
<1>4. \A k \in 1 .. Begun : \A p \in MNs \ hit'[k] : p # q /\ p \in MNs \ hit[k]
  BY <1>1, Zenon DEF HistoryInv, Shape
<1>5. Shape'
  BY <1>1, <1>3, Zenon DEF HistoryInv, Shape, Working
<1>6. \A k : Entry(k)' = Entry(k) /\ ListAt(k)' = ListAt(k)
  BY <1>1, Zenon DEF Entry, ListAt
<1>7. \A k, p : p # q => Later(k, p)' = Later(k, p)
  BY <1>1, <1>2, <1>3, Zenon DEF Later
<1>8. \A k \in 1 .. height : k \in 1 .. Begun
  BY HistoryNumbers
<1>9. ChainInv'
  <2> SUFFICES ASSUME NEW k \in 1 .. height, NEW p \in MNs \ hit'[k] PROVE ChainAt(k, p)'
    BY <1>1, Zenon DEF ChainInv
  <2>1. ChainAt(k, p) /\ p # q
    BY <1>4, <1>8, Zenon DEF HistoryInv, ChainInv
  <2> QED BY <1>1, <1>6, <1>7, <2>1, Zenon DEF ChainAt
<1>10. WorkInv'
  <2> SUFFICES ASSUME Working, NEW p \in MNs \ hit'[h] PROVE WorkAt(p)'
    BY <1>1, <1>3, Zenon DEF WorkInv
  <2>1. h \in 1 .. Begun
    BY HistoryNumbers DEF HistoryInv, Shape, Begun
  <2>2. WorkAt(p) /\ p # q
    BY <1>4, <2>1, Zenon DEF HistoryInv, WorkInv
  <2> QED BY <1>1, <1>2, <1>6, <2>2, Zenon DEF WorkAt
<1>11. RevivalInv'
  <2> SUFFICES ASSUME NEW k \in 1 .. height, NEW p \in MNs \ hit'[k], Revived(k, p)'
               PROVE  StaysRevived(k, p)'
    BY <1>1, Zenon DEF RevivalInv
  <2>1. p # q /\ StaysRevived(k, p)
    BY <1>1, <1>4, <1>6, <1>8, Zenon DEF HistoryInv, RevivalInv, Revived
  <2> QED BY <1>1, <1>2, <1>3, <2>1, Zenon DEF StaysRevived
<1>12. FirstInv'
  <2>1. \A k \in 1 .. height : 1 \in 1 .. k /\ 1 \in DOMAIN hit
    BY <1>8, HistoryNumbers DEF HistoryInv, Shape
  <2>2. \A k \in 1 .. height : hit'[1] # {}
    BY <1>1, <2>1, Zenon
  <2> QED BY <1>1, <2>1, <2>2, Zenon DEF FirstInv
<1> QED BY <1>5, <1>9, <1>10, <1>11, <1>12, Zenon DEF HistoryInv

\* BeginBlock finds the list of the tip.
LEMMA BeginAtTip ==
  ASSUME TypeInv, HistoryInv, BeginBlock
  PROVE  /\ h' = height + 1 /\ list' = ListAt(height)
         /\ affected' = Affected(list', h')
         /\ before' = Put(before, h', stateMap) /\ hit' = Put(hit, h', {})
         /\ top' \in Nat /\ top' >= top /\ top' >= h'
         /\ pc = "next" /\ pc' = "undo" /\ goal = height + 1
         /\ UNCHANGED <<stateMap, undoEntries, dbUndo, dbList, height, goal, toRevive, first>>
<1>1. goal = height + 1 /\ pc = "next" /\ height \in Nat /\ top \in Nat
  BY HistoryNumbers, Zenon DEF BeginBlock, HistoryInv, Shape
<1>2. HasList(height)
  BY <1>1 DEF HistoryInv, Shape, HasList
<1> DEFINE k == Max({ j \in 0 .. goal - 1 : HasList(j) })
<1>3. goal \in Nat \ {0} /\ goal - 1 = height
  BY <1>1
<1>4. k \in 0 .. goal - 1 /\ \A j \in 0 .. goal - 1 : HasList(j) => j <= k
  BY <1>3, NearestList, Zenon
<1>5. h' = k + 1
  BY Zenon DEF BeginBlock
<1> HIDE DEF k
<1>6. k = height
  BY <1>1, <1>2, <1>3, <1>4
<1>7. h' = height + 1 /\ h' - 1 = height /\ h' \in Nat
  BY <1>1, <1>5, <1>6
<1>8. top' \in {top, h'} /\ top' >= top /\ top' >= h'
  <2>1. top' = Max({top, h'})
    BY Zenon DEF BeginBlock
  <2>2. \E x \in {top, h'} : \A y \in {top, h'} : x >= y
    BY <1>1, <1>7, top >= h' \/ h' >= top
  <2> QED BY <2>1, <2>2, Zenon DEF Max
<1> QED BY <1>1, <1>7, <1>8, Zenon DEF BeginBlock, mem, db

\* The history gets the scores the block finds, and an empty set of hits.
LEMMA HistoryBegin ==
  ASSUME TypeInv, HistoryInv, BeginBlock
  PROVE  HistoryInv'
<1>1. /\ h' = height + 1 /\ list' = ListAt(height)
      /\ before' = Put(before, h', stateMap) /\ hit' = Put(hit, h', {})
      /\ top' \in Nat /\ top' >= top /\ top' >= h'
      /\ pc = "next" /\ pc' = "undo" /\ goal = height + 1
      /\ UNCHANGED <<stateMap, undoEntries, dbUndo, dbList, height, goal, toRevive, first>>
  BY BeginAtTip, Zenon
<1>2. ~Working /\ Working' /\ Begun = height /\ Begun' = height + 1
  BY <1>1, Zenon DEF Working, Begun
<1>3. /\ DOMAIN before' = 1 .. height + 1 /\ DOMAIN hit' = 1 .. height + 1
      /\ before'[height + 1] = stateMap /\ hit'[height + 1] = {}
      /\ \A k \in 1 .. height : before'[k] = before[k] /\ hit'[k] = hit[k]
  <2>1. DOMAIN before = 1 .. height /\ DOMAIN hit = 1 .. height
    BY <1>2, Zenon DEF HistoryInv, Shape
  <2>2. (1 .. height) \cup {height + 1} = 1 .. height + 1 /\ height + 1 \notin 1 .. height
    BY HistoryNumbers
  <2> QED BY <1>1, <2>1, <2>2, Zenon DEF Put
<1>4. \A k : Entry(k)' = Entry(k) /\ ListAt(k)' = ListAt(k)
  BY <1>1, Zenon DEF Entry, ListAt
<1>5. \A k \in 1 .. height : \A p : Later(k, p)' = Later(k, p)
  <2> SUFFICES ASSUME NEW k \in 1 .. height, NEW p PROVE Later(k, p)' = Later(k, p)
    BY Zenon
  <2>1. k # height + 1 /\ (k # height => k + 1 \in 1 .. height)
    BY HistoryNumbers
  <2> QED BY <1>1, <1>2, <1>3, <2>1, Zenon DEF Later
<1>6. list' \in [MNs -> Int]
  <2>1. height = 0 \/ height \in 1 .. height
    BY HistoryNumbers
  <2>2. NoBans \in [MNs -> Int]
    BY DEF NoBans, NotBanned
  <2> QED BY <1>1, <2>1, <2>2, Zenon DEF ListAt, HistoryInv, Shape
<1>7. Shape'
  <2>1. \A j, k \in 1 .. height + 1 : j <= k => hit'[k] \subseteq hit'[j]
    <3> SUFFICES ASSUME NEW j \in 1 .. height + 1, NEW k \in 1 .. height + 1, j <= k
                 PROVE  hit'[k] \subseteq hit'[j]
      BY Zenon
    <3>1. CASE k = height + 1
      BY <1>3, <3>1, Zenon
    <3>2. CASE k # height + 1
      <4>1. j \in 1 .. height /\ k \in 1 .. height
        BY <3>2, HistoryNumbers
      <4> QED BY <1>2, <1>3, <4>1, Zenon DEF HistoryInv, Shape
    <3> QED BY <3>1, <3>2, Zenon
  <2>2. DOMAIN dbUndo' \subseteq 1 .. height
    BY <1>1, Zenon DEF HistoryInv, Shape
  <2> QED BY <1>1, <1>2, <1>3, <1>6, <2>1, <2>2, Zenon DEF HistoryInv, Shape
<1>8. ChainInv'
  <2> SUFFICES ASSUME NEW k \in 1 .. height, NEW p \in MNs \ hit'[k] PROVE ChainAt(k, p)'
    BY <1>1, Zenon DEF ChainInv
  <2>1. ChainAt(k, p)
    BY <1>3, Zenon DEF HistoryInv, ChainInv
  <2>2. /\ k >= top' - MAX_UNDO_HISTORY => k >= top - MAX_UNDO_HISTORY
        /\ k > top' - MAX_UNDO_HISTORY => k > top - MAX_UNDO_HISTORY
    BY <1>1, HistoryNumbers
  <2> QED BY <1>1, <1>3, <1>4, <1>5, <2>1, <2>2, Zenon DEF ChainAt
<1>9. WorkInv'
  <2> SUFFICES ASSUME NEW p \in MNs PROVE WorkAt(p)'
    BY Zenon DEF WorkInv
  <2>1. h' - 1 = height
    BY <1>1, HistoryNumbers
  <2>2. list' = ListAt(h - 1)'
    BY <1>1, <2>1, Zenon DEF ListAt
  <2>3. before'[h'] = stateMap'
    BY <1>1, <1>3, Zenon
  <2>4. Score(stateMap, p) # 0 => p \in affected'
    BY BeginAtTip DEF Affected, Score, TypeInv, TypeOK, IsScores
  <2> QED BY <1>1, <2>2, <2>3, <2>4, Zenon DEF WorkAt
<1>10. RevivalInv'
  <2> SUFFICES ASSUME NEW k \in 1 .. height, NEW p \in MNs \ hit[k], Revived(k, p)'
               PROVE  StaysRevived(k, p)'
    BY <1>1, <1>3, Zenon DEF RevivalInv
  <2>1. StaysRevived(k, p) /\ dbList[k][p] = NotBanned
    BY <1>1, <1>4, Zenon DEF HistoryInv, RevivalInv, Revived
  <2>2. h' = k + 1 => list'[p] = NotBanned
    BY <1>1, <2>1, HistoryNumbers DEF ListAt
  <2> QED BY <1>1, <2>1, <2>2, Zenon DEF StaysRevived
<1>11. FirstInv'
  <2>1. DOMAIN first' \subseteq 1 .. top'
    <3>1. top' \in Nat /\ top' >= top
      BY <1>1, Zenon
    <3>2. 1 .. top \subseteq 1 .. top'
      BY <3>1, HistoryNumbers
    <3> QED BY <1>1, <3>2, Zenon DEF HistoryInv, FirstInv
  <2>2. DOMAIN first' # {} => \A k \in 1 .. Begun' : hit'[k] = {}
    <3>1. DOMAIN first # {} => \A k \in 1 .. height : hit[k] = {}
      BY <1>2, Zenon DEF HistoryInv, FirstInv
    <3>2. \A k \in 1 .. height + 1 : k \in 1 .. height \/ k = height + 1
      BY HistoryNumbers
    <3> QED BY <1>1, <1>2, <1>3, <3>1, <3>2, Zenon
  <2>3. ASSUME NEW k \in 1 .. height, \A j \in 1 .. k : hit'[j] = {}, k \notin DOMAIN first
        PROVE  k < top' - MAX_UNDO_HISTORY
    <3>1. \A j \in 1 .. k : hit[j] = {}
      <4>1. 1 .. k \subseteq 1 .. height
        BY HistoryNumbers
      <4> QED BY <1>3, <2>3, <4>1, Zenon
    <3>2. k < top - MAX_UNDO_HISTORY
      BY <2>3, <3>1, Zenon DEF HistoryInv, FirstInv
    <3> QED BY <1>1, <3>2, HistoryNumbers
  <2>4. ASSUME NEW k \in DOMAIN first
        PROVE  Remembered(k)' /\ \A p \in MNs : RememberedOf(k, p)'
    <3>1. Remembered(k) /\ (\A p \in MNs : RememberedOf(k, p)) /\ k \in Nat
      BY <2>4 DEF HistoryInv, FirstInv
    <3>2. Remembered(k)'
      BY <1>1, <3>1, HistoryNumbers DEF Remembered, Linked
    <3>3. ASSUME NEW p \in MNs PROVE RememberedOf(k, p)'
      <4>1. k <= height + 1 => Score(before'[k], p) = Score(first[k].scores, p)
        <5>1. CASE k = height + 1
          BY <1>2, <1>3, <3>1, <3>3, <5>1, Zenon DEF RememberedOf
        <5>2. CASE k <= height
          <6>1. k \in 1 .. height
            BY <2>4, <5>2 DEF HistoryInv, FirstInv
          <6> QED BY <1>2, <1>3, <3>1, <3>3, <5>2, <6>1, Zenon DEF RememberedOf
        <5>3. k \in Nat
          BY <3>1, Zenon
        <5>4. k <= height + 1 => k = height + 1 \/ k <= height
          BY <5>3, HistoryNumbers
        <5> QED BY <5>1, <5>2, <5>4, Zenon
      <4> QED BY <1>1, <1>2, <3>1, <3>3, <4>1, Zenon DEF RememberedOf, Linked, Below
    <3> QED BY <3>2, <3>3, Zenon
  <2> QED BY <1>1, <2>1, <2>2, <2>3, <2>4, Zenon DEF FirstInv
<1> QED BY <1>7, <1>8, <1>9, <1>10, <1>11, Zenon DEF HistoryInv

\* PrepareUndo records the scores of the block that is processed and drops no
\* block near the top.
LEMMA HistoryRecord ==
  ASSUME TypeInv, HistoryInv, RecordUndo
  PROVE  HistoryInv'
<1>1. /\ UNCHANGED <<stateMap, dbList, height, goal, h, list, affected, toRevive, before,
                     hit, first, top>>
      /\ pc = "undo" /\ pc' = "punish"
  BY Zenon DEF RecordUndo, hist
<1>2. Working /\ Working' /\ Begun' = Begun
  BY <1>1, Zenon DEF Working, Begun
<1>3. /\ h = height + 1 /\ h <= top /\ DOMAIN undoEntries = DOMAIN dbUndo
      /\ DOMAIN dbUndo \subseteq 1 .. height
  BY <1>1, <1>2, Zenon DEF HistoryInv, Shape, Begun
<1> DEFINE e == [p \in affected |-> Score(stateMap, p)]
           H == (DOMAIN dbUndo) \cup {h}
<1>4. /\ DOMAIN undoEntries' = DOMAIN dbUndo' /\ DOMAIN dbUndo' \subseteq 1 .. h
      /\ \A k \in (DOMAIN dbUndo') \ {h} : k \in DOMAIN dbUndo /\ dbUndo'[k] = dbUndo[k]
      /\ h \in DOMAIN dbUndo' => dbUndo'[h] = e
      /\ affected # {} => h \in DOMAIN dbUndo'
      /\ \A k \in DOMAIN dbUndo : k > top - MAX_UNDO_HISTORY => k \in DOMAIN dbUndo'
  <2>1. CASE affected = {}
    <3>1. h \notin DOMAIN dbUndo
      BY <1>3, HistoryNumbers
    <3> QED BY <1>3, <2>1, <3>1, HistoryNumbers DEF RecordUndo
  <2>2. CASE affected # {}
    <3>1. PrepareUndo(h, affected)
      BY <2>2, Zenon DEF RecordUndo
    <3>2. /\ undoEntries' = Erase(Put(undoEntries, h, e), Old(H))
          /\ dbUndo' = Erase(Put(dbUndo, h, e), Old(H))
      BY <1>3, <3>1, PrepareUndoEffect, Zenon
    <3>3. H \subseteq 1 .. h
      BY <1>3, HistoryNumbers
    <3>4. ASSUME NEW k \in H, k > top - MAX_UNDO_HISTORY PROVE k \notin Old(H)
      <4>1. k > h - MAX_UNDO_HISTORY /\ h \in Nat
        BY <1>3, <3>3, <3>4, HistoryNumbers
      <4> HIDE DEF H
      <4> QED BY <3>3, <3>4, <4>1, TrimNear, Zenon
    <3>5. h > h - MAX_UNDO_HISTORY /\ h \in H /\ h \in Nat
      BY HistoryNumbers
    <3>6. h \notin Old(H)
      <4> HIDE DEF H
      <4> QED BY <3>3, <3>5, TrimNear, Zenon
    <3> HIDE DEF e
    <3>7. DOMAIN undoEntries' = H \ Old(H) /\ DOMAIN dbUndo' = H \ Old(H)
      BY <1>3, <3>2, Zenon DEF Put, Erase
    <3>8. \A k \in H \ Old(H) : dbUndo'[k] = IF k = h THEN e ELSE dbUndo[k]
      BY <3>2, Zenon DEF Put, Erase
    <3> QED BY <3>3, <3>4, <3>6, <3>7, <3>8, Zenon
  <2> QED BY <2>1, <2>2, Zenon
<1>5. \A p : Score(e, p) = IF p \in affected THEN Score(stateMap, p) ELSE 0
  BY Zenon DEF Score
<1> HIDE DEF e
<1>6. \A k \in 1 .. height : k > top - MAX_UNDO_HISTORY => Entry(k)' = Entry(k)
  <2> SUFFICES ASSUME NEW k \in 1 .. height, k > top - MAX_UNDO_HISTORY
               PROVE  Entry(k)' = Entry(k)
    BY Zenon
  <2>1. k # h
    BY <1>3, HistoryNumbers
  <2> QED BY <1>4, <2>1, Zenon DEF Entry
<1>7. Shape'
  BY <1>1, <1>2, <1>4, Zenon DEF HistoryInv, Shape
<1>8. \A k : ListAt(k)' = ListAt(k)
  BY <1>1, Zenon DEF ListAt
<1>9. \A k, p : Later(k, p)' = Later(k, p)
  BY <1>1, <1>2, Zenon DEF Later
<1>10. ChainInv'
  <2> SUFFICES ASSUME NEW k \in 1 .. height, NEW p \in MNs \ hit[k] PROVE ChainAt(k, p)'
    BY <1>1, Zenon DEF ChainInv
  <2>1. ChainAt(k, p)
    BY Zenon DEF HistoryInv, ChainInv
  <2> QED BY <1>1, <1>6, <1>8, <1>9, <2>1, Zenon DEF ChainAt
<1>11. WorkInv'
  <2> SUFFICES ASSUME NEW p \in MNs \ hit[h] PROVE WorkAt(p)'
    BY <1>1, Zenon DEF WorkInv
  <2>1. WorkAt(p)
    BY <1>2, Zenon DEF HistoryInv, WorkInv
  <2> DEFINE s == Score(before[h], p)
  <2>2. (s # 0 => p \in affected) /\ Score(stateMap, p) = s
    BY <1>1, <2>1, Zenon DEF WorkAt
  <2>3. s = Score(Entry(h)', p)
    <3>1. CASE h \in DOMAIN dbUndo'
      <4>1. Entry(h)' = e
        BY <1>1, <1>4, <3>1, Zenon DEF Entry
      <4> QED BY <1>5, <2>2, <4>1, Zenon
    <3>2. CASE h \notin DOMAIN dbUndo'
      <4>1. Entry(h)' = EmptyMap /\ affected = {}
        BY <1>1, <1>4, <3>2, Zenon DEF Entry
      <4> QED BY <2>2, <4>1, Zenon DEF EmptyMap, Score
    <3> QED BY <3>1, <3>2, Zenon
  <2> QED BY <1>1, <1>8, <2>1, <2>3, Zenon DEF WorkAt
<1>12. RevivalInv'
  <2> SUFFICES ASSUME NEW k \in 1 .. height, NEW p \in MNs \ hit[k], Revived(k, p)'
               PROVE  StaysRevived(k, p)'
    BY <1>1, Zenon DEF RevivalInv
  <2>1. StaysRevived(k, p)
    BY <1>1, <1>8, Zenon DEF HistoryInv, RevivalInv, Revived
  <2>2. \A j \in DOMAIN dbUndo' : j > k => Score(dbUndo'[j], p) = 0
    BY <1>4, <1>5, <2>1, HistoryNumbers, Zenon DEF StaysRevived
  <2> QED BY <1>1, <1>2, <2>1, <2>2, Zenon DEF StaysRevived
<1>13. FirstInv'
  BY <1>1, <1>2, FirstSame, Zenon DEF HistoryInv
<1> QED BY <1>7, <1>10, <1>11, <1>12, <1>13, Zenon DEF HistoryInv

\* CheckAndPunish, of one masternode that was not penalised since.
LEMMA HistoryPunish ==
  ASSUME TypeInv, HistoryInv, Punish
  PROVE  HistoryInv'
<1>1. /\ UNCHANGED <<stateMap, undoEntries, dbUndo, dbList, height, goal, h, affected,
                     before, hit, first, top>>
      /\ pc = "punish" /\ pc' = "revive"
  BY Zenon DEF Punish, mem, db, hist
<1>2. Working /\ Working' /\ Begun' = Begun /\ h = height + 1
  BY <1>1, Zenon DEF Working, Begun, HistoryInv, Shape
<1>3. \A p \in MNs : /\ list'[p] = Punished(list[p], h, Score(stateMap, p))
                     /\ p \in toRevive' <=> Due(list'[p], h)
  BY Zenon DEF Punish, CheckAndPunish, Punished, Revivable, Due
<1>4. list' \in [MNs -> Int]
  BY HistoryNumbers DEF Punish, CheckAndPunish, HistoryInv, Shape
<1>5. Shape'
  BY <1>1, <1>2, <1>4, Zenon DEF HistoryInv, Shape
<1>6. \A k : Entry(k)' = Entry(k) /\ ListAt(k)' = ListAt(k)
  BY <1>1, Zenon DEF Entry, ListAt
<1>7. \A k, p : Later(k, p)' = Later(k, p)
  BY <1>1, <1>2, Zenon DEF Later
<1>8. ChainInv'
  BY <1>1, <1>6, <1>7, Zenon DEF HistoryInv, ChainInv, ChainAt
<1>9. WorkInv'
  <2> SUFFICES ASSUME NEW p \in MNs \ hit[h] PROVE WorkAt(p)'
    BY <1>1, Zenon DEF WorkInv
  <2>1. WorkAt(p)
    BY <1>2, Zenon DEF HistoryInv, WorkInv
  <2> DEFINE s == Score(before[h], p)
             b == ListAt(h - 1)[p]
  <2>2. list[p] = b /\ Score(stateMap, p) = s
    BY <1>1, <2>1, Zenon DEF WorkAt
  <2>3. list'[p] = Punished(b, h, s) /\ (p \in toRevive' <=> Due(Punished(b, h, s), h))
    BY <1>3, <2>2, Zenon
  <2>4. p \notin toRevive' => list'[p] = NextBan(b, h, s) /\ Score(stateMap, p) = NextScore(b, h, s)
    BY <2>2, <2>3, Zenon DEF NextBan, NextScore
  <2> QED BY <1>1, <1>6, <2>1, <2>3, <2>4, Zenon DEF WorkAt
<1>10. RevivalInv'
  <2> SUFFICES ASSUME NEW k \in 1 .. height, NEW p \in MNs \ hit[k], Revived(k, p)'
               PROVE  StaysRevived(k, p)'
    BY <1>1, Zenon DEF RevivalInv
  <2>1. StaysRevived(k, p)
    BY <1>1, <1>6, Zenon DEF HistoryInv, RevivalInv, Revived
  <2>2. h = k + 1 => list'[p] = NotBanned
    BY <1>2, <1>3, <2>1, PoSeConstants DEF StaysRevived, Punished
  <2> QED BY <1>1, <1>2, <2>1, <2>2, Zenon DEF StaysRevived
<1>11. FirstInv'
  BY <1>1, <1>2, FirstSame, Zenon DEF HistoryInv
<1> QED BY <1>5, <1>8, <1>9, <1>10, <1>11, Zenon DEF HistoryInv

\* ResetPenalty leaves a score of 0 whether or not there was a state.
LEMMA HistoryRevive ==
  ASSUME TypeInv, HistoryInv, NEW q \in toRevive, ReviveOne(q)
  PROVE  HistoryInv'
<1>1. /\ UNCHANGED <<undoEntries, dbUndo, dbList, height, pc, goal, h, affected, before, hit,
                     first, top>>
      /\ pc = "revive" /\ toRevive' = toRevive \ {q}
      /\ list' = [list EXCEPT ![q] = NotBanned]
  BY Zenon DEF ReviveOne, hist
<1>2. Working /\ Working' /\ Begun' = Begun /\ Begun = height + 1 /\ h = height + 1
  BY <1>1, Zenon DEF Working, Begun, HistoryInv, Shape
<1>3. \A p : Score(stateMap', p) = IF p = q THEN 0 ELSE Score(stateMap, p)
  <2>1. CASE q \in DOMAIN stateMap
    <3>1. stateMap' = Erase(stateMap, {q})
      BY <2>1, Zenon DEF ReviveOne, ResetPenalty
    <3> QED BY <3>1, ScoreErase
  <2>2. CASE q \notin DOMAIN stateMap
    BY <2>2, Zenon DEF ReviveOne, ResetPenalty, Score
  <2> QED BY <2>1, <2>2, Zenon
<1>4. q \in MNs /\ list \in [MNs -> Int]
  BY Zenon DEF TypeInv, TypeOK, HistoryInv, Shape
<1>5. /\ list' \in [MNs -> Int]
      /\ \A p \in MNs : list'[p] = IF p = q THEN NotBanned ELSE list[p]
  BY <1>1, <1>4 DEF NotBanned
<1>6. Shape'
  BY <1>1, <1>2, <1>5, Zenon DEF HistoryInv, Shape
<1>7. \A k : Entry(k)' = Entry(k) /\ ListAt(k)' = ListAt(k)
  BY <1>1, Zenon DEF Entry, ListAt
<1>8. \A k \in 1 .. height : \A p : Later(k, p)' = Later(k, p)
  BY <1>1, <1>2, HistoryNumbers DEF Later
<1>9. ChainInv'
  <2> SUFFICES ASSUME NEW k \in 1 .. height, NEW p \in MNs \ hit[k] PROVE ChainAt(k, p)'
    BY <1>1, Zenon DEF ChainInv
  <2>1. ChainAt(k, p)
    BY Zenon DEF HistoryInv, ChainInv
  <2> QED BY <1>1, <1>7, <1>8, <2>1, Zenon DEF ChainAt
<1>10. WorkInv'
  <2> SUFFICES ASSUME NEW p \in MNs \ hit[h] PROVE WorkAt(p)'
    BY <1>1, Zenon DEF WorkInv
  <2>1. WorkAt(p)
    BY <1>2, Zenon DEF HistoryInv, WorkInv
  <2> DEFINE s == Score(before[h], p)
             b == ListAt(h - 1)[p]
  <2>2. p \notin toRevive' => list'[p] = NextBan(b, h, s) /\ Score(stateMap', p) = NextScore(b, h, s)
    <3>1. CASE p = q
      BY <1>1, <1>3, <1>5, <2>1, <3>1, Zenon DEF WorkAt, NextBan, NextScore
    <3>2. CASE p # q
      BY <1>1, <1>3, <1>5, <2>1, <3>2, Zenon DEF WorkAt
    <3> QED BY <3>1, <3>2, Zenon
  <2> QED BY <1>1, <1>7, <2>1, <2>2, Zenon DEF WorkAt
<1>11. RevivalInv'
  <2> SUFFICES ASSUME NEW k \in 1 .. height, NEW p \in MNs \ hit[k], Revived(k, p)'
               PROVE  StaysRevived(k, p)'
    BY <1>1, Zenon DEF RevivalInv
  <2>1. StaysRevived(k, p)
    BY <1>1, <1>7, Zenon DEF HistoryInv, RevivalInv, Revived
  <2> QED BY <1>1, <1>2, <1>3, <1>5, <2>1, Zenon DEF StaysRevived
<1>12. FirstInv'
  BY <1>1, <1>2, FirstSame, Zenon DEF HistoryInv
<1> QED BY <1>6, <1>9, <1>10, <1>11, <1>12, Zenon DEF HistoryInv

\* The list remembered below a block is the one of the chain.
LEMMA BelowChain ==
  ASSUME TypeInv, HistoryInv, NEW k \in 1 .. height + 1, Linked(k), NEW p \in MNs
  PROVE  Below(k, p) = ListAt(k - 1)[p]
<1>1. CASE k = 1
  BY <1>1 DEF Below, ListAt, NoBans
<1>2. CASE k # 1
  <2>1. k - 1 \in DOMAIN first /\ k - 1 <= height /\ k - 1 # 0
    BY <1>2, HistoryNumbers DEF Linked
  <2>2. dbList[k - 1] = first[k - 1].list
    BY <2>1, Zenon DEF HistoryInv, FirstInv, Remembered
  <2> QED BY <1>2, <2>1, <2>2, Zenon DEF Below, ListAt
<1> QED BY <1>1, <1>2, Zenon

\* The block that was processed joins the chain.
LEMMA CommitTip ==
  ASSUME TypeInv, HistoryInv, Commit
  PROVE  /\ UNCHANGED <<stateMap, undoEntries, dbUndo, goal, h, list, affected, toRevive,
                        before, hit, top>>
         /\ pc = "revive" /\ pc' = "idle" /\ h = height + 1 /\ height' = height + 1
         /\ Working /\ ~Working' /\ Begun = height + 1 /\ Begun' = height + 1
         /\ dbList' = Put(dbList, height + 1, list)
         /\ \A p \in MNs \ hit[h] :
              LET s == Score(before[h], p)
                  b == ListAt(h - 1)[p]
              IN  /\ list[p] = NextBan(b, h, s) /\ Score(stateMap, p) = NextScore(b, h, s)
                  /\ s = Score(Entry(h), p)
<1>1. /\ UNCHANGED <<stateMap, undoEntries, dbUndo, goal, h, list, affected, toRevive,
                     before, hit, top>>
      /\ pc = "revive" /\ toRevive = {}
      /\ pc' = (IF h = goal THEN "idle" ELSE "next")
      /\ height' = (IF h = goal THEN goal ELSE height)
      /\ dbList' = Put(dbList, h, list)
  BY Zenon DEF Commit
<1>2. Working
  BY <1>1, Zenon DEF Working
<1>3. h = height + 1 /\ goal = height + 1
  BY <1>1, <1>2, Zenon DEF HistoryInv, Shape
<1>4. ASSUME NEW p \in MNs \ hit[h] PROVE WorkAt(p)
  BY <1>2, Zenon DEF HistoryInv, WorkInv
<1>5. ~Working' /\ Begun = height + 1 /\ Begun' = height + 1
  BY <1>1, <1>2, <1>3, Zenon DEF Working, Begun
<1> QED BY <1>1, <1>2, <1>3, <1>4, <1>5, Zenon DEF WorkAt

\* Its list and its scores are those of the new tip.
LEMMA HistoryCommit ==
  ASSUME TypeInv, HistoryInv, Commit
  PROVE  Shape' /\ ChainInv' /\ WorkInv' /\ RevivalInv'
<1>1. /\ UNCHANGED <<stateMap, undoEntries, dbUndo, goal, h, list, affected, toRevive,
                     before, hit, top>>
      /\ pc = "revive" /\ pc' = "idle" /\ h = height + 1 /\ height' = height + 1
      /\ Working /\ ~Working' /\ Begun = height + 1 /\ Begun' = height + 1
  BY CommitTip, Zenon
<1>2. \A p \in MNs \ hit[h] :
        /\ list[p] = NextBan(ListAt(height)[p], h, Score(before[h], p))
        /\ Score(stateMap, p) = NextScore(ListAt(height)[p], h, Score(before[h], p))
        /\ Score(before[h], p) = Score(Entry(h), p)
  <2>1. h - 1 = height
    BY <1>1, HistoryNumbers
  <2> QED BY <2>1, CommitTip, Zenon
<1>3. /\ DOMAIN dbList' = 1 .. height + 1 /\ dbList'[height + 1] = list
      /\ \A k \in 1 .. height : dbList'[k] = dbList[k]
  <2>1. dbList' = Put(dbList, height + 1, list) /\ DOMAIN dbList = 1 .. height
    BY CommitTip, Zenon DEF HistoryInv, Shape
  <2> QED BY <2>1, HistoryNumbers DEF Put
<1>4. \A k \in 0 .. height : ListAt(k)' = ListAt(k)
  BY <1>3 DEF ListAt
<1>5. \A k : Entry(k)' = Entry(k)
  BY <1>1, Zenon DEF Entry
<1>6. \A k \in 1 .. height + 1 : \A p : Later(k, p)' = Later(k, p)
  BY <1>1, Zenon DEF Later
<1>7. \A k \in 1 .. height : k \in DOMAIN first' => k \in DOMAIN first
  <2>1. DOMAIN first' \subseteq (DOMAIN first) \cup {h}
    BY Zenon DEF Commit, Put
  <2> QED BY <1>1, <2>1, HistoryNumbers
<1>8. Shape'
  <2>1. \A k \in 1 .. height + 1 : k \in 1 .. height \/ k = height + 1
    BY HistoryNumbers
  <2>2. \A k \in 1 .. height + 1 : dbList'[k] \in [MNs -> Int]
    BY <1>3, <2>1, Zenon DEF HistoryInv, Shape
  <2>3. DOMAIN dbUndo \subseteq 1 .. height + 1
    BY <1>1, Zenon DEF HistoryInv, Shape
  <2> QED BY <1>1, <1>3, <2>2, <2>3, Zenon DEF HistoryInv, Shape
<1>9. ChainInv'
  <2> SUFFICES ASSUME NEW k \in 1 .. height + 1, NEW p \in MNs \ hit[k] PROVE ChainAt(k, p)'
    BY <1>1, Zenon DEF ChainInv
  <2>1. CASE k \in 1 .. height
    <3>1. ChainAt(k, p)
      BY <2>1, Zenon DEF HistoryInv, ChainInv
    <3>2. k - 1 \in 0 .. height
      BY <2>1, HistoryNumbers
    <3> QED BY <1>1, <1>3, <1>4, <1>5, <1>6, <1>7, <2>1, <3>1, <3>2, Zenon DEF ChainAt
  <2>2. CASE k = height + 1
    <3>1. k = h /\ k - 1 = height /\ height \in 0 .. height
      BY <1>1, <2>2, HistoryNumbers
    <3>2. Later(k, p)' = Score(stateMap, p)
      BY <1>1, <2>2, Zenon DEF Later
    <3>3. ListAt(k - 1)' = ListAt(height) /\ Entry(k)' = Entry(h) /\ p \in MNs \ hit[h]
      BY <1>4, <1>5, <3>1, Zenon
    <3>4. dbList'[k][p] = list[p] /\ before'[k] = before[h]
      BY <1>1, <1>3, <2>2, Zenon
    <3> QED BY <1>2, <3>1, <3>2, <3>3, <3>4, Zenon DEF ChainAt
  <2> QED BY <2>1, <2>2, HistoryNumbers
<1>10. WorkInv'
  BY <1>1, Zenon DEF WorkInv
<1>11. RevivalInv'
  <2> SUFFICES ASSUME NEW k \in 1 .. height + 1, NEW p \in MNs \ hit[k], Revived(k, p)'
               PROVE  StaysRevived(k, p)'
    BY <1>1, Zenon DEF RevivalInv
  <2>1. CASE k \in 1 .. height
    <3>1. k - 1 \in 0 .. height
      BY <2>1, HistoryNumbers
    <3>2. StaysRevived(k, p)
      BY <1>3, <1>4, <2>1, <3>1, Zenon DEF HistoryInv, RevivalInv, Revived
    <3>3. dbList'[k + 1][p] = NotBanned
      <4>1. CASE k = height
        BY <1>1, <1>3, <3>2, <4>1, Zenon DEF StaysRevived
      <4>2. CASE k # height
        <5>1. k + 1 \in 1 .. height
          BY <2>1, <4>2, HistoryNumbers
        <5> QED BY <1>3, <3>2, <5>1, Zenon DEF StaysRevived, HistoryInv, Shape
      <4> QED BY <4>1, <4>2, Zenon
    <3> QED BY <1>1, <3>2, <3>3, Zenon DEF StaysRevived
  <2>2. CASE k = height + 1
    <3>1. k = h /\ k - 1 = height /\ height \in 0 .. height
      BY <1>1, <2>2, HistoryNumbers
    <3>2. ListAt(height)[p] # NotBanned /\ list[p] = NotBanned
      BY <1>3, <1>4, <2>2, <3>1, Zenon DEF Revived
    <3>3. Score(stateMap, p) = 0
      BY <1>2, <3>1, <3>2, Zenon DEF NextBan, NextScore, Punished
    <3>4. \A j \in DOMAIN dbUndo : ~(j > k)
      BY <1>1, <2>2 DEF HistoryInv, Shape
    <3>5. k + 1 \notin DOMAIN dbList'
      BY <1>3, <2>2
    <3> QED BY <1>1, <3>3, <3>4, <3>5, Zenon DEF StaysRevived
  <2> QED BY <2>1, <2>2, HistoryNumbers
<1> QED BY <1>8, <1>9, <1>10, <1>11, Zenon

\* What is remembered of blocks above the one that was processed agrees with
\* it; if it is remembered itself, it gets the list it had.
LEMMA CommitRemembered ==
  ASSUME TypeInv, HistoryInv, Commit
  PROVE  /\ h + 1 \in DOMAIN first => h \in DOMAIN first
         /\ h \in DOMAIN first => Linked(h) /\ list = first[h].list
         /\ h + 1 \in DOMAIN first =>
              \A p \in MNs : Score(stateMap, p) = Score(first[h + 1].scores, p)
         /\ height \in DOMAIN first /\ Linked(height) =>
              \A p \in MNs : Score(before[h], p)
                               = NextScore(Below(height, p), height, Score(first[height].scores, p))
<1>1. h = height + 1 /\ Working /\ Begun = height + 1
  BY CommitTip, Zenon
<1>2. h + 1 \in DOMAIN first => h \in DOMAIN first
  <2>1. ~(h + 1 <= height) /\ h + 1 # 1 /\ (h + 1) - 1 = h
    BY <1>1, HistoryNumbers
  <2> QED BY <2>1, Zenon DEF HistoryInv, FirstInv, Remembered, Linked
<1>3. h \in DOMAIN first => Linked(h)
  <2>1. ~(h <= height)
    BY <1>1, HistoryNumbers
  <2> QED BY <2>1, Zenon DEF HistoryInv, FirstInv, Remembered
<1>4. ASSUME h \in DOMAIN first, NEW p \in MNs
      PROVE  /\ list[p] = first[h].list[p]
             /\ h + 1 \in DOMAIN first => Score(stateMap, p) = Score(first[h + 1].scores, p)
  <2>1. hit[h] = {} /\ RememberedOf(h, p) /\ h <= Begun /\ h \in 1 .. height + 1
    BY <1>1, <1>4 DEF HistoryInv, FirstInv
  <2>2. Linked(h) /\ Below(h, p) = ListAt(h - 1)[p]
    BY <1>3, <1>4, <2>1, BelowChain, Zenon
  <2> DEFINE s == Score(first[h].scores, p)
  <2>3. /\ Score(before[h], p) = s
        /\ first[h].list[p] = NextBan(Below(h, p), h, s)
        /\ h + 1 \in DOMAIN first
             => Score(first[h + 1].scores, p) = NextScore(Below(h, p), h, s)
    BY <2>1, <2>2, Zenon DEF RememberedOf
  <2>4. /\ list[p] = NextBan(ListAt(h - 1)[p], h, Score(before[h], p))
        /\ Score(stateMap, p) = NextScore(ListAt(h - 1)[p], h, Score(before[h], p))
    BY <2>1, CommitTip, Zenon
  <2> QED BY <2>2, <2>3, <2>4, Zenon
<1>5. h \in DOMAIN first => list = first[h].list
  <2>1. list \in [MNs -> Int]
    BY Zenon DEF HistoryInv, Shape
  <2>2. h \in DOMAIN first => first[h].list \in [MNs -> Int]
    BY Zenon DEF HistoryInv, FirstInv, Remembered
  <2> QED BY <1>4, <2>1, <2>2
<1>6. ASSUME height \in DOMAIN first, Linked(height), NEW p \in MNs
      PROVE  Score(before[h], p)
               = NextScore(Below(height, p), height, Score(first[height].scores, p))
  <2>1. height \in 1 .. height /\ height \in 1 .. height + 1 /\ height <= Begun
    BY <1>1, <1>6 DEF HistoryInv, FirstInv
  <2>2. hit[height] = {} /\ RememberedOf(height, p)
    BY <1>1, <1>6, <2>1, Zenon DEF HistoryInv, FirstInv
  <2>3. ChainAt(height, p)
    BY <2>1, <2>2, Zenon DEF HistoryInv, ChainInv
  <2>4. Later(height, p) = Score(before[h], p)
    BY <1>1 DEF Later
  <2>5. Below(height, p) = ListAt(height - 1)[p]
    BY <1>6, <2>1, BelowChain, Zenon
  <2>6. Score(before[height], p) = Score(first[height].scores, p)
    BY <2>1, <2>2, Zenon DEF RememberedOf
  <2> QED BY <1>6, <2>3, <2>4, <2>5, <2>6, Zenon DEF ChainAt
<1> QED BY <1>2, <1>3, <1>4, <1>5, <1>6, Zenon

\* Committing a block keeps what is remembered: a block that is not remembered
\* yet is, with its list and the scores it found.
LEMMA FirstCommit ==
  ASSUME TypeInv, HistoryInv, Commit
  PROVE  FirstInv'
<1>1. /\ UNCHANGED <<stateMap, h, list, before, hit, top>>
      /\ h = height + 1 /\ height' = height + 1
      /\ Working /\ ~Working' /\ Begun = height + 1 /\ Begun' = height + 1
  BY CommitTip, Zenon
<1>2. dbList'[h] = list /\ \A k \in 1 .. height : dbList'[k] = dbList[k]
  <2>1. dbList' = Put(dbList, h, list) /\ DOMAIN dbList = 1 .. height
    BY <1>1, CommitTip, Zenon DEF HistoryInv, Shape
  <2> QED BY <1>1, <2>1, HistoryNumbers DEF Put
<1> DEFINE New == h \notin DOMAIN first /\ \A k \in 1 .. h : hit[k] = {}
<1>3. IF New THEN first' = Put(first, h, [list |-> list, scores |-> before[h]])
             ELSE first' = first
  <2>1. \A k \in 1 .. h : k \in DOMAIN hit
    BY <1>1, Zenon DEF HistoryInv, Shape
  <2> QED BY <2>1, Zenon DEF Commit
<1>4. /\ DOMAIN first' = IF New THEN (DOMAIN first) \cup {h} ELSE DOMAIN first
      /\ New => first'[h].list = list /\ first'[h].scores = before[h]
      /\ \A k \in DOMAIN first : first'[k] = first[k]
  BY <1>3 DEF Put
<1> HIDE DEF New
<1>5. DOMAIN first \subseteq 1 .. top /\ h \in 1 .. top
  BY <1>1, HistoryNumbers DEF HistoryInv, FirstInv, Shape
<1>6. DOMAIN first' \subseteq 1 .. top'
  BY <1>1, <1>4, <1>5, Zenon
<1>7. DOMAIN first' # {} => \A k \in 1 .. Begun' : hit'[k] = {}
  BY <1>1, <1>4, Zenon DEF HistoryInv, FirstInv, New
<1>8. ASSUME NEW k \in 1 .. height', \A j \in 1 .. k : hit'[j] = {}, k \notin DOMAIN first'
      PROVE  k < top' - MAX_UNDO_HISTORY
  <2>1. k # h
    BY <1>1, <1>4, <1>8, Zenon DEF New
  <2>2. k \in 1 .. height /\ k \notin DOMAIN first
    BY <1>1, <1>4, <1>8, <2>1, HistoryNumbers
  <2> QED BY <1>1, <1>8, <2>2, Zenon DEF HistoryInv, FirstInv
<1>9. ASSUME NEW k \in DOMAIN first
      PROVE  Remembered(k)' /\ \A p \in MNs : RememberedOf(k, p)'
  <2>1. Remembered(k) /\ (\A p \in MNs : RememberedOf(k, p)) /\ k \in 1 .. top
    BY <1>5, <1>9, Zenon DEF HistoryInv, FirstInv
  <2>2. first'[k] = first[k]
    BY <1>4, <1>9, Zenon
  <2>3. k - 1 = h => h \in DOMAIN first
    <3>1. k - 1 = h => h + 1 = k
      BY <1>5, <1>9, HistoryNumbers
    <3> QED BY <1>9, <3>1, CommitRemembered, Zenon
  <2>4. Linked(k)' = Linked(k)
    BY <1>4, <2>3, Zenon DEF Linked
  <2>5. \A p \in MNs : Linked(k) => Below(k, p)' = Below(k, p)
    BY <1>4, <2>3, Zenon DEF Below, Linked
  <2>6. k <= height' => dbList'[k] = first[k].list
    <3>1. CASE k = h
      BY <1>2, <1>9, <3>1, CommitRemembered, Zenon
    <3>2. CASE k # h /\ k <= height'
      <4>1. k \in 1 .. top /\ k # height + 1 /\ k <= height + 1
        BY <1>1, <2>1, <3>2, Zenon
      <4>2. k \in 1 .. height /\ k <= height
        BY <4>1, HistoryNumbers
      <4> QED BY <1>2, <2>1, <4>2, Zenon DEF Remembered
    <3> QED BY <3>1, <3>2, Zenon
  <2>7. Remembered(k)'
    <3>1. k <= height => k <= height + 1
      BY <1>5, <1>9, HistoryNumbers
    <3> QED BY <1>1, <2>1, <2>2, <2>4, <2>6, <3>1, Zenon DEF Remembered
  <2>8. ASSUME NEW p \in MNs PROVE RememberedOf(k, p)'
    <3> DEFINE s == Score(first[k].scores, p)
    <3>1. k <= Begun' => Score(before'[k], p) = s
      BY <1>1, <2>1, <2>8, Zenon DEF RememberedOf
    <3>2. k = height' + 1 => Score(stateMap', p) = s
      BY <1>1, <1>9, <2>8, CommitRemembered, Zenon
    <3>3. Linked(k) => first[k].list[p] = NextBan(Below(k, p), k, s)
      BY <2>1, <2>8, Zenon DEF RememberedOf
    <3>4. Linked(k) /\ k + 1 \in DOMAIN first'
            => Score(first'[k + 1].scores, p) = NextScore(Below(k, p), k, s)
      <4>1. CASE k + 1 \in DOMAIN first
        BY <1>4, <2>1, <2>8, <4>1, Zenon DEF RememberedOf
      <4>2. CASE k + 1 \notin DOMAIN first /\ k + 1 \in DOMAIN first'
        <5>1. k + 1 = h /\ New /\ k = height
          <6>1. k + 1 = height + 1 /\ New
            BY <1>1, <1>4, <4>2, Zenon
          <6>2. k = height
            BY <1>5, <1>9, <6>1, HistoryNumbers
          <6> QED BY <1>1, <6>1, <6>2, Zenon
        <5> QED BY <1>4, <1>9, <2>8, <5>1, CommitRemembered, Zenon
      <4> QED BY <4>1, <4>2, Zenon
    <3> QED BY <2>2, <2>4, <2>5, <2>8, <3>1, <3>2, <3>3, <3>4, Zenon DEF RememberedOf
  <2> QED BY <2>7, <2>8, Zenon
<1>10. ASSUME New
       PROVE  Remembered(h)' /\ \A p \in MNs : RememberedOf(h, p)'
  <2>1. h + 1 \notin DOMAIN first' /\ h # h - 1
    BY <1>1, <1>4, <1>10, CommitRemembered, HistoryNumbers DEF New
  <2>2. Linked(h)' = Linked(h)
    BY <1>1, <1>4 DEF Linked
  <2>3. \A p \in MNs : Linked(h) => Below(h, p)' = Below(h, p)
    BY <1>1, <1>4, Zenon DEF Below, Linked
  <2>4. ~Linked(h) => h <= top - MAX_UNDO_HISTORY
    <3> SUFFICES ASSUME ~Linked(h) PROVE h <= top - MAX_UNDO_HISTORY
      BY Zenon
    <3>1. h - 1 \in 1 .. height /\ h - 1 \notin DOMAIN first /\ 1 .. h - 1 \subseteq 1 .. h
      BY <1>1, HistoryNumbers DEF Linked
    <3>2. h - 1 < top - MAX_UNDO_HISTORY
      BY <1>10, <3>1, Zenon DEF New, HistoryInv, FirstInv
    <3> QED BY <1>1, <3>2, HistoryNumbers
  <2>5. Remembered(h)'
    <3>1. h <= h
      BY HistoryNumbers
    <3>2. h = height' /\ dbList'[h] = list /\ first'[h].list = list /\ list \in [MNs -> Int]
      BY <1>1, <1>2, <1>4, <1>10, Zenon DEF HistoryInv, Shape
    <3> QED BY <1>1, <2>2, <2>4, <3>1, <3>2, Zenon DEF Remembered
  <2>6. ASSUME NEW p \in MNs PROVE RememberedOf(h, p)'
    <3>1. hit[h] = {}
      <4>1. h \in 1 .. h
        BY <1>5
      <4> QED BY <1>10, <4>1, Zenon DEF New
    <3>2. list[p] = NextBan(ListAt(h - 1)[p], h, Score(before[h], p))
      BY <2>6, <3>1, CommitTip, Zenon
    <3>3. Linked(h) => Below(h, p) = ListAt(h - 1)[p]
      BY <1>1, <2>6, BelowChain, HistoryNumbers
    <3>4. h # height' + 1
      BY <1>1
    <3> QED BY <1>1, <1>4, <1>10, <2>1, <2>2, <2>3, <2>6, <3>2, <3>3, <3>4, Zenon DEF RememberedOf
  <2> QED BY <2>5, <2>6, Zenon
<1>11. ASSUME NEW k \in DOMAIN first'
       PROVE  Remembered(k)' /\ \A p \in MNs : RememberedOf(k, p)'
  <2>1. CASE k \in DOMAIN first
    BY <1>9, <2>1, Zenon
  <2>2. CASE k \notin DOMAIN first
    <3>1. k = h /\ New
      BY <1>4, <1>11, <2>2, Zenon
    <3> QED BY <1>1, <1>10, <3>1, Zenon
  <2> QED BY <2>1, <2>2, Zenon
<1> QED BY <1>6, <1>7, <1>8, <1>11, Zenon DEF FirstInv

\* UndoBlock gives the recorded scores back; near the top these are the scores
\* the block found, for everybody who was not penalised since.
LEMMA DisconnectTip ==
  ASSUME TypeInv, HistoryInv, Disconnect
  PROVE  /\ UNCHANGED <<list, top>>
         /\ pc = "idle" /\ pc' = "idle" /\ height \in Nat \ {0} /\ height' = height - 1
         /\ \A p : Score(stateMap', p) = IF p \in DOMAIN Entry(height) THEN Entry(height)[p]
                                         ELSE Score(stateMap, p)
         /\ undoEntries' = Erase(undoEntries, {height}) /\ dbUndo' = Erase(dbUndo, {height})
         /\ dbList' = Erase(dbList, {height})
         /\ before' = Erase(before, {height}) /\ hit' = Erase(hit, {height})
         /\ height > top - MAX_UNDO_HISTORY =>
              \A p \in MNs \ hit[height] : Score(stateMap', p) = Score(before[height], p)
<1>1. /\ UNCHANGED <<list, top>> /\ pc = "idle" /\ height > 0 /\ height' = height - 1
      /\ pc' = (IF HasList(height - 1) THEN "idle" ELSE "next")
      /\ dbList' = Erase(dbList, {height})
      /\ before' = Erase(before, {height}) /\ hit' = Erase(hit, {height})
      /\ UndoBlock(height)
  BY Zenon DEF Disconnect
<1>2. HasList(height - 1)
  <2>1. height > 0
    BY <1>1, Zenon
  <2>2. height - 1 = 0 \/ height - 1 \in 1 .. height
    BY <2>1, HistoryNumbers
  <2> QED BY <2>2, Zenon DEF HasList, HistoryInv, Shape
<1>3. /\ stateMap' = Restored(stateMap, Entry(height))
      /\ undoEntries' = Erase(undoEntries, {height}) /\ dbUndo' = Erase(dbUndo, {height})
  BY <1>1, UndoBlockEffect, Zenon
<1> DEFINE e == Entry(height)
<1>4. \A p \in DOMAIN e : e[p] \in Nat
  BY EntryType, Zenon
<1>5. ASSUME NEW p PROVE Score(stateMap', p) = IF p \in DOMAIN e THEN e[p] ELSE Score(stateMap, p)
  <2> HIDE DEF e
  <2>1. stateMap' = Restored(stateMap, e)
    BY <1>3, Zenon DEF e
  <2> QED BY <1>4, <2>1, ScoreRestored, Zenon
<1>6. ASSUME height > top - MAX_UNDO_HISTORY, NEW p \in MNs \ hit[height]
      PROVE  Score(stateMap', p) = Score(before[height], p)
  <2>1. ChainAt(height, p) /\ Later(height, p) = Score(stateMap, p)
    <3>1. height > 0 /\ ~Working
      BY <1>1, Zenon DEF Working
    <3>2. height \in 1 .. height
      BY <3>1, HistoryNumbers
    <3> QED BY <1>6, <3>1, <3>2, Zenon DEF HistoryInv, ChainInv, Later, Begun
  <2>2. /\ Score(before[height], p) = Score(e, p)
        /\ Score(stateMap, p) = NextScore(ListAt(height - 1)[p], height, Score(before[height], p))
    <3>1. height >= top - MAX_UNDO_HISTORY
      BY <1>6, HistoryNumbers
    <3> QED BY <1>6, <2>1, <3>1, Zenon DEF ChainAt
  <2>3. CASE p \in DOMAIN e
    BY <1>5, <2>2, <2>3, Zenon DEF Score
  <2>4. CASE p \notin DOMAIN e
    BY <1>5, <2>2, <2>4, Zenon DEF Score, NextScore
  <2> QED BY <2>3, <2>4, Zenon
<1>7. height \in Nat \ {0}
  <2>1. height > 0
    BY <1>1, Zenon
  <2> QED BY <2>1, HistoryNumbers
<1> QED BY <1>1, <1>2, <1>3, <1>5, <1>6, <1>7, Zenon

\* Disconnecting the tip keeps the history: the block below is the tip again,
\* with the scores that UndoBlock gives back.
LEMMA HistoryDisconnect ==
  ASSUME TypeInv, HistoryInv, Disconnect
  PROVE  HistoryInv'
<1>0. height \in Nat \ {0}
  BY DisconnectTip, Zenon
<1>1. /\ UNCHANGED <<list, top>>
      /\ pc = "idle" /\ pc' = "idle" /\ height' = height - 1
  BY DisconnectTip, Zenon
<1>2. height > top - MAX_UNDO_HISTORY =>
        \A p \in MNs \ hit[height] : Score(stateMap', p) = Score(before[height], p)
  BY DisconnectTip, Zenon
<1>3. ~Working /\ ~Working' /\ Begun = height /\ Begun' = height - 1
  BY <1>1, Zenon DEF Working, Begun
<1> DEFINE below == 1 .. height - 1
<1>4. /\ below \subseteq 1 .. height /\ (1 .. height) \ {height} = below
      /\ \A k \in below : k # height /\ k <= height /\ height \in 1 .. height
  BY <1>0
<1>5. /\ DOMAIN dbList' = below /\ DOMAIN before' = below /\ DOMAIN hit' = below
      /\ \A k \in below : dbList'[k] = dbList[k] /\ before'[k] = before[k] /\ hit'[k] = hit[k]
  <2>1. DOMAIN dbList = 1 .. height /\ DOMAIN before = 1 .. height /\ DOMAIN hit = 1 .. height
    BY <1>3, Zenon DEF HistoryInv, Shape
  <2> QED BY <1>4, <2>1, DisconnectTip, Zenon DEF Erase
<1>6. /\ DOMAIN dbUndo' = (DOMAIN dbUndo) \ {height} /\ DOMAIN undoEntries' = DOMAIN dbUndo'
      /\ DOMAIN dbUndo' \subseteq below
      /\ \A k \in DOMAIN dbUndo' : dbUndo'[k] = dbUndo[k]
  <2>1. DOMAIN dbUndo \subseteq 1 .. height /\ DOMAIN undoEntries = DOMAIN dbUndo
    BY <1>1, Zenon DEF HistoryInv, Shape
  <2>2. dbUndo' = Erase(dbUndo, {height}) /\ undoEntries' = Erase(undoEntries, {height})
    BY DisconnectTip, Zenon
  <2> QED BY <1>4, <2>1, <2>2, Zenon DEF Erase
<1>7. Shape'
  <2>1. \A j, k \in below : j <= k => hit'[k] \subseteq hit'[j]
    BY <1>3, <1>4, <1>5, Zenon DEF HistoryInv, Shape
  <2>2. height <= top
    BY <1>3, Zenon DEF HistoryInv, Shape
  <2>3. height - 1 <= top
    BY <2>2, HistoryNumbers
  <2> QED BY <1>1, <1>3, <1>4, <1>5, <1>6, <2>1, <2>3, Zenon DEF HistoryInv, Shape
<1>8. \A k \in below : Entry(k)' = Entry(k) /\ ListAt(k - 1)' = ListAt(k - 1)
  <2> SUFFICES ASSUME NEW k \in below PROVE Entry(k)' = Entry(k) /\ ListAt(k - 1)' = ListAt(k - 1)
    BY Zenon
  <2>1. Entry(k)' = Entry(k)
    BY <1>4, <1>6, Zenon DEF Entry
  <2>2. k - 1 = 0 \/ k - 1 \in below
    BY <1>0
  <2> QED BY <1>5, <2>1, <2>2, Zenon DEF ListAt
<1>9. \A k \in below : \A p \in MNs \ hit[k] : p \in MNs \ hit[height]
  BY <1>3, <1>4, Zenon DEF HistoryInv, Shape
<1>10. ChainInv'
  <2> SUFFICES ASSUME NEW k \in below, NEW p \in MNs \ hit[k] PROVE ChainAt(k, p)'
    BY <1>1, <1>5, Zenon DEF ChainInv
  <2>1. ChainAt(k, p)
    BY <1>4, Zenon DEF HistoryInv, ChainInv
  <2>2. k >= top - MAX_UNDO_HISTORY \/ k \in DOMAIN first'
          => k >= top - MAX_UNDO_HISTORY \/ k \in DOMAIN first
    BY Zenon DEF Disconnect, EmptyMap
  <2>3. k >= top - MAX_UNDO_HISTORY \/ k \in DOMAIN first' => Later(k, p)' = Later(k, p)
    <3>1. CASE k = height - 1
      <4>1. k >= top - MAX_UNDO_HISTORY \/ k \in DOMAIN first' => height > top - MAX_UNDO_HISTORY
        <5>1. k >= top - MAX_UNDO_HISTORY => height > top - MAX_UNDO_HISTORY
          BY <1>0, <3>1, HistoryNumbers
        <5>2. k \in DOMAIN first' => height > top - MAX_UNDO_HISTORY
          BY Zenon DEF Disconnect, EmptyMap
        <5> QED BY <5>1, <5>2, Zenon
      <4>2. Later(k, p)' = Score(stateMap', p) /\ Later(k, p) = Score(before[height], p)
        <5>1. k + 1 = height
          BY <1>0, <3>1
        <5> QED BY <1>3, <1>4, <3>1, <5>1, Zenon DEF Later
      <4> QED BY <1>2, <1>9, <4>1, <4>2, Zenon
    <3>2. CASE k # height - 1
      <4>1. k + 1 \in below
        BY <1>0, <3>2
      <4> QED BY <1>3, <1>4, <1>5, <3>2, <4>1, Zenon DEF Later
    <3> QED BY <3>1, <3>2, Zenon
  <2> QED BY <1>1, <1>5, <1>8, <2>1, <2>2, <2>3, Zenon DEF ChainAt
<1>11. WorkInv'
  BY <1>3, Zenon DEF WorkInv
<1>12. RevivalInv'
  <2> SUFFICES ASSUME NEW k \in below, NEW p \in MNs \ hit[k], Revived(k, p)'
               PROVE  StaysRevived(k, p)'
    BY <1>1, <1>5, Zenon DEF RevivalInv
  <2>1. StaysRevived(k, p)
    BY <1>4, <1>5, <1>8, Zenon DEF HistoryInv, RevivalInv, Revived
  <2>2. Score(stateMap', p) = 0
    <3>1. Score(stateMap', p) = IF p \in DOMAIN Entry(height) THEN Entry(height)[p]
                                ELSE Score(stateMap, p)
      BY DisconnectTip, Zenon
    <3>2. height > k
      BY <1>0
    <3>3. p \in DOMAIN Entry(height) => Entry(height)[p] = 0
      BY <2>1, <3>2, Zenon DEF StaysRevived, Entry, EmptyMap, Score
    <3> QED BY <2>1, <3>1, <3>3, Zenon DEF StaysRevived
  <2>3. \A j \in DOMAIN dbUndo' : j > k => Score(dbUndo'[j], p) = 0
    BY <1>6, <2>1, HistoryNumbers, Zenon DEF StaysRevived
  <2>4. k + 1 \in DOMAIN dbList' => dbList'[k + 1][p] = NotBanned
    BY <1>3, <1>4, <1>5, <2>1, Zenon DEF StaysRevived, HistoryInv, Shape
  <2> QED BY <1>3, <2>2, <2>3, <2>4, Zenon DEF StaysRevived
<1>13. FirstInv'
  <2>1. CASE ~(height > top - MAX_UNDO_HISTORY)
    <3>1. DOMAIN first' = {}
      BY <2>1, Zenon DEF Disconnect, EmptyMap
    <3>2. \A k \in 1 .. height' : k < top' - MAX_UNDO_HISTORY
      <4>1. \A k \in below : k < top - MAX_UNDO_HISTORY
        BY <1>0, <2>1, HistoryNumbers
      <4> QED BY <1>1, <4>1, Zenon
    <3> QED BY <3>1, <3>2, Zenon DEF FirstInv
  <2>2. CASE height > top - MAX_UNDO_HISTORY
    <3>1. first' = first
      BY <2>2, Zenon DEF Disconnect
    <3>2. DOMAIN first' # {} => \A k \in 1 .. Begun' : hit'[k] = {}
      BY <1>3, <1>4, <1>5, <3>1, Zenon DEF HistoryInv, FirstInv
    <3>3. ASSUME NEW k \in 1 .. height', \A j \in 1 .. k : hit'[j] = {}, k \notin DOMAIN first'
          PROVE  k < top' - MAX_UNDO_HISTORY
      <4>1. k \in 1 .. height /\ 1 .. k \subseteq below
        <5>1. k \in below
          BY <1>1, Zenon
        <5> QED BY <1>0, <5>1
      <4>2. \A j \in 1 .. k : hit[j] = {}
        BY <1>5, <3>3, <4>1, Zenon
      <4> QED BY <1>1, <3>1, <3>3, <4>1, <4>2, Zenon DEF HistoryInv, FirstInv
    <3>4. ASSUME NEW k \in DOMAIN first
          PROVE  Remembered(k)' /\ \A p \in MNs : RememberedOf(k, p)'
      <4>1. Remembered(k) /\ \A p \in MNs : RememberedOf(k, p)
        BY <3>4, Zenon DEF HistoryInv, FirstInv
      <4>2. k \in 1 .. top
        BY <3>4, Zenon DEF HistoryInv, FirstInv
      <4>3. k <= height - 1 => k \in below /\ k <= height
        BY <1>0, <4>2, HistoryNumbers
      <4>4. k <= top - MAX_UNDO_HISTORY => k <= height - 1
        BY <1>0, <2>2, <4>2, HistoryNumbers
      <4>5. Remembered(k)'
        BY <1>1, <1>5, <3>1, <4>1, <4>3, <4>4, Zenon DEF Remembered, Linked
      <4>6. ASSUME NEW p \in MNs PROVE RememberedOf(k, p)'
        <5>1. k = height => Score(stateMap', p) = Score(first[k].scores, p)
          <6> SUFFICES ASSUME k = height PROVE Score(stateMap', p) = Score(first[k].scores, p)
            BY Zenon
          <6>1. height \in 1 .. height /\ height <= height
            BY <1>0
          <6>2. hit[height] = {}
            BY <1>3, <3>4, <6>1, Zenon DEF HistoryInv, FirstInv
          <6> QED BY <1>2, <1>3, <2>2, <4>1, <4>6, <6>1, <6>2, Zenon DEF RememberedOf
        <5>2. Below(k, p)' = Below(k, p) /\ (Linked(k)' <=> Linked(k))
          BY <3>1, Zenon DEF Below, Linked
        <5>3. RememberedOf(k, p)
          BY <4>1, <4>6, Zenon
        <5>4. k <= Begun' => before'[k] = before[k] /\ k <= Begun
          BY <1>3, <1>5, <4>3, Zenon
        <5>5. k = height' + 1 => k = height
          <6>1. (height - 1) + 1 = height
            BY <1>0
          <6> QED BY <1>1, <6>1, Zenon
        <5> QED BY <3>1, <5>1, <5>2, <5>3, <5>4, <5>5, Zenon DEF RememberedOf
      <4> QED BY <4>5, <4>6, Zenon
    <3> QED BY <1>1, <3>1, <3>2, <3>3, <3>4, Zenon DEF HistoryInv, FirstInv
  <2> QED BY <2>1, <2>2, Zenon
<1> QED BY <1>7, <1>10, <1>11, <1>12, <1>13, Zenon DEF HistoryInv

\* Every step that is neither a late failure nor a restart keeps the history.
LEMMA HistoryStep == TypeInv /\ UndisturbedInv /\ [Next]_vars => UndisturbedInv'
<1> SUFFICES ASSUME TypeInv, UndisturbedInv, [Next]_vars, Undisturbed' PROVE HistoryInv'
  BY Zenon DEF UndisturbedInv
<1>1. \A bound : \A w \in {"failure", "restart"} : Spend(w, bound) => used'[w] # 0
  BY DEF Spend, TypeInv, ProcInv
<1>2. ~FailLate /\ ~Crash /\ ~Shutdown
  BY <1>1, Zenon DEF FailLate, Crash, Shutdown, Restart, Undisturbed
<1>3. used' = used \/ \E bound : \E w \in {"penalty", "reorg"} : Spend(w, bound)
  BY <1>2, Zenon DEF Next, vars, IncrementPenalty, Connect, BeginBlock, RecordUndo, Punish,
     ReviveOne, Commit, Disconnect, FlushStateToDisk, Stop
<1>4. Undisturbed
  <2>1. DOMAIN used = {"penalty", "reorg", "restart", "failure"}
    BY Zenon DEF TypeInv, ProcInv
  <2>2. ASSUME NEW w \in {"penalty", "reorg"}, used' = [used EXCEPT ![w] = @ + 1]
        PROVE  used'["failure"] = used["failure"] /\ used'["restart"] = used["restart"]
    BY <2>1, <2>2, Zenon
  <2>3. used'["failure"] = used["failure"] /\ used'["restart"] = used["restart"]
    BY <1>3, <2>2, Zenon DEF Spend
  <2> QED BY <2>3, Zenon DEF Undisturbed
<1>5. HistoryInv
  BY <1>4, Zenon DEF UndisturbedInv
<1>6. CASE Connect
  <2>1. /\ UNCHANGED <<stateMap, undoEntries, dbUndo, dbList, height, h, list, affected,
                       toRevive, before, hit, first, top>>
        /\ pc = "idle" /\ pc' = "next" /\ goal' = height + 1
    BY <1>6, Zenon DEF Connect, mem, db, hist
  <2> QED BY <1>5, <2>1, HistorySame, Zenon
<1>7. CASE FlushStateToDisk \/ UNCHANGED vars
  <2>1. /\ UNCHANGED <<stateMap, undoEntries, dbUndo, dbList, height, h, list, affected,
                       toRevive, before, hit, first, top>>
        /\ pc' = pc /\ goal' = goal
    BY <1>7, Zenon DEF FlushStateToDisk, vars, mem, db, proc, hist
  <2> QED BY <1>5, <2>1, HistorySame, Zenon
<1>8. CASE \E p \in MNs : IncrementPenalty(p)
  BY <1>5, <1>8, HistoryIncrement, Zenon
<1>9. CASE \E p \in toRevive : ReviveOne(p)
  BY <1>5, <1>9, HistoryRevive, Zenon
<1>10. CASE BeginBlock \/ RecordUndo \/ Punish \/ Disconnect
  BY <1>5, <1>10, HistoryBegin, HistoryRecord, HistoryPunish, HistoryDisconnect, Zenon
<1>11. CASE Commit
  BY <1>5, <1>11, HistoryCommit, FirstCommit, Zenon DEF HistoryInv
<1> QED BY <1>2, <1>6, <1>7, <1>8, <1>9, <1>10, <1>11, Zenon DEF Next, Stop

\* The types and the history hold in every state.
LEMMA HistoryAlways == Spec => [](TypeInv /\ UndisturbedInv)
<1>1. Init => UndisturbedInv
  BY HistoryInit, Zenon DEF UndisturbedInv
<1> QED BY <1>1, TypeInit, TypeStep, HistoryStep, PTL DEF Spec

\* Disconnecting a block gives the scores back that it found: ChainInv has
\* them in the undo data, or the block changed nothing.
THEOREM PenaltiesComeBack == Spec => UndoRestores
<1> DEFINE A == Disconnect /\ Undisturbed /\ height > top - MAX_UNDO_HISTORY
                  => \A p \in MNs \ hit[height] :
                       Score(stateMap', p) = Score(before[height], p)
<1>1. TypeInv /\ UndisturbedInv => A
  BY DisconnectTip, Zenon DEF UndisturbedInv
<1> QED BY <1>1, HistoryAlways, PTL DEF UndoRestores

\* A revived masternode stays revived through the next block, however often
\* that block is disconnected and replaced.
THEOREM RevivalsStick == Spec => []RevivalSticks
<1>1. TypeInv /\ UndisturbedInv => RevivalSticks
  <2> SUFFICES ASSUME TypeInv, HistoryInv, NEW k \in DOMAIN dbList, NEW p \in MNs,
                      HasList(k + 1), ListAt(k - 1)[p] # NotBanned,
                      dbList[k][p] = NotBanned, p \notin hit[k]
               PROVE  ListAt(k + 1)[p] = NotBanned
    BY Zenon DEF RevivalSticks, UndisturbedInv
  <2>1. k \in 1 .. height /\ k + 1 # 0 /\ k + 1 \in DOMAIN dbList
    <3>1. DOMAIN dbList = 1 .. height
      BY Zenon DEF HistoryInv, Shape
    <3>2. k + 1 # 0
      BY <3>1, HistoryNumbers
    <3> QED BY <3>1, <3>2, Zenon DEF HasList
  <2>2. StaysRevived(k, p)
    BY <2>1, Zenon DEF HistoryInv, RevivalInv, Revived
  <2> QED BY <2>1, <2>2, Zenon DEF StaysRevived, ListAt
<1> QED BY <1>1, HistoryAlways, PTL

\* A block that is connected again gets the list of the first time: FirstInv
\* says that it finds the scores and the list below it that it found then.
THEOREM ListsComeBack == Spec => SameListAgain
<1> DEFINE A == Undisturbed => \A k \in (DOMAIN dbList') \cap (DOMAIN first) :
                                 dbList'[k] = first[k].list
<1>1. TypeInv /\ UndisturbedInv /\ [Next]_vars => A
  <2> SUFFICES ASSUME TypeInv, HistoryInv, [Next]_vars,
                      NEW k \in (DOMAIN dbList') \cap (DOMAIN first)
               PROVE  dbList'[k] = first[k].list
    BY Zenon DEF UndisturbedInv
  <2>1. k \in DOMAIN dbList => dbList[k] = first[k].list
    <3>1. DOMAIN dbList = 1 .. height
      BY Zenon DEF HistoryInv, Shape
    <3>2. \A j \in 1 .. height : j <= height
      BY HistoryNumbers
    <3> QED BY <3>1, <3>2, Zenon DEF HistoryInv, FirstInv, Remembered
  <2>2. CASE dbList' = dbList
    BY <2>1, <2>2, Zenon
  <2>3. CASE Commit
    <3>1. dbList' = Put(dbList, h, list)
      BY <2>3, Zenon DEF Commit
    <3>2. h \in DOMAIN first => list = first[h].list
      BY <2>3, CommitRemembered, Zenon
    <3> QED BY <2>1, <3>1, <3>2, Zenon DEF Put
  <2>4. CASE Disconnect
    <3>1. dbList' = Erase(dbList, {height})
      BY <2>4, Zenon DEF Disconnect
    <3> QED BY <2>1, <3>1, Zenon DEF Erase
  <2>5. CASE ~Commit /\ ~Disconnect
    <3>1. dbList' = dbList
      BY <2>5, Zenon DEF Next, vars, db, mem, IncrementPenalty, Connect, BeginBlock, RecordUndo,
         Punish, ReviveOne, FailLate, FlushStateToDisk, Crash, Shutdown, Restart, Stop
    <3> QED BY <3>1, <2>2, Zenon
  <2> QED BY <2>3, <2>4, <2>5, Zenon
<1> QED BY <1>1, HistoryAlways, PTL DEF Spec, SameListAgain

=============================================================================
