--------------------------- MODULE MNManagerProofs --------------------------
(***************************************************************************)
(* MNManager for every block tree, every cache size and any number of      *)
(* reorganisations, failed blocks and restarts: every list the manager     *)
(* keeps is that of its block, what is cached is saved, and GetListForBlock *)
(* answers with the list it was asked for unless data is missing or the    *)
(* cache is crowded with higher lists; all that up to the blocks that were *)
(* connected onto another block's list, and their descendants (Fits).      *)
(*                                                                         *)
(* The heart is the replay of GetListForBlock: it keeps a sound manager    *)
(* sound, every block it applies finds the list of its parent, and until   *)
(* it reaches the block it was asked for it adds no list at or above that  *)
(* block's height.                                                         *)
(*                                                                         *)
(* Then Quorums, for every interval and every number of quorums: each      *)
(* quorum comes from the list of its own block, although other threads     *)
(* connect and disconnect blocks between the steps that build it, except   *)
(* one that was asked for off the active chain with the cache full.        *)
(***************************************************************************)
EXTENDS Quorums, BlockTreeProofs, FiniteSetTheorems

-----------------------------------------------------------------------------
(* Numbers and sets *)

\* The numbers of the constants.
LEMMA ManagerNumbers == MAX_CACHE_SIZE \in Nat \ {0}
BY ManagerConstants, Zenon

\* A non-empty set of numbers up to n has a greatest one, and Max is it.
LEMMA MaxBounded ==
  ASSUME NEW n \in Nat, NEW S, S \subseteq 0 .. n, S # {}
  PROVE  Max(S) \in S /\ \A y \in S : y <= Max(S)
<1> DEFINE U == { n - x : x \in S }
<1>1. U \subseteq Nat /\ U # {}
  <2>1. \A x \in S : n - x \in Nat
    OBVIOUS
  <2> QED BY <2>1, Zenon
<1>2. PICK u \in U : \A v \in U : u <= v
  <2> HIDE DEF U
  <2> QED BY <1>1, LeastOf, Zenon
<1>3. PICK x \in S : u = n - x
  BY <1>2, Zenon
<1>4. \A y \in S : n - x <= n - y
  BY <1>2, <1>3, Zenon
<1>5. \A y \in S : x >= y
  BY <1>4
<1> QED BY <1>5, Zenon DEF Max

\* A finite non-empty set of blocks has one of the greatest height.
LEMMA Highest ==
  ASSUME NEW S, S \subseteq Blocks, S # {}, IsFiniteSet(S)
  PROVE  \E x \in S : \A y \in S : Height(x) >= Height(y)
<1> DEFINE Top(U) == \E x \in U : \A y \in U : Height(x) >= Height(y)
           Bad(n) == \E U \in SUBSET Blocks :
                       IsFiniteSet(U) /\ U # {} /\ Cardinality(U) = n /\ ~Top(U)
           B == { n \in Nat : Bad(n) }
<1> SUFFICES ASSUME ~Top(S) PROVE FALSE
  BY Zenon
<1>1. Cardinality(S) \in B
  <2>1. Cardinality(S) \in Nat
    BY FS_CardinalityType, Zenon
  <2> HIDE DEF Top
  <2> QED BY <2>1, Zenon
<1>2. PICK n \in B : \A m \in B : n <= m
  <2>1. B \subseteq Nat /\ B # {}
    <3> HIDE DEF Bad
    <3> QED BY <1>1, Zenon
  <2> HIDE DEF B
  <2> QED BY <2>1, LeastOf, Zenon
<1>3. PICK U \in SUBSET Blocks : IsFiniteSet(U) /\ U # {} /\ Cardinality(U) = n /\ ~Top(U)
  <2> HIDE DEF Top
  <2> QED BY Zenon
<1>4. PICK x \in U : TRUE
  BY <1>3, Zenon
<1> DEFINE V == U \ {x}
<1>5. IsFiniteSet(V) /\ Cardinality(V) = n - 1 /\ V \in SUBSET Blocks
  <2>1. IsFiniteSet(U \ {x})
        /\ Cardinality(U \ {x}) = IF x \in U THEN Cardinality(U)-1 ELSE Cardinality(U)
    BY <1>3, FS_RemoveElement, Zenon
  <2> QED BY <2>1, <1>3, <1>4, Zenon
<1>6. \A y \in U : Height(y) \in Nat
  BY <1>3, BlockHeight, Zenon
<1>7. CASE V = {}
  <2>1. \A y \in U : y = x
    BY <1>7, Zenon
  <2>2. Height(x) >= Height(x)
    BY <1>6, <1>4
  <2> QED BY <2>1, <2>2, <1>3, <1>4, Zenon
<1>8. CASE V # {}
  <2>1. n - 1 \in Nat
    <3>1. Cardinality(V) \in Nat
      BY <1>5, FS_CardinalityType, Zenon
    <3> QED BY <3>1, <1>5, Zenon
  <2>2. Top(V)
    <3>1. ~(n <= n - 1)
      BY <2>1
    <3>2. n - 1 \notin B
      <4> HIDE DEF B
      <4> QED BY <3>1, <1>2, Zenon
    <3> HIDE DEF Top, V
    <3> QED BY <3>2, <2>1, <1>5, <1>8, Zenon
  <2>3. PICK z \in V : \A y \in V : Height(z) >= Height(y)
    BY <2>2, Zenon
  <2>4. Height(x) \in Nat /\ Height(z) \in Nat /\ x \in U /\ z \in U
    BY <1>4, <1>6, <2>3, Zenon
  <2>5. CASE Height(x) >= Height(z)
    <3>1. \A y \in U : y # x => Height(z) >= Height(y) /\ Height(y) \in Nat
      BY <2>3, <1>6, Zenon
    <3>2. \A y \in U : y # x => Height(x) >= Height(y)
      BY <3>1, <2>4, <2>5
    <3>3. Height(x) >= Height(x)
      BY <2>4
    <3> QED BY <3>2, <3>3, <1>3, <1>4, Zenon
  <2>6. CASE ~(Height(x) >= Height(z))
    <3>1. Height(z) >= Height(x)
      BY <2>4, <2>6
    <3> QED BY <3>1, <2>3, <2>4, <1>3, Zenon
  <2> QED BY <2>5, <2>6, Zenon
<1> QED BY <1>7, <1>8, Zenon

\* K has the n highest blocks of S.
TopOf(S, n, K) ==
  /\ K \in SUBSET S
  /\ Cardinality(K) = n
  /\ \A x \in K, y \in S \ K : Height(x) >= Height(y)

\* What CleanupCache keeps exists: among finitely many blocks there are n that
\* are at least as high as the others.
LEMMA TopExists ==
  ASSUME NEW S, S \subseteq Blocks, IsFiniteSet(S), NEW n \in Nat, n <= Cardinality(S)
  PROVE  \E K : TopOf(S, n, K)
<1> DEFINE B == { m \in Nat : m <= Cardinality(S) /\ ~ \E K : TopOf(S, m, K) }
<1> SUFFICES ASSUME n \in B PROVE FALSE
  BY Zenon
<1>0. Cardinality(S) \in Nat
  BY FS_CardinalityType, Zenon
<1>1. PICK m \in B : \A k \in B : m <= k
  <2>1. B \subseteq Nat /\ B # {}
    BY Zenon
  <2> HIDE DEF B
  <2> QED BY <2>1, LeastOf, Zenon
<1>2. m \in Nat /\ m <= Cardinality(S) /\ ~ \E K : TopOf(S, m, K)
  BY <1>1, Zenon
<1>3. m # 0
  <2>1. TopOf(S, 0, {})
    BY FS_EmptySet, Zenon DEF TopOf
  <2> QED BY <2>1, <1>2, Zenon
<1>4. m - 1 \in Nat /\ m - 1 <= Cardinality(S) /\ ~(m <= m - 1) /\ Cardinality(S) - (m - 1) # 0
  BY <1>0, <1>2, <1>3
<1>5. PICK K : TopOf(S, m - 1, K)
  <2>1. m - 1 \notin B
    <3> HIDE DEF B
    <3> QED BY <1>4, <1>1, Zenon
  <2> QED BY <2>1, <1>4, Zenon
<1>6. K \in SUBSET S /\ Cardinality(K) = m - 1 /\ \A x \in K, y \in S \ K : Height(x) >= Height(y)
  BY <1>5, Zenon DEF TopOf
<1> DEFINE R == S \ K
<1>7. IsFiniteSet(R) /\ Cardinality(R) = Cardinality(S) - (m - 1) /\ R \subseteq Blocks
  <2>1. IsFiniteSet(S \ K) /\ Cardinality(S \ K) = Cardinality(S) - Cardinality(S \cap K)
    BY FS_Difference, Zenon
  <2>2. S \cap K = K
    BY <1>6, Zenon
  <2> QED BY <2>1, <2>2, <1>6, Zenon
<1>8. R # {}
  <2> HIDE DEF R
  <2> QED BY <1>4, <1>7, FS_EmptySet, Zenon
<1>9. PICK x \in R : \A y \in R : Height(x) >= Height(y)
  <2> HIDE DEF R
  <2> QED BY <1>7, <1>8, Highest, Zenon
<1>10. TopOf(S, m, K \cup {x})
  <2>1. IsFiniteSet(K)
    BY <1>6, FS_Subset, Zenon
  <2>2. Cardinality(K \cup {x}) = Cardinality(K) + 1
    <3>1. Cardinality(K \cup {x}) = IF x \in K THEN Cardinality(K) ELSE Cardinality(K)+1
      BY <2>1, FS_AddElement, Zenon
    <3> QED BY <3>1, <1>9, Zenon
  <2>3. m - 1 + 1 = m
    BY <1>2
  <2>4. Cardinality(K \cup {x}) = m
    BY <2>2, <2>3, <1>6, Zenon
  <2>5. K \cup {x} \in SUBSET S
    BY <1>6, <1>9, Zenon
  <2>6. \A z \in K \cup {x}, y \in S \ (K \cup {x}) : Height(z) >= Height(y)
    BY <1>6, <1>9, Zenon
  <2> QED BY <2>4, <2>5, <2>6, Zenon DEF TopOf
<1> QED BY <1>2, <1>10, Zenon

-----------------------------------------------------------------------------
(* Managers and the operations that read and write them *)

\* l is a list of b, where the blocks of W may have gone onto a wrong list: it
\* was computed from the blocks of its own chain if none of W is among them.
Fits(b, l, W) ==
  /\ l.block = b /\ l.path \in Seq(Blocks)
  /\ Ancestors(b) \cap W = {} => l = RightList(b)

\* A list of some block.
Genuine(l, W) == \E x \in Nodes : Fits(x, l, W)

\* Every list is one of its block, what is cached is saved, and only blocks
\* of D have lists.
Sound(s, D, W) ==
  /\ DOMAIN s.db \subseteq D
  /\ DOMAIN s.cache \subseteq DOMAIN s.db
  /\ IsFiniteSet(DOMAIN s.cache)
  /\ \A b \in DOMAIN s.cache : Fits(b, s.cache[b], W)
  /\ \A b \in DOMAIN s.db : Fits(b, s.db[b], W)

\* The list of the root is empty; a block's list extends its parent's.
LEMMA RightLists ==
  /\ EmptyList = RightList(Root)
  /\ \A b \in Blocks : List(b, Append(RightList(Prev[b]).path, b)) = RightList(b)
<1>1. Path[Root] = <<>> /\ \A b \in Blocks : Path[b] = Append(Path[Prev[b]], b)
  BY PathStep, Zenon
<1>2. \A x : RightList(x).path = Path[x]
  BY Zenon DEF RightList, List
<1> QED BY <1>1, <1>2, Zenon DEF EmptyList, RightList

\* The fields of a list that is made.
LEMMA ListFields == \A b, path : List(b, path).block = b /\ List(b, path).path = path
BY Zenon DEF List

\* The empty list is the root's.
LEMMA FitsRoot == \A W : Fits(Root, EmptyList, W)
<1>1. EmptyList.block = Root /\ EmptyList.path = <<>>
  BY ListFields, Zenon DEF EmptyList
<1>2. <<>> \in Seq(Blocks)
  OBVIOUS
<1> QED BY <1>1, <1>2, RightLists, Zenon DEF Fits

\* A block that is put onto a list of its parent makes a list of its own; onto
\* another list too, if the block is then one of W.
LEMMA FitsStep ==
  ASSUME NEW b \in Blocks, NEW l, NEW W, l.path \in Seq(Blocks),
         Fits(Prev[b], l, W) \/ b \in W
  PROVE  Fits(b, List(b, Append(l.path, b)), W)
<1> DEFINE m == List(b, Append(l.path, b))
<1>1. m.block = b /\ m.path = Append(l.path, b)
  BY ListFields, Zenon
<1>2. Append(l.path, b) \in Seq(Blocks)
  <2> DEFINE path == l.path
  <2>1. path \in Seq(Blocks)
    BY Zenon
  <2> HIDE DEF path
  <2>2. Append(path, b) \in Seq(Blocks)
    BY <2>1
  <2> QED BY <2>2, Zenon DEF path
<1>3. ASSUME Ancestors(b) \cap W = {} PROVE m = RightList(b)
  <2>1. Ancestors(b) = Ancestors(Prev[b]) \cup {b}
    BY AncestorsStep, Zenon
  <2>2. Ancestors(Prev[b]) \cap W = {} /\ b \notin W
    BY <2>1, <1>3, Zenon
  <2>3. l = RightList(Prev[b])
    BY <2>2, Zenon DEF Fits
  <2> QED BY <2>3, RightLists, Zenon
<1> HIDE DEF m
<1>4. Fits(b, m, W)
  BY <1>1, <1>2, <1>3, Zenon DEF Fits
<1> QED BY <1>4, Zenon DEF m

\* CleanupCache changes no list it keeps; when it drops one the cache is full
\* and has only lists at least as high.
LEMMA CleanupKeeps ==
  ASSUME NEW c, DOMAIN c \subseteq Blocks, IsFiniteSet(DOMAIN c)
  PROVE  /\ DOMAIN CleanupCache(c) \subseteq DOMAIN c
         /\ IsFiniteSet(DOMAIN CleanupCache(c))
         /\ \A x \in DOMAIN CleanupCache(c) : CleanupCache(c)[x] = c[x]
         /\ \A b \in (DOMAIN c) \ DOMAIN CleanupCache(c) :
              /\ Cardinality(DOMAIN CleanupCache(c)) = MAX_CACHE_SIZE
              /\ \A x \in DOMAIN CleanupCache(c) : Height(x) >= Height(b)
<1>1. CASE Cardinality(DOMAIN c) <= MAX_CACHE_SIZE
  <2>1. CleanupCache(c) = c
    BY <1>1, Zenon DEF CleanupCache
  <2> QED BY <2>1, Zenon
<1>2. CASE ~(Cardinality(DOMAIN c) <= MAX_CACHE_SIZE)
  <2> DEFINE P(K) == \A x \in K, y \in (DOMAIN c) \ K : Height(x) >= Height(y)
             keep == CHOOSE K \in kSubset(MAX_CACHE_SIZE, DOMAIN c) : P(K)
  <2>1. MAX_CACHE_SIZE \in Nat /\ MAX_CACHE_SIZE <= Cardinality(DOMAIN c)
    <3>1. Cardinality(DOMAIN c) \in Nat
      BY FS_CardinalityType, Zenon
    <3> QED BY <1>2, <3>1, ManagerNumbers
  <2>2. PICK K : TopOf(DOMAIN c, MAX_CACHE_SIZE, K)
    BY <2>1, TopExists, Zenon
  <2>3. K \in kSubset(MAX_CACHE_SIZE, DOMAIN c) /\ P(K)
    BY <2>2, Zenon DEF TopOf, kSubset
  <2>4. keep \in kSubset(MAX_CACHE_SIZE, DOMAIN c) /\ P(keep)
    <3> HIDE DEF P
    <3> QED BY <2>3, Zenon
  <2>5. CleanupCache(c) = [b \in keep |-> c[b]]
    BY <1>2, Zenon DEF CleanupCache
  <2>6. keep \in SUBSET DOMAIN c /\ Cardinality(keep) = MAX_CACHE_SIZE
    <3> HIDE DEF keep
    <3> QED BY <2>4, Zenon DEF kSubset
  <2> HIDE DEF keep
  <2>7. DOMAIN CleanupCache(c) = keep /\ \A x \in keep : CleanupCache(c)[x] = c[x]
    BY <2>5, Zenon
  <2>8. IsFiniteSet(keep)
    BY <2>6, FS_Subset, Zenon
  <2> QED BY <2>4, <2>6, <2>7, <2>8, Zenon
<1> QED BY <1>1, <1>2, Zenon

\* A list that is there is one of its block.
LEMMA GetRight ==
  ASSUME NEW s, NEW D, NEW W, Sound(s, D, W), NEW b, Has(s, b)
  PROVE  Fits(b, Get(s, b), W)
<1>1. /\ \A x \in DOMAIN s.cache : Fits(x, s.cache[x], W)
      /\ \A x \in DOMAIN s.db : Fits(x, s.db[x], W)
  BY Zenon DEF Sound
<1>2. b = Root \/ b \in DOMAIN s.cache \/ b \in DOMAIN s.db
  BY Zenon DEF Has
<1> QED BY <1>1, <1>2, FitsRoot, Zenon DEF Get

\* Loading a saved list into the cache changes nothing else.
LEMMA LoadSound ==
  ASSUME NEW s, NEW D, NEW W, Sound(s, D, W), NEW b, Has(s, b)
  PROVE  /\ Sound(Load(s, b), D, W)
         /\ Load(s, b).db = s.db /\ Load(s, b).tipList = s.tipList
         /\ DOMAIN Load(s, b).cache \subseteq (DOMAIN s.cache) \cup {b}
         /\ Has(Load(s, b), b)
<1>1. CASE b = Root \/ b \in DOMAIN s.cache
  <2>1. Load(s, b) = s
    BY <1>1, Zenon DEF Load
  <2> QED BY <2>1, Zenon
<1>2. CASE ~(b = Root \/ b \in DOMAIN s.cache)
  <2> DEFINE c == Put(s.cache, b, s.db[b])
  <2>1. /\ Load(s, b).cache = c
        /\ Load(s, b).db = s.db /\ Load(s, b).tipList = s.tipList
    <3> DEFINE t == Load(s, b)
               d == s.db
               l == s.tipList
    <3>1. t = Manager(c, d, l)
      BY <1>2, Zenon DEF Load
    <3> HIDE DEF t, c, d, l
    <3>2. t.cache = c /\ t.db = d /\ t.tipList = l
      BY <3>1, Zenon DEF Manager
    <3> QED BY <3>2, Zenon DEF t, d, l
  <2>2. b \in DOMAIN s.db
    BY <1>2, Zenon DEF Has
  <2>3. /\ DOMAIN c = (DOMAIN s.cache) \cup {b}
        /\ \A x \in DOMAIN c : c[x] = IF x = b THEN s.db[b] ELSE s.cache[x]
    BY Zenon DEF Put
  <2> HIDE DEF c
  <2>4. /\ DOMAIN s.db \subseteq D
        /\ DOMAIN s.cache \subseteq DOMAIN s.db
        /\ IsFiniteSet(DOMAIN s.cache)
        /\ \A x \in DOMAIN s.cache : Fits(x, s.cache[x], W)
        /\ \A x \in DOMAIN s.db : Fits(x, s.db[x], W)
    BY Zenon DEF Sound
  <2>5. IsFiniteSet(DOMAIN c)
    BY <2>3, <2>4, FS_AddElement, Zenon
  <2>6. DOMAIN c \subseteq DOMAIN s.db /\ \A x \in DOMAIN c : Fits(x, c[x], W)
    BY <2>2, <2>3, <2>4, Zenon
  <2>7. Sound(Load(s, b), D, W)
    BY <2>1, <2>4, <2>5, <2>6, Zenon DEF Sound
  <2> QED BY <2>1, <2>2, <2>3, <2>7, Zenon DEF Has
<1> QED BY <1>1, <1>2, Zenon

\* What ProcessBlock for b makes of a manager s: the new list is saved, and
\* cached unless the cache is full of lists at least as high.
Processed(s, D, W, prev, b, t) ==
  /\ Sound(t, D, W)
  /\ DOMAIN t.db = (DOMAIN s.db) \cup {b}
  /\ t.tipList = List(b, Append(prev.path, b))
  /\ DOMAIN t.cache \subseteq (DOMAIN s.cache) \cup {b}
  /\ b \notin DOMAIN t.cache =>
       /\ Cardinality(DOMAIN t.cache) = MAX_CACHE_SIZE
       /\ \A x \in DOMAIN t.cache : Height(x) >= Height(b)

\* ProcessBlock with a list that makes one of the block's.
LEMMA ProcessSound ==
  ASSUME NEW s, NEW D, NEW W, D \subseteq Blocks, Sound(s, D, W), NEW b \in D,
         NEW prev, Fits(b, List(b, Append(prev.path, b)), W)
  PROVE  Processed(s, D, W, prev, b, ProcessBlock(s, prev, b))
<1> DEFINE t == ProcessBlock(s, prev, b)
           l == List(b, Append(prev.path, b))
           c == Put(s.cache, b, l)
           d == Put(s.db, b, l)
<1>1. Fits(b, l, W)
  BY Zenon
<1>2. t = Manager(CleanupCache(c), d, l)
  BY Zenon DEF ProcessBlock
<1> HIDE DEF t, l
<1>3. t.cache = CleanupCache(c) /\ t.db = d /\ t.tipList = l
  <2> HIDE DEF c, d, l
  <2> QED BY <1>2, Zenon DEF Manager
<1>4. /\ DOMAIN c = (DOMAIN s.cache) \cup {b} /\ DOMAIN d = (DOMAIN s.db) \cup {b}
      /\ \A x \in DOMAIN c : c[x] = IF x = b THEN l ELSE s.cache[x]
      /\ \A x \in DOMAIN d : d[x] = IF x = b THEN l ELSE s.db[x]
  BY Zenon DEF Put
<1>5. /\ DOMAIN s.db \subseteq D
      /\ DOMAIN s.cache \subseteq DOMAIN s.db
      /\ IsFiniteSet(DOMAIN s.cache)
      /\ \A x \in DOMAIN s.cache : Fits(x, s.cache[x], W)
      /\ \A x \in DOMAIN s.db : Fits(x, s.db[x], W)
  BY Zenon DEF Sound
<1> HIDE DEF c, d
<1>6. IsFiniteSet(DOMAIN c)
  <2>1. IsFiniteSet((DOMAIN s.cache) \cup {b})
    BY <1>5, FS_AddElement, Zenon
  <2> QED BY <2>1, <1>4, Zenon
<1>7. DOMAIN c \subseteq Blocks /\ DOMAIN c \subseteq DOMAIN d /\ DOMAIN d \subseteq D
  BY <1>4, <1>5, Zenon
<1>8. \A x \in DOMAIN d : Fits(x, d[x], W)
  BY <1>1, <1>4, <1>5, Zenon
<1>9. \A x \in DOMAIN c : Fits(x, c[x], W)
  BY <1>1, <1>4, <1>5, Zenon
<1>10. /\ DOMAIN CleanupCache(c) \subseteq DOMAIN c
       /\ IsFiniteSet(DOMAIN CleanupCache(c))
       /\ \A x \in DOMAIN CleanupCache(c) : CleanupCache(c)[x] = c[x]
       /\ b \in (DOMAIN c) \ DOMAIN CleanupCache(c) =>
            /\ Cardinality(DOMAIN CleanupCache(c)) = MAX_CACHE_SIZE
            /\ \A x \in DOMAIN CleanupCache(c) : Height(x) >= Height(b)
  BY <1>6, <1>7, CleanupKeeps, Zenon
<1>11. Sound(t, D, W)
  BY <1>3, <1>7, <1>8, <1>9, <1>10, Zenon DEF Sound
<1>12. Processed(s, D, W, prev, b, t)
  BY <1>3, <1>4, <1>10, <1>11, Zenon DEF Processed, l
<1> QED BY <1>12, Zenon DEF t

-----------------------------------------------------------------------------
(* The replay of GetListForBlock *)

Start(s, b, low) == [s |-> Load(s, BlockAt(b, low)), base |-> Get(s, BlockAt(b, low))]

\* The equation that defines the replay, by recursion over the heights.
Solves(f, s, b, low, high) ==
  f = [h \in low .. high |-> IF h = low THEN Start(s, b, low)
                             ELSE Replay(f[h - 1], BlockAt(b, h))]

\* The recursion has a solution up to every height.
LEMMA ReplayExists ==
  ASSUME NEW s, NEW b, NEW low \in Nat, NEW high \in Nat, low <= high
  PROVE  \E f : Solves(f, s, b, low, high)
<1> DEFINE B == { n \in Nat : low <= n /\ ~ \E f : Solves(f, s, b, low, n) }
<1> SUFFICES ASSUME high \in B PROVE FALSE
  BY Zenon
<1>1. PICK m \in B : \A k \in B : m <= k
  <2>1. B \subseteq Nat /\ B # {}
    BY Zenon
  <2> HIDE DEF B
  <2> QED BY <2>1, LeastOf, Zenon
<1>2. m \in Nat /\ low <= m /\ ~ \E f : Solves(f, s, b, low, m)
  BY <1>1, Zenon
<1>3. m # low
  <2> SUFFICES ASSUME m = low PROVE FALSE
    BY Zenon
  <2> DEFINE f == [h \in low .. low |-> Start(s, b, low)]
  <2>1. \A h \in low .. low : h = low
    OBVIOUS
  <2>2. f = [h \in low .. low |-> IF h = low THEN Start(s, b, low)
                                 ELSE Replay(f[h - 1], BlockAt(b, h))]
    BY <2>1, Zenon
  <2> HIDE DEF f
  <2> QED BY <2>2, <1>2, Zenon DEF Solves
<1>4. /\ m - 1 \in Nat /\ low <= m - 1 /\ ~(m <= m - 1)
      /\ \A h \in low .. m : h = m \/ h \in low .. m - 1
      /\ \A h \in low .. m - 1 : h \in low .. m /\ h # m /\ h - 1 # m
      /\ \A h \in low .. m - 1 : h # low => h - 1 \in low .. m
      /\ m - 1 \in low .. m /\ m - 1 # m /\ m \in low .. m
  BY <1>2, <1>3
<1>5. PICK f : Solves(f, s, b, low, m - 1)
  <2>1. m - 1 \notin B
    <3> HIDE DEF B
    <3> QED BY <1>4, <1>1, Zenon
  <2> QED BY <2>1, <1>4, Zenon
<1>6. \A h \in low .. m - 1 : f[h] = IF h = low THEN Start(s, b, low)
                                     ELSE Replay(f[h - 1], BlockAt(b, h))
  BY <1>5, Zenon DEF Solves
<1> DEFINE g == [h \in low .. m |-> IF h = m THEN Replay(f[m - 1], BlockAt(b, m)) ELSE f[h]]
           G(h) == IF h = low THEN Start(s, b, low) ELSE Replay(g[h - 1], BlockAt(b, h))
<1>7. \A h \in low .. m : h # m => g[h] = f[h]
  BY Zenon
<1>8. g[m] = Replay(f[m - 1], BlockAt(b, m))
  BY <1>4, Zenon
<1>9. g = [h \in low .. m |-> g[h]]
  BY Zenon
<1> HIDE DEF g
<1>10. g[m] = G(m)
  BY <1>3, <1>4, <1>7, <1>8, Zenon
<1>11. ASSUME NEW h \in low .. m - 1 PROVE g[h] = G(h)
  <2>1. g[h] = f[h]
    BY <1>4, <1>7, Zenon
  <2>2. CASE h = low
    BY <2>1, <2>2, <1>6, Zenon
  <2>3. CASE h # low
    <3>1. g[h - 1] = f[h - 1]
      BY <2>3, <1>4, <1>7, Zenon
    <3> QED BY <2>1, <2>3, <3>1, <1>6, Zenon
  <2> QED BY <2>2, <2>3, Zenon
<1>12. \A h \in low .. m : g[h] = G(h)
  <2> HIDE DEF G
  <2> QED BY <1>4, <1>10, <1>11, Zenon
<1>13. g = [h \in low .. m |-> G(h)]
  <2> HIDE DEF G
  <2> QED BY <1>9, <1>12, Zenon
<1> QED BY <1>2, <1>13, Zenon DEF Solves

\* The states of a replay from the height low up, each made from the one below.
Replays(f, b, low, high) ==
  \A h \in low + 1 .. high : f[h] = Replay(f[h - 1], BlockAt(b, h))

\* Replayed is what a solution of the recursion has at the last height.
LEMMA ReplayedDef ==
  ASSUME NEW s, NEW b, NEW low \in Nat, NEW high \in Nat, low <= high
  PROVE  \E f : /\ Replayed(s, b, low, high) = f[high]
               /\ f[low] = Start(s, b, low)
               /\ Replays(f, b, low, high)
<1> DEFINE f == CHOOSE f : Solves(f, s, b, low, high)
<1>1. Solves(f, s, b, low, high)
  BY ReplayExists, Zenon
<1>2. Replayed(s, b, low, high) = f[high]
  BY Zenon DEF Replayed, Solves, Start
<1> HIDE DEF f
<1>3. \A h \in low .. high : f[h] = IF h = low THEN Start(s, b, low)
                                   ELSE Replay(f[h - 1], BlockAt(b, h))
  BY <1>1, Zenon DEF Solves
<1>4. low \in low .. high /\ \A h \in low + 1 .. high : h \in low .. high /\ h # low
  OBVIOUS
<1>5. f[low] = Start(s, b, low) /\ Replays(f, b, low, high)
  BY <1>3, <1>4, Zenon DEF Replays
<1> QED BY <1>2, <1>5, Zenon

\* The replay for b that began with the manager s, when the list of height h is
\* there: r is sound, it has lost no saved list, and it has cached nothing at
\* or above the height of b except b.
GoodAt(s, b, r, h) ==
  /\ Sound(r.s, stored, adrift)
  /\ Genuine(r.base, adrift) /\ Genuine(r.s.tipList, adrift)
  /\ Has(r.s, BlockAt(b, h))
  /\ DOMAIN s.db \subseteq DOMAIN r.s.db
  /\ \A x \in DOMAIN r.s.cache : x \in DOMAIN s.cache \/ x = b \/ Height(x) < Height(b)

\* The cache is full of lists at least as high as that of c.
FullFrom(s, c) ==
  /\ Cardinality(DOMAIN s.cache) = MAX_CACHE_SIZE
  /\ \A x \in DOMAIN s.cache : Height(x) >= Height(c)

\* One block of the replay.
LEMMA ReplayOne ==
  ASSUME stored \subseteq Blocks, NEW s, NEW b \in Nodes, NEW h \in 1 .. Height(b),
         BlockAt(b, h) \in stored, NEW r, GoodAt(s, b, r, h - 1)
  PROVE  LET q == Replay(r, BlockAt(b, h))
         IN  /\ GoodAt(s, b, q, h)
             /\ BlockAt(b, h) \in DOMAIN q.s.cache \/ FullFrom(q.s, BlockAt(b, h))
<1> DEFINE c == BlockAt(b, h)
           p == BlockAt(b, h - 1)
           u == Load(r.s, p)
           l == Get(r.s, p)
           t == ProcessBlock(u, l, c)
           q == Replay(r, c)
<1>1. Height(b) \in Nat
  BY HeightStep, Zenon
<1>2. h - 1 \in 0 .. Height(b) /\ h \in 0 .. Height(b) /\ h - 1 < Height(b)
      /\ (h < Height(b) \/ h = Height(b))
  BY <1>1
<1>3. /\ BlockAt(b, Height(b)) = b
      /\ c \in Nodes /\ Height(c) = h /\ p \in Nodes /\ Height(p) = h - 1
      /\ Prev[c] = p
  BY <1>2, LevelsAll, Zenon DEF Levels
<1>4. /\ Sound(r.s, stored, adrift)
      /\ Genuine(r.base, adrift) /\ Genuine(r.s.tipList, adrift)
      /\ Has(r.s, p)
      /\ DOMAIN s.db \subseteq DOMAIN r.s.db
      /\ \A x \in DOMAIN r.s.cache : x \in DOMAIN s.cache \/ x = b \/ Height(x) < Height(b)
  BY Zenon DEF GoodAt
<1>5. Fits(c, List(c, Append(l.path, c)), adrift)
  <2>1. Fits(p, l, adrift)
    BY <1>4, GetRight, Zenon
  <2>2. l.path \in Seq(Blocks)
    BY <2>1, Zenon DEF Fits
  <2>3. c \in Blocks
    BY Zenon
  <2> HIDE DEF l, c
  <2> QED BY <2>1, <2>2, <2>3, <1>3, FitsStep, Zenon
<1>6. /\ q.s = t
      /\ q.base = IF c \in DOMAIN t.cache THEN t.cache[c] ELSE r.base
  BY <1>3, Zenon DEF Replay
<1> HIDE DEF q, l
<1>7. /\ Sound(u, stored, adrift) /\ u.db = r.s.db
      /\ DOMAIN u.cache \subseteq (DOMAIN r.s.cache) \cup {p}
  BY <1>4, LoadSound, Zenon
<1> HIDE DEF u
<1>8. Processed(u, stored, adrift, l, c, t)
  <2> HIDE DEF c
  <2> QED BY <1>5, <1>7, ProcessSound, Zenon DEF c
<1> HIDE DEF t
<1>9. /\ Sound(t, stored, adrift)
      /\ DOMAIN t.db = (DOMAIN u.db) \cup {c}
      /\ t.tipList = List(c, Append(l.path, c))
      /\ DOMAIN t.cache \subseteq (DOMAIN u.cache) \cup {c}
      /\ c \notin DOMAIN t.cache =>
           /\ Cardinality(DOMAIN t.cache) = MAX_CACHE_SIZE
           /\ \A x \in DOMAIN t.cache : Height(x) >= Height(c)
  BY <1>8, Zenon DEF Processed
<1> HIDE DEF c, p
<1>10. c \in DOMAIN t.cache \/ FullFrom(t, c)
  BY <1>9, Zenon DEF FullFrom
<1>11. Has(t, c) /\ DOMAIN s.db \subseteq DOMAIN t.db
  BY <1>4, <1>7, <1>9, Zenon DEF Has
<1>12. Genuine(t.tipList, adrift) /\ Genuine(q.base, adrift)
  <2>1. c \in DOMAIN t.cache => Fits(c, t.cache[c], adrift)
    BY <1>9, Zenon DEF Sound
  <2>2. \A m : Fits(c, m, adrift) => Genuine(m, adrift)
    BY <1>3, Zenon DEF Genuine
  <2> QED BY <2>1, <2>2, <1>4, <1>5, <1>6, <1>9, Zenon
<1>13. Height(p) < Height(b) /\ (c = b \/ Height(c) < Height(b))
  BY <1>2, <1>3, Zenon DEF c
<1>14. \A x \in DOMAIN t.cache : x \in DOMAIN s.cache \/ x = b \/ Height(x) < Height(b)
  BY <1>4, <1>7, <1>9, <1>13, Zenon
<1>15. GoodAt(s, b, q, h)
  BY <1>4, <1>6, <1>9, <1>11, <1>12, <1>14, Zenon DEF GoodAt, c
<1> QED BY <1>6, <1>10, <1>15, Zenon DEF c, q

\* The replay as a whole: every height it reaches.
LEMMA ReplayAll ==
  ASSUME stored \subseteq Blocks, NEW s, NEW b \in Nodes,
         NEW low \in Nat, NEW high \in Nat, low <= high, high <= Height(b),
         \A h \in low + 1 .. high : BlockAt(b, h) \in stored,
         NEW f, Replays(f, b, low, high),
         GoodAt(s, b, f[low], low)
  PROVE  /\ GoodAt(s, b, f[high], high)
         /\ high = low \/ BlockAt(b, high) \in DOMAIN f[high].s.cache
                       \/ FullFrom(f[high].s, BlockAt(b, high))
<1>0. Height(b) \in Nat
  BY HeightStep, Zenon
<1>1. ASSUME NEW h \in low + 1 .. high, GoodAt(s, b, f[h - 1], h - 1)
      PROVE  /\ GoodAt(s, b, f[h], h)
             /\ BlockAt(b, h) \in DOMAIN f[h].s.cache \/ FullFrom(f[h].s, BlockAt(b, h))
  <2>1. h \in 1 .. Height(b)
    BY <1>0
  <2>2. f[h] = Replay(f[h - 1], BlockAt(b, h)) /\ BlockAt(b, h) \in stored
    BY Zenon DEF Replays
  <2> DEFINE r == f[h - 1]
             q == Replay(r, BlockAt(b, h))
  <2>3. GoodAt(s, b, r, h - 1)
    BY <1>1, Zenon
  <2> HIDE DEF r
  <2>4. /\ GoodAt(s, b, q, h)
        /\ BlockAt(b, h) \in DOMAIN q.s.cache \/ FullFrom(q.s, BlockAt(b, h))
    BY <2>1, <2>2, <2>3, ReplayOne, Zenon
  <2>5. q = f[h]
    BY <2>2, Zenon DEF r
  <2> HIDE DEF q
  <2> QED BY <2>4, <2>5, Zenon
<1> DEFINE B == { h \in Nat : h \in low .. high /\ ~GoodAt(s, b, f[h], h) }
<1>2. B = {}
  <2> SUFFICES ASSUME B # {} PROVE FALSE
    BY Zenon
  <2>1. PICK m \in B : \A k \in B : m <= k
    <3>1. B \subseteq Nat
      BY Zenon
    <3> HIDE DEF B
    <3> QED BY <3>1, LeastOf, Zenon
  <2>2. m \in Nat /\ m \in low .. high /\ ~GoodAt(s, b, f[m], m)
    BY <2>1, Zenon
  <2>3. m # low
    BY <2>2, Zenon
  <2>4. m \in low + 1 .. high /\ m - 1 \in Nat /\ m - 1 \in low .. high /\ ~(m <= m - 1)
    BY <2>2, <2>3
  <2>5. m - 1 \notin B
    <3> HIDE DEF B
    <3> QED BY <2>1, <2>4, Zenon
  <2>6. GoodAt(s, b, f[m - 1], m - 1)
    BY <2>4, <2>5, Zenon
  <2> QED BY <2>2, <2>4, <2>6, <1>1, Zenon
<1>3. \A h \in low .. high : h \in Nat
  OBVIOUS
<1>4. \A h \in low .. high : GoodAt(s, b, f[h], h)
  BY <1>2, <1>3, Zenon
<1>5. high \in low .. high
      /\ (high = low \/ (high \in low + 1 .. high /\ high - 1 \in low .. high))
  OBVIOUS
<1> QED BY <1>1, <1>4, <1>5, Zenon

\* The cached lists at or above the height of b.
Above(s, b) == { x \in DOMAIN s.cache : Height(x) >= Height(b) }

\* The walk back finds a list below b, and the data of the blocks between it
\* and the end of the replay is there.
LEMMA ReplayRange ==
  ASSUME NEW s, NEW b \in Nodes, ~Has(s, b)
  PROVE  LET low == Nearest(s, b)  high == Readable(b, low)
         IN  /\ low \in Nat /\ high \in Nat /\ low <= high /\ high <= Height(b)
             /\ low < Height(b) /\ Has(s, BlockAt(b, low))
             /\ \A h \in low + 1 .. high : BlockAt(b, h) \in stored
             /\ Ancestors(b) \subseteq stored => high = Height(b)
<1> DEFINE n == Height(b)
           S == { h \in 0 .. n : Has(s, BlockAt(b, h)) }
           low == Nearest(s, b)
           high == Readable(b, low)
<1>1. n \in Nat
  BY HeightStep, Zenon
<1>2. /\ BlockAt(b, n) = b
      /\ \A h \in 1 .. n : BlockAt(b, h) \in Ancestors(b)
  BY LevelsAll, Zenon DEF Levels
<1>3. low = Max(S)
  BY Zenon DEF Nearest
<1> HIDE DEF n, low
<1>4. 0 \in S
  <2>1. 0 \in 0 .. n
    BY <1>1
  <2>2. Has(s, BlockAt(b, 0))
    BY Zenon DEF Has, BlockAt
  <2> QED BY <2>1, <2>2, Zenon
<1>5. low \in S
  <2>1. S \subseteq 0 .. n /\ S # {}
    BY <1>4, Zenon
  <2> HIDE DEF S
  <2> QED BY <2>1, <1>1, <1>3, MaxBounded, Zenon
<1>6. low \in 0 .. n /\ Has(s, BlockAt(b, low))
  BY <1>5, Zenon
<1>7. low # n
  BY <1>2, <1>6, Zenon
<1>8. low \in Nat /\ low < n /\ low \in low .. n /\ n \in low .. n
      /\ low + 1 .. low = {} /\ \A h \in low + 1 .. n : h \in 1 .. n
  BY <1>1, <1>6, <1>7
<1> DEFINE T == { h \in low .. n : \A j \in low + 1 .. h : BlockAt(b, j) \in stored }
<1>9. high = Max(T)
  BY Zenon DEF Readable, n
<1> HIDE DEF high, S
<1>10. low \in T
  BY <1>8, Zenon
<1>11. high \in T /\ \A y \in T : y <= high
  <2>1. T # {} /\ T \subseteq low .. n
    BY <1>10, Zenon
  <2>2. low .. n \subseteq 0 .. n
    BY <1>8
  <2> HIDE DEF T
  <2>3. T \subseteq 0 .. n
    BY <2>1, <2>2, Zenon
  <2> QED BY <2>1, <2>3, <1>1, <1>9, MaxBounded, Zenon
<1>12. high \in low .. n /\ \A h \in low + 1 .. high : BlockAt(b, h) \in stored
  BY <1>11, Zenon
<1>13. high \in Nat /\ low <= high /\ high <= n
  BY <1>1, <1>8, <1>12
<1>14. ASSUME Ancestors(b) \subseteq stored PROVE high = n
  <2>1. n \in T
    BY <1>2, <1>8, <1>14, Zenon
  <2>2. n <= high
    BY <2>1, <1>11, Zenon
  <2> QED BY <2>2, <1>1, <1>13
<1> QED BY <1>6, <1>8, <1>12, <1>13, <1>14, Zenon DEF n, low, high

\* A replay that reaches b in a cache that is not crowded leaves b cached: the
\* lists that could push it out were all there before.
LEMMA NotCrowded ==
  ASSUME NEW s, Sound(s, stored, adrift), stored \subseteq Blocks, NEW b \in Nodes,
         Cardinality(Above(s, b)) < MAX_CACHE_SIZE,
         NEW r, GoodAt(s, b, r, Height(b)), FullFrom(r.s, b)
  PROVE  b \in DOMAIN r.s.cache
<1> SUFFICES ASSUME b \notin DOMAIN r.s.cache PROVE FALSE
  BY Zenon
<1>1. /\ Sound(r.s, stored, adrift)
      /\ \A x \in DOMAIN r.s.cache : x \in DOMAIN s.cache \/ x = b \/ Height(x) < Height(b)
  BY Zenon DEF GoodAt
<1>2. DOMAIN r.s.cache \subseteq Blocks
  BY <1>1, Zenon DEF Sound
<1>3. \A x \in DOMAIN r.s.cache : Height(x) \in Nat
  BY <1>2, BlockHeight, Zenon
<1>4. Height(b) \in Nat
  BY HeightStep, Zenon
<1>5. \A x \in DOMAIN r.s.cache : Height(x) >= Height(b)
  BY Zenon DEF FullFrom
<1>6. \A x \in DOMAIN r.s.cache : ~(Height(x) < Height(b))
  <2> SUFFICES ASSUME NEW x \in DOMAIN r.s.cache PROVE ~(Height(x) < Height(b))
    BY Zenon
  <2>1. Height(x) \in Nat /\ Height(x) >= Height(b)
    BY <1>3, <1>5, Zenon
  <2> QED BY <2>1, <1>4
<1>7. DOMAIN r.s.cache \in SUBSET Above(s, b)
  BY <1>1, <1>5, <1>6, Zenon DEF Above
<1>8. IsFiniteSet(Above(s, b))
  <2>1. IsFiniteSet(DOMAIN s.cache) /\ Above(s, b) \in SUBSET DOMAIN s.cache
    BY Zenon DEF Sound, Above
  <2> QED BY <2>1, FS_Subset, Zenon
<1>9. Cardinality(DOMAIN r.s.cache) <= Cardinality(Above(s, b))
  BY <1>7, <1>8, FS_Subset, Zenon
<1>10. Cardinality(DOMAIN r.s.cache) = MAX_CACHE_SIZE
  BY Zenon DEF FullFrom
<1>11. Cardinality(Above(s, b)) \in Nat
  BY <1>8, FS_CardinalityType, Zenon
<1>12. MAX_CACHE_SIZE <= Cardinality(Above(s, b))
  BY <1>9, <1>10, Zenon
<1> QED BY <1>11, <1>12, ManagerNumbers

\* GetListForBlock keeps the manager sound and loses no saved list; its answer
\* is some block's list, and that of b if b has one or can be rebuilt and kept.
LEMMA GetListSound ==
  ASSUME stored \subseteq Blocks, NEW s, Sound(s, stored, adrift), Genuine(s.tipList, adrift),
         NEW b \in Nodes
  PROVE  LET g == GetListForBlock(s, b)
         IN  /\ Sound(g.s, stored, adrift)
             /\ Genuine(g.list, adrift) /\ Genuine(g.s.tipList, adrift)
             /\ DOMAIN s.db \subseteq DOMAIN g.s.db
             /\ Has(s, b) => Fits(b, g.list, adrift)
             /\ /\ Ancestors(b) \subseteq stored
                /\ Cardinality(Above(s, b)) < MAX_CACHE_SIZE
                => Fits(b, g.list, adrift)
<1> DEFINE g == GetListForBlock(s, b)
<1>1. CASE Has(s, b)
  <2>1. g.s = Load(s, b) /\ g.list = Get(s, b)
    BY <1>1, Zenon DEF GetListForBlock
  <2> HIDE DEF g
  <2>2. Fits(b, Get(s, b), adrift)
    BY <1>1, GetRight, Zenon
  <2>3. Genuine(Get(s, b), adrift)
    BY <2>2, Zenon DEF Genuine
  <2>4. /\ Sound(Load(s, b), stored, adrift)
        /\ Load(s, b).db = s.db /\ Load(s, b).tipList = s.tipList
    BY <1>1, LoadSound, Zenon
  <2> QED BY <2>1, <2>2, <2>3, <2>4, Zenon DEF g
<1>2. CASE ~Has(s, b)
  <2> DEFINE low == Nearest(s, b)
             high == Readable(b, low)
             r == Replayed(s, b, low, high)
             c == BlockAt(b, low)
  <2>1. g.s = r.s /\ g.list = IF b \in DOMAIN r.s.cache THEN r.s.cache[b] ELSE r.base
    BY <1>2, Zenon DEF GetListForBlock
  <2>2. /\ low \in Nat /\ high \in Nat /\ low <= high /\ high <= Height(b)
        /\ low < Height(b) /\ Has(s, c)
        /\ \A h \in low + 1 .. high : BlockAt(b, h) \in stored
        /\ Ancestors(b) \subseteq stored => high = Height(b)
    BY <1>2, ReplayRange, Zenon
  <2> HIDE DEF g, low, high
  <2>3. PICK f : /\ r = f[high]
                 /\ f[low] = Start(s, b, low)
                 /\ Replays(f, b, low, high)
    <3>1. low \in Nat /\ high \in Nat /\ low <= high
      BY <2>2, Zenon
    <3> QED BY <3>1, ReplayedDef, Zenon
  <2> HIDE DEF r
  <2>4. f[low].s = Load(s, c) /\ f[low].base = Get(s, c) /\ Fits(c, Get(s, c), adrift)
    <3>1. Start(s, b, low).s = Load(s, c) /\ Start(s, b, low).base = Get(s, c)
      BY Zenon DEF Start
    <3>2. Fits(c, Get(s, c), adrift)
      BY <2>2, GetRight, Zenon
    <3> QED BY <3>1, <3>2, <2>3, Zenon
  <2>5. c \in Nodes /\ Height(c) < Height(b) /\ BlockAt(b, Height(b)) = b
    <3>1. low \in 0 .. Height(b)
      <4>1. Height(b) \in Nat
        BY HeightStep, Zenon
      <4> QED BY <4>1, <2>2
    <3>2. c \in Nodes /\ Height(c) = low /\ BlockAt(b, Height(b)) = b
      BY <3>1, LevelsAll, Zenon DEF Levels
    <3> QED BY <3>2, <2>2, Zenon
  <2>6. GoodAt(s, b, f[low], low)
    <3>1. /\ Sound(Load(s, c), stored, adrift)
          /\ Load(s, c).db = s.db /\ Load(s, c).tipList = s.tipList
          /\ DOMAIN Load(s, c).cache \subseteq (DOMAIN s.cache) \cup {c}
          /\ Has(Load(s, c), c)
      BY <2>2, LoadSound, Zenon
    <3>2. Genuine(Get(s, c), adrift)
      BY <2>4, <2>5, Zenon DEF Genuine
    <3>3. \A x \in DOMAIN Load(s, c).cache : x \in DOMAIN s.cache \/ Height(x) < Height(b)
      BY <3>1, <2>5, Zenon
    <3> QED BY <3>1, <3>2, <3>3, <2>4, Zenon DEF GoodAt
  <2>7. /\ GoodAt(s, b, f[high], high)
        /\ high = low \/ BlockAt(b, high) \in DOMAIN f[high].s.cache
                      \/ FullFrom(f[high].s, BlockAt(b, high))
    BY <2>2, <2>3, <2>6, ReplayAll, Zenon
  <2>8. GoodAt(s, b, r, high)
    BY <2>3, <2>7, Zenon
  <2>9. /\ Sound(r.s, stored, adrift)
        /\ Genuine(r.base, adrift) /\ Genuine(r.s.tipList, adrift)
        /\ DOMAIN s.db \subseteq DOMAIN r.s.db
    BY <2>8, Zenon DEF GoodAt
  <2>10. b \in DOMAIN r.s.cache => Fits(b, r.s.cache[b], adrift)
    BY <2>9, Zenon DEF Sound
  <2>11. \A m : Fits(b, m, adrift) => Genuine(m, adrift)
    BY Zenon DEF Genuine
  <2>12. Genuine(g.list, adrift)
    BY <2>1, <2>9, <2>10, <2>11, Zenon
  <2>13. ASSUME Ancestors(b) \subseteq stored, Cardinality(Above(s, b)) < MAX_CACHE_SIZE
         PROVE  Fits(b, g.list, adrift)
    <3>1. high = Height(b)
      BY <2>2, <2>13, Zenon
    <3>2. high # low
      BY <3>1, <2>2
    <3>3. b \in DOMAIN r.s.cache \/ FullFrom(r.s, b)
      BY <3>1, <3>2, <2>3, <2>5, <2>7, Zenon
    <3>4. b \in DOMAIN r.s.cache
      BY <3>1, <3>3, <2>8, <2>13, NotCrowded, Zenon
    <3> QED BY <3>4, <2>1, <2>10, Zenon
  <2> QED BY <1>2, <2>1, <2>9, <2>12, <2>13, Zenon DEF g
<1> QED BY <1>1, <1>2, Zenon

-----------------------------------------------------------------------------
(* The inductive invariant *)

\* The chain and the block data.
ChainInv ==
  /\ stored \subseteq Blocks /\ failed \subseteq stored /\ rejected \subseteq Blocks \ stored
  /\ tip \in Nodes /\ flushed \in Nodes
  /\ Ancestors(tip) \subseteq stored /\ Ancestors(flushed) \subseteq stored
  /\ pending \subseteq stored
  /\ oldVersion \in BOOLEAN
  /\ used \in [{"reorg", "restart", "failure"} -> Nat]
  /\ adrift \subseteq stored

\* The manager.
ManagerInv == Sound(mgr, stored, adrift) /\ Genuine(mgr.tipList, adrift)

\* Until a restart every block of the active chain has a saved list, so that
\* no block is connected onto a wrong one.
SavedInv == used["restart"] = 0 => Ancestors(tip) \subseteq DOMAIN mgr.db /\ adrift = {}

IInv == ChainInv /\ ManagerInv /\ SavedInv

-----------------------------------------------------------------------------
(* Facts that several actions use *)

\* A block is not below itself.
LEMMA NotBelowItself == \A b \in Blocks : b \notin Ancestors(Prev[b])
<1> SUFFICES ASSUME NEW b \in Blocks, b \in Ancestors(Prev[b]) PROVE FALSE
  BY Zenon
<1> DEFINE p == Prev[b]
<1>1. p \in Nodes /\ Height(p) \in Nat /\ Height(b) = Height(p) + 1
  BY HeightStep, Zenon
<1>2. Path[p] \in Seq(Blocks)
  BY <1>1, PathType, Zenon
<1> HIDE DEF p
<1>3. DOMAIN Path[p] = 1 .. Height(p)
  <2>1. DOMAIN Path[p] = 1 .. Len(Path[p])
    BY <1>2
  <2> QED BY <2>1, Zenon DEF Height
<1>4. PICK h \in DOMAIN Path[p] : b = Path[p][h]
  BY Zenon DEF Ancestors, Range, p
<1>5. h \in 1 .. Height(p)
  BY <1>3, <1>4, Zenon
<1>6. h # 0 /\ h \in 0 .. Height(p)
  BY <1>1, <1>5
<1>7. BlockAt(p, h) = b
  BY <1>4, <1>6, Zenon DEF BlockAt
<1>8. Height(b) = h
  BY <1>1, <1>6, <1>7, LevelsAll, Zenon DEF Levels
<1> QED BY <1>1, <1>5, <1>8

\* More data makes no list wrong, nor do more blocks that went onto wrong ones.
LEMMA SoundMore ==
  ASSUME NEW s, NEW D, NEW W, Sound(s, D, W), NEW E, D \subseteq E, NEW V, W \subseteq V
  PROVE  Sound(s, E, V)
<1>1. \A b, l : Fits(b, l, W) => Fits(b, l, V)
  BY Zenon DEF Fits
<1>2. /\ DOMAIN s.db \subseteq D
      /\ DOMAIN s.cache \subseteq DOMAIN s.db
      /\ IsFiniteSet(DOMAIN s.cache)
      /\ \A b \in DOMAIN s.cache : Fits(b, s.cache[b], W)
      /\ \A b \in DOMAIN s.db : Fits(b, s.db[b], W)
  BY Zenon DEF Sound
<1> QED BY <1>1, <1>2, Zenon DEF Sound

\* The list of the tip is not part of what makes a manager sound.
LEMMA SoundTip ==
  ASSUME NEW s, NEW D, NEW W, Sound(s, D, W), NEW l
  PROVE  LET t == Manager(s.cache, s.db, l)
         IN  Sound(t, D, W) /\ t.db = s.db /\ t.tipList = l
<1> DEFINE c == s.cache
           d == s.db
           t == Manager(s.cache, s.db, l)
<1>1. t = Manager(c, d, l)
  BY Zenon
<1>2. /\ DOMAIN d \subseteq D
      /\ DOMAIN c \subseteq DOMAIN d
      /\ IsFiniteSet(DOMAIN c)
      /\ \A b \in DOMAIN c : Fits(b, c[b], W)
      /\ \A b \in DOMAIN d : Fits(b, d[b], W)
  BY Zenon DEF Sound
<1> HIDE DEF c, d, t
<1>3. t.cache = c /\ t.db = d /\ t.tipList = l
  BY <1>1, SMT DEF Manager
<1>4. Sound(t, D, W)
  BY <1>2, <1>3, Zenon DEF Sound
<1> QED BY <1>3, <1>4, Zenon DEF d, t

\* A list that names a block is one of that block.
LEMMA GenuineBlock ==
  ASSUME NEW l, NEW W, Genuine(l, W)
  PROVE  l.path \in Seq(Blocks) /\ \A b : l.block = b => Fits(b, l, W)
<1>1. PICK x \in Nodes : Fits(x, l, W)
  BY Zenon DEF Genuine
<1>2. l.block = x /\ l.path \in Seq(Blocks)
  BY <1>1, Zenon DEF Fits
<1> QED BY <1>1, <1>2, Zenon

\* Spending a bound counts one use of it, and of no other.
LEMMA SpendCounts ==
  ASSUME ChainInv, NEW w \in {"reorg", "restart", "failure"}, NEW n, Spend(w, n)
  PROVE  /\ used' \in [{"reorg", "restart", "failure"} -> Nat]
         /\ w # "restart" => used'["restart"] = used["restart"]
         /\ w = "restart" => used'["restart"] # 0
<1> DEFINE W == {"reorg", "restart", "failure"}
<1>1. used \in [W -> Nat] /\ used' = [used EXCEPT ![w] = @ + 1]
  BY Zenon DEF ChainInv, Spend
<1>2. used[w] \in Nat /\ "restart" \in W
  BY <1>1, Zenon
<1>3. used[w] + 1 \in Nat /\ used[w] + 1 # 0
  BY <1>2
<1>4. used' \in [W -> Nat]
  BY <1>1, <1>3, Zenon
<1>5. \A v \in W : used'[v] = IF v = w THEN used[w] + 1 ELSE used[v]
  BY <1>1, Zenon
<1> QED BY <1>2, <1>3, <1>4, <1>5, Zenon

\* A lookup in a state that has the invariant.
LEMMA Lookup ==
  ASSUME IInv, NEW b \in Nodes
  PROVE  LET g == GetListForBlock(mgr, b)
         IN  /\ Sound(g.s, stored, adrift)
             /\ Genuine(g.list, adrift) /\ Genuine(g.s.tipList, adrift)
             /\ DOMAIN mgr.db \subseteq DOMAIN g.s.db
             /\ Has(mgr, b) => Fits(b, g.list, adrift)
             /\ /\ Ancestors(b) \subseteq stored
                /\ Cardinality(Above(mgr, b)) < MAX_CACHE_SIZE
                => Fits(b, g.list, adrift)
<1>1. stored \subseteq Blocks /\ Sound(mgr, stored, adrift) /\ Genuine(mgr.tipList, adrift)
  BY Zenon DEF IInv, ChainInv, ManagerInv
<1> QED BY <1>1, GetListSound, Zenon

\* A block of the active chain whose list was not found makes no difference
\* before a restart: the tip has its own list.
LEMMA TipHas ==
  ASSUME IInv, used["restart"] = 0
  PROVE  Has(mgr, tip) /\ adrift = {}
<1>1. Ancestors(tip) \subseteq DOMAIN mgr.db /\ adrift = {} /\ tip \in Nodes
  BY Zenon DEF IInv, SavedInv, ChainInv
<1>2. CASE tip = Root
  BY <1>1, <1>2, Zenon DEF Has
<1>3. CASE tip \in Blocks
  <2>1. tip \in Ancestors(tip)
    BY <1>3, AncestorsStep, Zenon
  <2> QED BY <2>1, <1>1, Zenon DEF Has
<1> QED BY <1>1, <1>2, <1>3, Zenon DEF Nodes

\* ProcessBlock of a child of the tip, as ConnectTip and ConnectFails make it.
\* The block may go onto a wrong list, and is remembered then, which before a
\* restart does not happen.
LEMMA ChildSound ==
  ASSUME IInv, NEW b \in stored, Prev[b] = tip, ProcessChild(b)
  PROVE  /\ Sound(mgr', stored, adrift') /\ Genuine(mgr'.tipList, adrift')
         /\ (DOMAIN mgr.db) \cup {b} \subseteq DOMAIN mgr'.db
         /\ adrift' \subseteq stored
         /\ used["restart"] = 0 => adrift' = {}
<1> DEFINE u == GetListForBlock(mgr, tip).s
           l == GetListForBlock(mgr, tip).list
           V == adrift'
           t == ProcessBlock(u, l, b)
<1>1. tip \in Nodes /\ stored \subseteq Blocks /\ adrift \subseteq stored
  BY Zenon DEF IInv, ChainInv
<1>2. /\ Sound(u, stored, adrift) /\ Genuine(l, adrift) /\ DOMAIN mgr.db \subseteq DOMAIN u.db
      /\ Has(mgr, tip) => Fits(tip, l, adrift)
  BY <1>1, Lookup, Zenon
<1>3. mgr' = t /\ V = IF l.block = tip THEN adrift ELSE adrift \cup {b}
  BY Zenon DEF ProcessChild
<1> HIDE DEF u, l, V
<1>4. adrift \subseteq V /\ V \subseteq stored
  BY <1>1, <1>3, Zenon
<1>5. l.path \in Seq(Blocks) /\ (l.block = tip => Fits(tip, l, adrift))
  BY <1>2, GenuineBlock, Zenon
<1>6. Fits(Prev[b], l, V) \/ b \in V
  <2>1. CASE l.block = tip
    <3>1. V = adrift
      BY <2>1, <1>3, Zenon
    <3> QED BY <3>1, <2>1, <1>5, Zenon
  <2>2. CASE l.block # tip
    BY <2>2, <1>3, Zenon
  <2> QED BY <2>1, <2>2, Zenon
<1>7. b \in Blocks /\ Fits(b, List(b, Append(l.path, b)), V)
  <2>1. b \in Blocks
    BY <1>1, Zenon
  <2> QED BY <2>1, <1>5, <1>6, FitsStep, Zenon
<1>8. Sound(u, stored, V)
  BY <1>2, <1>4, SoundMore, Zenon
<1>9. /\ Sound(t, stored, V)
      /\ DOMAIN t.db = (DOMAIN u.db) \cup {b}
      /\ Fits(b, t.tipList, V)
  <2>1. stored \subseteq Blocks /\ Sound(u, stored, V) /\ b \in stored
        /\ Fits(b, List(b, Append(l.path, b)), V)
    BY <1>1, <1>7, <1>8, Zenon
  <2>2. Processed(u, stored, V, l, b, t)
    BY <2>1, ProcessSound, Zenon
  <2> HIDE DEF t
  <2>3. /\ Sound(t, stored, V)
        /\ DOMAIN t.db = (DOMAIN u.db) \cup {b}
        /\ t.tipList = List(b, Append(l.path, b))
    BY <2>2, Zenon DEF Processed
  <2> QED BY <2>1, <2>3, Zenon
<1> HIDE DEF t
<1>10. Genuine(t.tipList, V)
  BY <1>7, <1>9, BlockHeight, Zenon DEF Genuine
<1>11. used["restart"] = 0 => V = {}
  <2> SUFFICES ASSUME used["restart"] = 0 PROVE V = {}
    BY Zenon
  <2>1. Has(mgr, tip) /\ adrift = {}
    BY TipHas, Zenon
  <2>2. l.block = tip
    BY <2>1, <1>2, Zenon DEF Fits
  <2> QED BY <2>1, <2>2, <1>3, Zenon
<1> QED BY <1>2, <1>3, <1>4, <1>9, <1>10, <1>11, Zenon DEF V

-----------------------------------------------------------------------------
(* The invariant holds at the start and every action keeps it *)

\* The conjuncts of ChainInv, for the steps that need them one by one.
LEMMA ChainFacts ==
  ASSUME ChainInv
  PROVE  /\ stored \subseteq Blocks /\ failed \subseteq stored
         /\ rejected \subseteq Blocks \ stored
         /\ tip \in Nodes /\ flushed \in Nodes
         /\ Ancestors(tip) \subseteq stored /\ Ancestors(flushed) \subseteq stored
         /\ pending \subseteq stored /\ oldVersion \in BOOLEAN
         /\ used \in [{"reorg", "restart", "failure"} -> Nat]
         /\ adrift \subseteq stored
BY Zenon DEF ChainInv

\* An empty manager, over an empty database, is sound.
LEMMA EmptySound ==
  ASSUME NEW d, NEW D, NEW W, DOMAIN d \subseteq D, \A b \in DOMAIN d : Fits(b, d[b], W),
         NEW s, s = Manager(EmptyMap, d, EmptyList)
  PROVE  Sound(s, D, W) /\ Genuine(s.tipList, W) /\ s.db = d
<1> DEFINE c == EmptyMap
           l == EmptyList
<1>1. DOMAIN c = {} /\ IsFiniteSet({})
  BY FS_EmptySet, Zenon DEF EmptyMap
<1>2. s = Manager(c, d, l)
  BY Zenon
<1>3. Genuine(l, W)
  BY FitsRoot, Zenon DEF Genuine, Nodes
<1> HIDE DEF c, l
<1>4. s.cache = c /\ s.db = d /\ s.tipList = l
  BY <1>2, SMT DEF Manager
<1>5. Sound(s, D, W)
  BY <1>1, <1>4, Zenon DEF Sound
<1> QED BY <1>3, <1>4, <1>5, Zenon

\* A database without snapshots.
LEMMA EmptyDomain == DOMAIN EmptyMap = {}
BY Zenon DEF EmptyMap

\* A fresh node.
LEMMA InitInv == Init => IInv
<1> SUFFICES ASSUME Init PROVE IInv
  BY Zenon
<1>1. /\ mgr = Manager(EmptyMap, EmptyMap, EmptyList)
      /\ stored = {} /\ failed = {} /\ rejected = {} /\ pending = {}
      /\ tip = Root /\ flushed = Root
      /\ oldVersion = TRUE
      /\ used = [w \in {"reorg", "restart", "failure"} |-> 0]
      /\ adrift = {}
  BY Zenon DEF Init
<1>2. Ancestors(Root) = {} /\ Root \in Nodes
  BY AncestorsStep, Zenon DEF Nodes
<1>3. used \in [{"reorg", "restart", "failure"} -> Nat]
  <2>1. 0 \in Nat
    OBVIOUS
  <2> QED BY <2>1, <1>1, Zenon
<1>4. ChainInv
  BY <1>1, <1>2, <1>3, Zenon DEF ChainInv
<1>5. ManagerInv
  <2>1. Sound(mgr, stored, adrift) /\ Genuine(mgr.tipList, adrift)
    BY <1>1, EmptyDomain, EmptySound, Zenon
  <2> QED BY <2>1, Zenon DEF ManagerInv
<1>6. SavedInv
  BY <1>1, <1>2, Zenon DEF SavedInv
<1> QED BY <1>4, <1>5, <1>6, Zenon DEF IInv

\* AcceptBlock looks up the parent's list and stores or rejects the block.
LEMMA AcceptInv ==
  ASSUME IInv, NEW b \in Blocks, AcceptBlock(b)
  PROVE  IInv'
<1> DEFINE g == GetListForBlock(mgr, Prev[b])
<1>1. /\ b \notin stored \cup failed \cup rejected
      /\ mgr' = g.s
      /\ \/ stored' = stored \cup {b} /\ rejected' = rejected
         \/ rejected' = rejected \cup {b} /\ stored' = stored
      /\ failed' = failed /\ tip' = tip /\ flushed' = flushed /\ pending' = pending
      /\ oldVersion' = oldVersion /\ used' = used /\ adrift' = adrift
  BY Zenon DEF AcceptBlock
<1>2. Prev[b] \in Nodes
  BY HeightStep, Zenon
<1>3. Sound(g.s, stored, adrift) /\ Genuine(g.s.tipList, adrift) /\ DOMAIN mgr.db \subseteq DOMAIN g.s.db
  BY <1>2, Lookup, Zenon
<1> HIDE DEF g
<1>4. stored \subseteq stored' /\ stored' \subseteq Blocks \cup stored
      /\ rejected' \subseteq rejected \cup {b}
      /\ (stored' = stored \/ rejected' = rejected)
      /\ stored' \subseteq stored \cup {b}
  BY <1>1, Zenon
<1>5. ChainInv
  BY Zenon DEF IInv
<1>6. ChainInv'
  <2>1. /\ stored \subseteq Blocks /\ failed \subseteq stored
        /\ rejected \subseteq Blocks \ stored
        /\ tip \in Nodes /\ flushed \in Nodes
        /\ Ancestors(tip) \subseteq stored /\ Ancestors(flushed) \subseteq stored
        /\ pending \subseteq stored /\ oldVersion \in BOOLEAN
        /\ used \in [{"reorg", "restart", "failure"} -> Nat]
        /\ adrift \subseteq stored
    BY <1>5, ChainFacts, Zenon
  <2>2. stored' \subseteq Blocks /\ rejected' \subseteq Blocks \ stored'
    BY <2>1, <1>1, Zenon
  <2>3. /\ failed' \subseteq stored' /\ pending' \subseteq stored'
        /\ Ancestors(tip') \subseteq stored' /\ Ancestors(flushed') \subseteq stored'
        /\ adrift' \subseteq stored'
    BY <2>1, <1>1, <1>4, Zenon
  <2> QED BY <2>1, <2>2, <2>3, <1>1, Zenon DEF ChainInv, Ancestors, Range
<1>7. ManagerInv'
  <2>1. Sound(mgr', stored', adrift')
    BY <1>1, <1>3, <1>4, SoundMore, Zenon
  <2>2. Genuine(mgr'.tipList, adrift')
    BY <1>1, <1>3, Zenon
  <2> QED BY <2>1, <2>2, Zenon DEF ManagerInv
<1>8. SavedInv'
  <2>1. used["restart"] = 0 => Ancestors(tip) \subseteq DOMAIN mgr.db /\ adrift = {}
    BY Zenon DEF IInv, SavedInv
  <2> QED BY <2>1, <1>1, <1>3, Zenon DEF SavedInv
<1> QED BY <1>6, <1>7, <1>8, Zenon DEF IInv

\* ConnectTip processes a child of the tip, which becomes the tip.
LEMMA ConnectInv ==
  ASSUME IInv, NEW b \in Blocks, ConnectTip(b)
  PROVE  IInv'
<1>1. /\ Prev[b] = tip /\ b \in stored
      /\ ProcessChild(b)
      /\ tip' = b /\ pending' = pending \cup {b}
      /\ stored' = stored /\ failed' = failed /\ rejected' = rejected
      /\ flushed' = flushed /\ oldVersion' = oldVersion /\ used' = used
  BY Zenon DEF ConnectTip
<1>2. /\ Sound(mgr', stored, adrift') /\ Genuine(mgr'.tipList, adrift')
      /\ (DOMAIN mgr.db) \cup {b} \subseteq DOMAIN mgr'.db
      /\ adrift' \subseteq stored
      /\ used["restart"] = 0 => adrift' = {}
  BY <1>1, ChildSound, Zenon
<1>3. Ancestors(b) = Ancestors(tip) \cup {b} /\ b \in Nodes
  BY <1>1, AncestorsStep, BlockHeight, Zenon
<1>4. ChainInv'
  <2>1. ChainInv
    BY Zenon DEF IInv
  <2>2. /\ stored \subseteq Blocks /\ failed \subseteq stored
        /\ rejected \subseteq Blocks \ stored /\ flushed \in Nodes
        /\ Ancestors(tip) \subseteq stored /\ Ancestors(flushed) \subseteq stored
        /\ pending \subseteq stored /\ oldVersion \in BOOLEAN
        /\ used \in [{"reorg", "restart", "failure"} -> Nat]
    BY <2>1, ChainFacts, Zenon
  <2>3. Ancestors(b) \subseteq stored /\ pending \cup {b} \subseteq stored
    BY <2>2, <1>1, <1>3, Zenon
  <2> QED BY <2>2, <2>3, <1>1, <1>2, <1>3, Zenon DEF ChainInv
<1>5. ManagerInv'
  BY <1>1, <1>2, Zenon DEF ManagerInv
<1>6. SavedInv'
  <2>1. used["restart"] = 0 => Ancestors(tip) \subseteq DOMAIN mgr.db /\ adrift = {}
    BY Zenon DEF IInv, SavedInv
  <2> QED BY <2>1, <1>1, <1>2, <1>3, Zenon DEF SavedInv
<1> QED BY <1>4, <1>5, <1>6, Zenon DEF IInv

\* ConnectFails leaves the list of a block that is not connected behind.
LEMMA ConnectFailsInv ==
  ASSUME IInv, NEW b \in Blocks, ConnectFails(b)
  PROVE  IInv'
<1>1. /\ Prev[b] = tip /\ b \in stored /\ Spend("failure", MaxFailures)
      /\ ProcessChild(b)
      /\ failed' = failed \cup {b}
      /\ stored' = stored /\ rejected' = rejected /\ tip' = tip
      /\ flushed' = flushed /\ pending' = pending /\ oldVersion' = oldVersion
  BY Zenon DEF ConnectFails
<1>2. /\ Sound(mgr', stored, adrift') /\ Genuine(mgr'.tipList, adrift')
      /\ (DOMAIN mgr.db) \cup {b} \subseteq DOMAIN mgr'.db
      /\ adrift' \subseteq stored
      /\ used["restart"] = 0 => adrift' = {}
  BY <1>1, ChildSound, Zenon
<1>3. ChainInv
  BY Zenon DEF IInv
<1>4. /\ used' \in [{"reorg", "restart", "failure"} -> Nat]
      /\ used'["restart"] = used["restart"]
  <2>1. "failure" \in {"reorg", "restart", "failure"} /\ "failure" # "restart"
    BY Zenon
  <2> QED BY <2>1, <1>1, <1>3, SpendCounts, Zenon
<1>5. ChainInv'
  <2>1. failed \cup {b} \subseteq stored
    BY <1>1, <1>3, Zenon DEF ChainInv
  <2> QED BY <2>1, <1>1, <1>2, <1>3, <1>4, Zenon DEF ChainInv
<1>6. ManagerInv'
  BY <1>1, <1>2, Zenon DEF ManagerInv
<1>7. SavedInv'
  <2>1. used["restart"] = 0 => Ancestors(tip) \subseteq DOMAIN mgr.db /\ adrift = {}
    BY Zenon DEF IInv, SavedInv
  <2> QED BY <2>1, <1>1, <1>2, <1>4, Zenon DEF SavedInv
<1> QED BY <1>5, <1>6, <1>7, Zenon DEF IInv

\* A manager without the lists of one block.
LEMMA EraseSound ==
  ASSUME NEW s, NEW D, NEW W, Sound(s, D, W), NEW b, NEW l
  PROVE  LET t == Manager(Erase(s.cache, b), Erase(s.db, b), l)
         IN  Sound(t, D, W) /\ DOMAIN t.db = (DOMAIN s.db) \ {b}
<1> DEFINE c == Erase(s.cache, b)
           d == Erase(s.db, b)
           t == Manager(Erase(s.cache, b), Erase(s.db, b), l)
<1>1. t = Manager(c, d, l)
  BY Zenon
<1>2. /\ DOMAIN c = (DOMAIN s.cache) \ {b} /\ \A x \in DOMAIN c : c[x] = s.cache[x]
      /\ DOMAIN d = (DOMAIN s.db) \ {b} /\ \A x \in DOMAIN d : d[x] = s.db[x]
  BY Zenon DEF Erase
<1> HIDE DEF c, d, t
<1>3. t.cache = c /\ t.db = d /\ t.tipList = l
  BY <1>1, SMT DEF Manager
<1>4. /\ DOMAIN s.db \subseteq D
      /\ DOMAIN s.cache \subseteq DOMAIN s.db
      /\ IsFiniteSet(DOMAIN s.cache)
      /\ \A x \in DOMAIN s.cache : Fits(x, s.cache[x], W)
      /\ \A x \in DOMAIN s.db : Fits(x, s.db[x], W)
  BY Zenon DEF Sound
<1>5. IsFiniteSet(DOMAIN c)
  <2>1. IsFiniteSet((DOMAIN s.cache) \ {b})
    BY <1>4, FS_RemoveElement, Zenon
  <2> QED BY <2>1, <1>2, Zenon
<1>6. Sound(t, D, W)
  <2>1. DOMAIN d \subseteq D /\ DOMAIN c \subseteq DOMAIN d
    BY <1>2, <1>4, Zenon
  <2>2. /\ \A x \in DOMAIN c : Fits(x, c[x], W)
        /\ \A x \in DOMAIN d : Fits(x, d[x], W)
    BY <1>2, <1>4, Zenon
  <2> QED BY <2>1, <2>2, <1>3, <1>5, Zenon DEF Sound
<1> QED BY <1>2, <1>3, <1>6, Zenon DEF t

\* DisconnectTip erases both copies of the tip's list and looks up its
\* parent's: the lists of the blocks below the tip stay.
LEMMA DisconnectInv ==
  ASSUME IInv, DisconnectTip
  PROVE  IInv'
<1> DEFINE p == Prev[tip]
           s == Manager(Erase(mgr.cache, tip), Erase(mgr.db, tip), mgr.tipList)
           g == GetListForBlock(s, p)
<1>1. /\ tip # Root /\ Spend("reorg", MaxReorgs)
      /\ mgr' = Manager(g.s.cache, g.s.db, g.list)
      /\ tip' = p
      /\ stored' = stored /\ failed' = failed /\ rejected' = rejected
      /\ flushed' = flushed /\ pending' = pending /\ oldVersion' = oldVersion
      /\ adrift' = adrift
  BY Zenon DEF DisconnectTip, UndoBlock
<1>2. ChainInv /\ Sound(mgr, stored, adrift) /\ Genuine(mgr.tipList, adrift)
  BY Zenon DEF IInv, ManagerInv
<1>3. tip \in Blocks /\ Ancestors(tip) \subseteq stored /\ stored \subseteq Blocks
  BY <1>1, <1>2, Zenon DEF ChainInv, Nodes
<1>4. p \in Nodes /\ Ancestors(tip) = Ancestors(p) \cup {tip} /\ tip \notin Ancestors(p)
  BY <1>3, HeightStep, AncestorsStep, NotBelowItself, Zenon
<1>5. Sound(s, stored, adrift) /\ DOMAIN s.db = (DOMAIN mgr.db) \ {tip} /\ s.tipList = mgr.tipList
  <2> DEFINE l == mgr.tipList
             t == Manager(Erase(mgr.cache, tip), Erase(mgr.db, tip), l)
  <2> HIDE DEF l
  <2>1. Sound(t, stored, adrift) /\ DOMAIN t.db = (DOMAIN mgr.db) \ {tip} /\ t.tipList = l
    <3>1. Sound(mgr, stored, adrift)
      BY <1>2, Zenon
    <3>2. Sound(t, stored, adrift)
      BY <3>1, EraseSound, Zenon
    <3>3. DOMAIN t.db = (DOMAIN mgr.db) \ {tip}
      BY <3>1, EraseSound, Zenon
    <3>4. t.tipList = l
      BY SMT DEF Manager
    <3> QED BY <3>2, <3>3, <3>4, Zenon
  <2>2. t = s
    BY Zenon DEF l
  <2> HIDE DEF t, s
  <2> QED BY <2>1, <2>2, Zenon DEF l
<1> HIDE DEF s, p
<1>6. Sound(g.s, stored, adrift) /\ Genuine(g.list, adrift) /\ DOMAIN s.db \subseteq DOMAIN g.s.db
  <2>1. Genuine(s.tipList, adrift)
    BY <1>2, <1>5, Zenon
  <2> QED BY <2>1, <1>3, <1>4, <1>5, GetListSound, Zenon
<1> HIDE DEF g
<1>7. Sound(mgr', stored, adrift) /\ mgr'.db = g.s.db /\ mgr'.tipList = g.list
  <2> DEFINE t == Manager(g.s.cache, g.s.db, g.list)
  <2>1. Sound(t, stored, adrift) /\ t.db = g.s.db /\ t.tipList = g.list
    BY <1>6, SoundTip, Zenon
  <2> HIDE DEF t
  <2> QED BY <2>1, <1>1, Zenon DEF t
<1>8. /\ used' \in [{"reorg", "restart", "failure"} -> Nat]
      /\ used'["restart"] = used["restart"]
  <2>1. "reorg" \in {"reorg", "restart", "failure"} /\ "reorg" # "restart"
    BY Zenon
  <2> QED BY <2>1, <1>1, <1>2, SpendCounts, Zenon
<1>9. ChainInv'
  <2>1. Ancestors(p) \subseteq stored
    BY <1>3, <1>4, Zenon
  <2> QED BY <2>1, <1>1, <1>2, <1>4, <1>8, Zenon DEF ChainInv
<1>10. ManagerInv'
  BY <1>1, <1>6, <1>7, Zenon DEF ManagerInv
<1>11. SavedInv'
  <2>1. used["restart"] = 0 => Ancestors(tip) \subseteq DOMAIN mgr.db /\ adrift = {}
    BY Zenon DEF IInv, SavedInv
  <2>2. used["restart"] = 0 => Ancestors(p) \subseteq DOMAIN mgr'.db /\ adrift = {}
    BY <2>1, <1>4, <1>5, <1>6, <1>7, Zenon
  <2> QED BY <2>2, <1>1, <1>8, Zenon DEF SavedInv
<1> QED BY <1>9, <1>10, <1>11, Zenon DEF IInv

\* The callback looks up a list and makes it the tip's.
LEMMA UpdatedInv ==
  ASSUME IInv, NEW b \in Blocks, UpdatedBlockTip(b)
  PROVE  IInv'
<1> DEFINE g == GetListForBlock(mgr, b)
<1>1. /\ pending' = pending \ {b} /\ mgr' = Manager(g.s.cache, g.s.db, g.list)
      /\ stored' = stored /\ failed' = failed /\ rejected' = rejected /\ tip' = tip
      /\ flushed' = flushed /\ oldVersion' = oldVersion /\ used' = used /\ adrift' = adrift
  BY Zenon DEF UpdatedBlockTip
<1>2. b \in Nodes
  BY BlockHeight, Zenon
<1>3. Sound(g.s, stored, adrift) /\ Genuine(g.list, adrift) /\ DOMAIN mgr.db \subseteq DOMAIN g.s.db
  BY <1>2, Lookup, Zenon
<1> HIDE DEF g
<1>4. Sound(mgr', stored, adrift) /\ mgr'.db = g.s.db /\ mgr'.tipList = g.list
  <2> DEFINE t == Manager(g.s.cache, g.s.db, g.list)
  <2>1. Sound(t, stored, adrift) /\ t.db = g.s.db /\ t.tipList = g.list
    BY <1>3, SoundTip, Zenon
  <2> HIDE DEF t
  <2> QED BY <2>1, <1>1, Zenon DEF t
<1>5. ChainInv'
  <2>1. ChainInv
    BY Zenon DEF IInv
  <2> QED BY <2>1, <1>1, Zenon DEF ChainInv
<1>6. ManagerInv'
  BY <1>1, <1>3, <1>4, Zenon DEF ManagerInv
<1>7. SavedInv'
  <2>1. used["restart"] = 0 => Ancestors(tip) \subseteq DOMAIN mgr.db /\ adrift = {}
    BY Zenon DEF IInv, SavedInv
  <2> QED BY <2>1, <1>1, <1>3, <1>4, Zenon DEF SavedInv
<1> QED BY <1>5, <1>6, <1>7, Zenon DEF IInv

\* A step that only reads lists keeps the invariant: what is loaded or replayed
\* is genuine, and nothing leaves the database.
LEMMA ReadInv ==
  ASSUME IInv, Sound(mgr', stored, adrift), Genuine(mgr'.tipList, adrift), DOMAIN mgr.db \subseteq DOMAIN mgr'.db,
         UNCHANGED <<stored, failed, rejected, tip, flushed, pending, oldVersion, used, adrift>>
  PROVE  IInv'
<1>1. /\ stored' = stored /\ failed' = failed /\ rejected' = rejected /\ tip' = tip
      /\ flushed' = flushed /\ pending' = pending /\ oldVersion' = oldVersion
      /\ used' = used /\ adrift' = adrift
  BY Zenon
<1>2. ChainInv'
  <2>1. ChainInv
    BY Zenon DEF IInv
  <2> QED BY <2>1, <1>1, Zenon DEF ChainInv
<1>3. ManagerInv'
  BY <1>1, Zenon DEF ManagerInv
<1>4. SavedInv'
  <2>1. used["restart"] = 0 => Ancestors(tip) \subseteq DOMAIN mgr.db /\ adrift = {}
    BY Zenon DEF IInv, SavedInv
  <2> QED BY <2>1, <1>1, Zenon DEF SavedInv
<1> QED BY <1>2, <1>3, <1>4, Zenon DEF IInv

\* A lookup changes what is cached and saved, nothing else.
LEMMA AskInv ==
  ASSUME IInv, NEW b \in Blocks, Ask(b)
  PROVE  IInv'
<1> DEFINE g == GetListForBlock(mgr, b)
<1>1. /\ mgr' = g.s
      /\ UNCHANGED <<stored, failed, rejected, tip, flushed, pending, oldVersion, used, adrift>>
  BY Zenon DEF Ask
<1>2. b \in Nodes
  BY BlockHeight, Zenon
<1>3. Sound(g.s, stored, adrift) /\ Genuine(g.s.tipList, adrift) /\ DOMAIN mgr.db \subseteq DOMAIN g.s.db
  BY <1>2, Lookup, Zenon
<1> HIDE DEF g
<1> QED BY <1>1, <1>3, ReadInv, Zenon

\* A flush remembers the tip.
LEMMA FlushInv ==
  ASSUME IInv, FlushStateToDisk
  PROVE  IInv'
<1>1. flushed' = tip
  BY Zenon DEF FlushStateToDisk
<1>2. /\ mgr' = mgr /\ stored' = stored /\ failed' = failed /\ rejected' = rejected
      /\ tip' = tip /\ pending' = pending /\ oldVersion' = oldVersion /\ used' = used
      /\ adrift' = adrift
  BY Zenon DEF FlushStateToDisk
<1>3. ChainInv'
  <2>1. ChainInv
    BY Zenon DEF IInv
  <2> QED BY <2>1, <1>1, <1>2, Zenon DEF ChainInv
<1>4. ManagerInv' /\ SavedInv'
  <2>1. ManagerInv /\ SavedInv
    BY Zenon DEF IInv
  <2> QED BY <2>1, <1>2, Zenon DEF ManagerInv, SavedInv
<1> QED BY <1>3, <1>4, Zenon DEF IInv

\* A restart finds a database of right lists, or an erased one, and nothing in
\* memory; from then on lists may be missing.
LEMMA RestartInv ==
  ASSUME IInv, NEW d, DOMAIN d \subseteq stored, \A b \in DOMAIN d : Fits(b, d[b], adrift),
         Restart(d), oldVersion' \in BOOLEAN
  PROVE  IInv'
<1>1. /\ Spend("restart", MaxRestarts)
      /\ mgr' = Manager(EmptyMap, d, EmptyList)
      /\ tip' = flushed /\ pending' = {}
      /\ stored' = stored /\ failed' = failed /\ rejected' = rejected
      /\ flushed' = flushed /\ adrift' = adrift
  BY Zenon DEF Restart
<1>2. ChainInv
  BY Zenon DEF IInv
<1>3. used' \in [{"reorg", "restart", "failure"} -> Nat] /\ used'["restart"] # 0
  <2>1. "restart" \in {"reorg", "restart", "failure"}
    BY Zenon
  <2> QED BY <2>1, <1>1, <1>2, SpendCounts, Zenon
<1>4. ChainInv'
  BY <1>1, <1>2, <1>3, Zenon DEF ChainInv
<1>5. ManagerInv'
  <2>1. Sound(mgr', stored, adrift) /\ Genuine(mgr'.tipList, adrift)
    BY <1>1, EmptySound, Zenon
  <2> QED BY <2>1, <1>1, Zenon DEF ManagerInv
<1>6. SavedInv'
  BY <1>3, Zenon DEF SavedInv
<1> QED BY <1>4, <1>5, <1>6, Zenon DEF IInv

\* Every step keeps the invariant.
LEMMA NextInv == IInv /\ [Next]_vars => IInv'
<1> SUFFICES ASSUME IInv, [Next]_vars PROVE IInv'
  BY Zenon
<1>1. ChainInv /\ Sound(mgr, stored, adrift)
  BY Zenon DEF IInv, ManagerInv
<1>2. CASE \E b \in Blocks : AcceptBlock(b)
  BY <1>2, AcceptInv, Zenon
<1>3. CASE \E b \in Blocks : ConnectTip(b)
  BY <1>3, ConnectInv, Zenon
<1>4. CASE \E b \in Blocks : ConnectFails(b)
  BY <1>4, ConnectFailsInv, Zenon
<1>5. CASE DisconnectTip
  BY <1>5, DisconnectInv, Zenon
<1>6. CASE \E b \in Blocks : UpdatedBlockTip(b)
  BY <1>6, UpdatedInv, Zenon
<1>7. CASE \E b \in Blocks : Ask(b)
  BY <1>7, AskInv, Zenon
<1>8. CASE FlushStateToDisk
  BY <1>8, FlushInv, Zenon
<1>9. CASE Crash
  <2> DEFINE d == mgr.db
  <2>1. DOMAIN d \subseteq stored /\ \A b \in DOMAIN d : Fits(b, d[b], adrift)
    BY <1>1, Zenon DEF Sound
  <2>2. Restart(d) /\ oldVersion' = oldVersion
    BY <1>9, Zenon DEF Crash
  <2>3. oldVersion \in BOOLEAN
    BY <1>1, Zenon DEF ChainInv
  <2> HIDE DEF d
  <2> QED BY <2>1, <2>2, <2>3, RestartInv, Zenon
<1>10. CASE Upgrade
  <2>1. Restart(EmptyMap) /\ oldVersion' = FALSE
    BY <1>10, Zenon DEF Upgrade
  <2>2. DOMAIN EmptyMap \subseteq stored /\ \A b \in DOMAIN EmptyMap : Fits(b, EmptyMap[b], adrift)
    BY EmptyDomain, Zenon
  <2>3. oldVersion' \in BOOLEAN
    BY <2>1, Zenon
  <2> QED BY <2>1, <2>2, <2>3, RestartInv, Zenon
<1>11. CASE UNCHANGED vars
  <2>1. /\ mgr' = mgr /\ stored' = stored /\ failed' = failed /\ rejected' = rejected
        /\ tip' = tip /\ flushed' = flushed /\ pending' = pending
        /\ oldVersion' = oldVersion /\ used' = used /\ adrift' = adrift
    BY <1>11, Zenon DEF vars
  <2>2. ChainInv'
    BY <2>1, <1>1, Zenon DEF ChainInv
  <2>3. ManagerInv' /\ SavedInv'
    <3>1. ManagerInv /\ SavedInv
      BY Zenon DEF IInv
    <3> QED BY <3>1, <2>1, Zenon DEF ManagerInv, SavedInv
  <2> QED BY <2>2, <2>3, Zenon DEF IInv
<1> QED BY <1>2, <1>3, <1>4, <1>5, <1>6, <1>7, <1>8, <1>9, <1>10, <1>11, Zenon DEF Next

-----------------------------------------------------------------------------
(* The theorems *)

\* The invariant holds in every state of every behaviour.
THEOREM Invariance == Spec => []IInv
BY InitInv, NextInv, PTL DEF Spec

\* What fits a block has the type of lists.
LEMMA FitsType == \A b \in Nodes : \A l, W : Fits(b, l, W) => IsList(l)
BY Zenon DEF Fits, IsList, Nodes

\* What the invariant says of the types.
LEMMA TypeFollows == IInv => TypeOK
<1> SUFFICES ASSUME IInv PROVE TypeOK
  BY Zenon
<1>1. ChainInv /\ Sound(mgr, stored, adrift) /\ Genuine(mgr.tipList, adrift)
  BY Zenon DEF IInv, ManagerInv
<1>2. /\ DOMAIN mgr.cache \subseteq stored /\ DOMAIN mgr.db \subseteq stored
      /\ \A b \in DOMAIN mgr.cache : Fits(b, mgr.cache[b], adrift)
      /\ \A b \in DOMAIN mgr.db : Fits(b, mgr.db[b], adrift)
  BY <1>1, Zenon DEF Sound
<1>3. \A b \in stored : b \in Nodes
  BY <1>1, BlockHeight, Zenon DEF ChainInv
<1>4. IsList(mgr.tipList)
  BY <1>1, FitsType, Zenon DEF Genuine
<1>5. /\ \A b \in DOMAIN mgr.cache : IsList(mgr.cache[b])
      /\ \A b \in DOMAIN mgr.db : IsList(mgr.db[b])
  BY <1>2, <1>3, FitsType, Zenon
<1> QED BY <1>1, <1>2, <1>4, <1>5, Zenon DEF TypeOK, ChainInv

\* TypeOK, for every tree, cache size and bound: in particular only blocks
\* whose data is there have a list, which GetListForBlock ensures by ending
\* the replay at the first block it cannot read.
THEOREM TypeCorrect == Spec => []TypeOK
BY TypeFollows, Invariance, PTL

\* ListsGenuine: no order of replays, failed connections, reorganisations and
\* restarts leaves a list in the cache or in the database that was not computed
\* from the blocks of its own chain, except above a block that ConnectTip put
\* onto another list because GetListForBlock had not found its parent's.
THEOREM ListsAreGenuine == Spec => []ListsGenuine
<1>1. IInv => ListsGenuine
  <2> SUFFICES ASSUME IInv PROVE ListsGenuine
    BY Zenon
  <2>1. /\ \A b \in DOMAIN mgr.cache : Fits(b, mgr.cache[b], adrift)
        /\ \A b \in DOMAIN mgr.db : Fits(b, mgr.db[b], adrift)
    BY Zenon DEF IInv, ManagerInv, Sound
  <2>2. \A b, l : Fits(b, l, adrift) /\ Clean(b) => l = RightList(b)
    BY Zenon DEF Fits, Clean
  <2> QED BY <2>1, <2>2, Zenon DEF ListsGenuine
<1> QED BY <1>1, Invariance, PTL

\* CacheBacked: whatever UndoBlock erases and CleanupCache drops, what is
\* cached is saved.
THEOREM CacheIsBacked == Spec => []CacheBacked
<1>1. IInv => CacheBacked
  BY Zenon DEF IInv, ManagerInv, Sound, CacheBacked
<1> QED BY <1>1, Invariance, PTL

\* ExactUnlessCrowded: from every reachable state, for every cache size, the
\* replay of GetListForBlock ends with the list of the block it was asked for
\* if the data is there, fewer than MAX_CACHE_SIZE cached lists are as high, and
\* no block of the chain was connected onto another block's list.
THEOREM AnswersAreExact == Spec => []ExactUnlessCrowded
<1>1. IInv => ExactUnlessCrowded
  <2> SUFFICES ASSUME IInv, NEW b \in Blocks, Ancestors(b) \subseteq stored,
                      Clean(b), Cardinality(Above(mgr, b)) < MAX_CACHE_SIZE
               PROVE  GetListForBlock(mgr, b).list = RightList(b)
    BY Zenon DEF ExactUnlessCrowded, Roomy, Above
  <2>1. b \in Nodes
    BY BlockHeight, Zenon
  <2>2. Fits(b, GetListForBlock(mgr, b).list, adrift)
    BY <2>1, Lookup, Zenon
  <2> QED BY <2>2, Zenon DEF Fits, Clean
<1> QED BY <1>1, Invariance, PTL

\* ActiveListsExact: until a restart every block of the active chain has its
\* list in the database, so that GetListForBlock finds it however crowded the
\* cache is, and ConnectTip puts no block onto another list.
THEOREM ActiveChainExact == Spec => []ActiveListsExact
<1>1. IInv => ActiveListsExact
  <2> SUFFICES ASSUME IInv, used["restart"] = 0, NEW b \in Ancestors(tip)
               PROVE  GetListForBlock(mgr, b).list = RightList(b)
    BY Zenon DEF ActiveListsExact
  <2>1. ChainInv /\ Ancestors(tip) \subseteq DOMAIN mgr.db /\ adrift = {}
    BY Zenon DEF IInv, SavedInv
  <2>2. b \in Nodes /\ Has(mgr, b)
    BY <2>1, BlockHeight, Zenon DEF ChainInv, Has
  <2>3. Fits(b, GetListForBlock(mgr, b).list, adrift)
    BY <2>2, Lookup, Zenon
  <2> QED BY <2>1, <2>3, Zenon DEF Fits
<1> QED BY <1>1, Invariance, PTL

-----------------------------------------------------------------------------
(* The quorum manager *)

\* The numbers of the constants.
LEMMA QuorumNumbers ==
  /\ dkgInterval \in Nat \ {0} /\ MinBlocks \in Nat \ {0}
  /\ signingActiveQuorumCount \in Nat \ {0}
BY QuorumConstants, Zenon

\* quorumHeight starts at or below the height of the block and falls each time.
LEMMA QuorumHeights ==
  ASSUME NEW b \in Nodes
  PROVE  /\ \A i \in Nat \ {0} : QuorumHeight(b, i) \in Int /\ QuorumHeight(b, i) <= Height(b)
         /\ \A i, j \in Nat \ {0} : i < j => QuorumHeight(b, j) < QuorumHeight(b, i)
<1> DEFINE h == Height(b)
           d == dkgInterval
<1>1. h \in Nat /\ d \in Nat \ {0}
  BY HeightStep, QuorumNumbers, Zenon
<1>2. \A i : QuorumHeight(b, i) = h - (h % d) - (i - 1) * d
  BY Zenon DEF QuorumHeight
<1> HIDE DEF h, d
<1>3. h % d \in Nat /\ h - (h % d) \in Int
  BY <1>1
<1> DEFINE q == h % d
<1> HIDE DEF q
<1>4. ASSUME NEW i \in Nat \ {0}
      PROVE  QuorumHeight(b, i) \in Int /\ QuorumHeight(b, i) <= h
  <2> DEFINE m == (i - 1) * d
  <2>1. m \in Nat
    BY <1>1
  <2>2. QuorumHeight(b, i) = h - q - m
    BY <1>2 DEF q
  <2> HIDE DEF m
  <2>3. h - q - m \in Int /\ h - q - m <= h
    BY <2>1, <1>1, <1>3 DEF q
  <2> QED BY <2>2, <2>3, Zenon
<1>5. ASSUME NEW i \in Nat \ {0}, NEW j \in Nat \ {0}, i < j
      PROVE  QuorumHeight(b, j) < QuorumHeight(b, i)
  <2> DEFINE m == (i - 1) * d
             n == (j - 1) * d
             k == (j - i - 1) * d
  <2>1. m \in Nat /\ n \in Nat /\ k \in Nat
    BY <1>1, <1>5
  <2>2. k = n - m - d
    BY <1>1
  <2>3. QuorumHeight(b, i) = h - q - m /\ QuorumHeight(b, j) = h - q - n
    BY <1>2 DEF q
  <2> HIDE DEF m, n, k
  <2>4. h - q - n < h - q - m
    BY <2>1, <2>2, <1>1, <1>3 DEF q
  <2> QED BY <2>3, <2>4, Zenon
<1> QED BY <1>4, <1>5, Zenon DEF h

\* The iterations of the loop are those with a height above 0.
LEMMA CountRange ==
  ASSUME NEW b \in Nodes
  PROVE  /\ QuorumCount(b, 0) \in 0 .. signingActiveQuorumCount
         /\ QuorumCount(b, 0) \in Nat
         /\ \A i \in 1 .. QuorumCount(b, 0) : i \in Nat \ {0} /\ QuorumHeight(b, i) > 0
<1> DEFINE c == signingActiveQuorumCount
           S == { i \in 0 .. c : i > 0 => QuorumHeight(b, i) > 0 }
           n == QuorumCount(b, 0)
<1>1. c \in Nat
  BY QuorumNumbers
<1>2. n = Max(S)
  BY Zenon DEF QuorumCount
<1>3. n \in S /\ \A y \in S : y <= n
  <2>1. 0 \in 0 .. c /\ ~(0 > 0)
    BY <1>1
  <2>2. S \subseteq 0 .. c /\ S # {}
    BY <2>1, Zenon
  <2> HIDE DEF S
  <2> QED BY <2>2, <1>1, <1>2, MaxBounded, Zenon
<1> HIDE DEF n, c
<1>4. n \in 0 .. c /\ (n > 0 => QuorumHeight(b, n) > 0)
  BY <1>3, Zenon
<1>5. n \in Nat
  BY <1>1, <1>4
<1>6. ASSUME NEW i \in 1 .. n PROVE i \in Nat \ {0} /\ QuorumHeight(b, i) > 0
  <2>1. i \in Nat \ {0} /\ n \in Nat \ {0} /\ n > 0 /\ (i < n \/ i = n)
    BY <1>5
  <2>2. i < n => QuorumHeight(b, n) < QuorumHeight(b, i)
    BY <2>1, QuorumHeights, Zenon
  <2>3. QuorumHeight(b, n) \in Int /\ QuorumHeight(b, i) \in Int
    BY <2>1, QuorumHeights, Zenon
  <2>4. QuorumHeight(b, n) > 0
    BY <2>1, <1>4, Zenon
  <2>5. QuorumHeight(b, i) > 0
    BY <2>1, <2>2, <2>3, <2>4
  <2> QED BY <2>1, <2>5, Zenon
<1> QED BY <1>4, <1>5, <1>6, Zenon DEF n, c

\* The root has no quorums.
LEMMA CountRoot == QuorumCount(Root, 0) = 0
<1>1. Root \in Nodes /\ Height(Root) = 0
  BY HeightStep, Zenon DEF Nodes
<1> DEFINE n == QuorumCount(Root, 0)
<1>2. n \in Nat /\ \A i \in 1 .. n : QuorumHeight(Root, i) > 0
  BY <1>1, CountRange, Zenon
<1>3. 1 \in Nat \ {0}
  OBVIOUS
<1>4. QuorumHeight(Root, 1) \in Int /\ QuorumHeight(Root, 1) <= 0
  BY <1>1, <1>3, QuorumHeights, Zenon
<1>5. ~(QuorumHeight(Root, 1) > 0)
  BY <1>4
<1> HIDE DEF n
<1>6. 1 \notin 1 .. n
  BY <1>2, <1>5, Zenon
<1>7. n = 0
  BY <1>2, <1>6
<1> QED BY <1>7, Zenon DEF n

\* The i-th iteration is for a block below b, at its quorumHeight.
LEMMA Iteration ==
  ASSUME NEW b \in Nodes, NEW i \in 1 .. QuorumCount(b, 0)
  PROVE  /\ i \in Nat \ {0}
         /\ QuorumBlock(b, i) \in Ancestors(b)
         /\ Height(QuorumBlock(b, i)) = QuorumHeight(b, i)
<1> DEFINE q == QuorumHeight(b, i)
           x == QuorumBlock(b, i)
<1>1. i \in Nat \ {0} /\ q > 0
  BY CountRange, Zenon
<1>2. q \in Int /\ q <= Height(b) /\ Height(b) \in Nat
  BY <1>1, QuorumHeights, HeightStep, Zenon
<1>3. x = BlockAt(b, q)
  BY Zenon DEF QuorumBlock
<1> HIDE DEF q
<1>4. q \in 1 .. Height(b) /\ q \in 0 .. Height(b)
  BY <1>1, <1>2
<1>5. x \in Ancestors(b) /\ Height(x) = q
  BY <1>3, <1>4, LevelsAll, Zenon DEF Levels
<1> QED BY <1>1, <1>5, Zenon DEF q

\* The blocks of later iterations are lower.
LEMMA Falling ==
  ASSUME NEW b \in Nodes, NEW i \in 1 .. QuorumCount(b, 0), NEW j \in 1 .. i - 1
  PROVE  Height(QuorumBlock(b, j)) > Height(QuorumBlock(b, i))
<1> DEFINE n == QuorumCount(b, 0)
<1>1. n \in Nat
  BY CountRange, Zenon
<1>2. i \in 1 .. n
  BY Zenon
<1> HIDE DEF n
<1>3. j \in 1 .. n /\ j < i
  BY <1>1, <1>2
<1>4. /\ i \in Nat \ {0} /\ j \in Nat \ {0}
      /\ Height(QuorumBlock(b, i)) = QuorumHeight(b, i)
      /\ Height(QuorumBlock(b, j)) = QuorumHeight(b, j)
  BY <1>3, Iteration, Zenon DEF n
<1>5. QuorumHeight(b, i) < QuorumHeight(b, j)
  BY <1>3, <1>4, QuorumHeights, Zenon
<1>6. QuorumHeight(b, i) \in Int /\ QuorumHeight(b, j) \in Int
  BY <1>4, QuorumHeights, Zenon
<1>7. QuorumHeight(b, j) > QuorumHeight(b, i)
  BY <1>5, <1>6
<1> QED BY <1>4, <1>7, Zenon

-----------------------------------------------------------------------------
(* The signing quorums as the loop makes them *)

IsSeq(s) == \E n \in Nat : s = [k \in 1 .. n |-> s[k]]

\* t is s, of length n, with q at the end.
Pushed(s, q, n, t) ==
  /\ DOMAIN s = 1 .. n /\ DOMAIN t = 1 .. n + 1
  /\ \A k \in 1 .. n : t[k] = s[k]
  /\ t[n + 1] = q

\* push_back.
LEMMA PushBack ==
  ASSUME NEW s, IsSeq(s), NEW q
  PROVE  IsSeq(s \o <<q>>) /\ \E n \in Nat : Pushed(s, q, n, s \o <<q>>)
<1>1. PICK n \in Nat : s = [k \in 1 .. n |-> s[k]]
  BY Zenon DEF IsSeq
<1> DEFINE Q(k) == s[k]
           f == [k \in 1 .. n |-> Q(k)]
           g == [k \in 1 .. n + 1 |-> IF k <= n THEN Q(k) ELSE q]
<1>2. s = f
  BY <1>1, Zenon
<1> HIDE DEF Q
<1>3. f \o <<q>> = g
  OBVIOUS
<1>4. \A k \in 1 .. n : k \in 1 .. n + 1 /\ k <= n
  OBVIOUS
<1>5. n + 1 \in 1 .. n + 1 /\ ~(n + 1 <= n) /\ n + 1 \in Nat
  OBVIOUS
<1>6. /\ DOMAIN f = 1 .. n /\ DOMAIN g = 1 .. n + 1
      /\ \A k \in 1 .. n : g[k] = Q(k)
      /\ g[n + 1] = q
      /\ g = [k \in 1 .. n + 1 |-> g[k]]
  BY <1>4, <1>5, Zenon
<1> HIDE DEF f, g
<1>7. s \o <<q>> = g
  BY <1>2, <1>3, Zenon
<1>8. Pushed(s, q, n, g)
  BY <1>2, <1>6, Zenon DEF Pushed, Q
<1>9. IsSeq(g)
  BY <1>5, <1>6, Zenon DEF IsSeq
<1> QED BY <1>7, <1>8, <1>9, Zenon

\* No quorum is pushed.
LEMMA PushNone ==
  ASSUME NEW s, IsSeq(s)
  PROVE  s \o <<>> = s
<1>1. PICK n \in Nat : s = [k \in 1 .. n |-> s[k]]
  BY Zenon DEF IsSeq
<1> DEFINE Q(k) == s[k]
           f == [k \in 1 .. n |-> Q(k)]
<1>2. s = f
  BY <1>1, Zenon
<1> HIDE DEF Q
<1>3. f \o <<>> = f
  OBVIOUS
<1> HIDE DEF f
<1> QED BY <1>2, <1>3, Zenon

\* The blocks of the first i iterations, and a block whose own list makes a
\* valid quorum.
LoopBlocks(b, i) == { QuorumBlock(b, j) : j \in 1 .. i }
Signs(x) == Enough(RightList(x)) /\ IsValid(QuorumOf(x))

\* What an iteration for x may add, if the quorums of the blocks D may be wrong.
Adds(x, nq, D) ==
  /\ nq = <<>> \/ \E q : nq = <<q>> /\ IsQuorum(q) /\ q.block = x
  /\ x \notin D => nq = IF Signs(x) THEN <<QuorumOf(x)>> ELSE <<>>

\* The quorums qs that the first i iterations for b make.
Built(b, i, qs, D) ==
  /\ IsSeq(qs)
  /\ \A k \in DOMAIN qs : IsQuorum(qs[k]) /\ qs[k].block \in LoopBlocks(b, i)
  /\ \A k, l \in DOMAIN qs : k < l => Height(qs[k].block) > Height(qs[l].block)
  /\ LoopBlocks(b, i) \cap D = {} =>
       { qs[k] : k \in DOMAIN qs } = { QuorumOf(x) : x \in { y \in LoopBlocks(b, i) : Signs(y) } }

\* Another iteration, another block.
LEMMA LoopBlocksStep ==
  ASSUME NEW b, NEW i \in Nat \ {0}
  PROVE  LoopBlocks(b, i) = LoopBlocks(b, i - 1) \cup {QuorumBlock(b, i)}
<1>1. \A j : j \in 1 .. i <=> j \in 1 .. i - 1 \/ j = i
  OBVIOUS
<1> QED BY <1>1, Zenon DEF LoopBlocks

\* The loop begins with no quorum.
LEMMA BuiltNone ==
  ASSUME NEW b, NEW D
  PROVE  Built(b, 0, <<>>, D)
<1>1. 1 .. 0 = {} /\ 0 \in Nat
  OBVIOUS
<1>2. <<>> = [k \in {} |-> k] /\ DOMAIN <<>> = {}
  OBVIOUS
<1>3. IsSeq(<<>>)
  <2>1. <<>> = [k \in {} |-> <<>>[k]]
    BY <1>2
  <2> QED BY <2>1, <1>1, Zenon DEF IsSeq
<1>4. LoopBlocks(b, 0) = {}
  BY <1>1, Zenon DEF LoopBlocks
<1> QED BY <1>2, <1>3, <1>4, Zenon DEF Built

\* What was built stays as good when more quorums may be wrong.
LEMMA BuiltStays ==
  ASSUME NEW b, NEW i, NEW qs, NEW D, NEW E, D \subseteq E, Built(b, i, qs, D)
  PROVE  Built(b, i, qs, E)
<1>1. LoopBlocks(b, i) \cap E = {} => LoopBlocks(b, i) \cap D = {}
  BY Zenon
<1> QED BY <1>1, Zenon DEF Built

\* An iteration that adds a quorum.
LEMMA BuiltPush ==
  ASSUME NEW b \in Nodes, NEW i \in 1 .. QuorumCount(b, 0), NEW qs, NEW D,
         Built(b, i - 1, qs, D), NEW q, IsQuorum(q), q.block = QuorumBlock(b, i),
         Adds(QuorumBlock(b, i), <<q>>, D)
  PROVE  Built(b, i, qs \o <<q>>, D)
<1> DEFINE x == QuorumBlock(b, i)
           t == qs \o <<q>>
<1>1. i \in Nat \ {0}
  BY Iteration, Zenon
<1>2. LoopBlocks(b, i) = LoopBlocks(b, i - 1) \cup {x}
  BY <1>1, LoopBlocksStep, Zenon
<1>3. /\ IsSeq(qs)
      /\ \A k \in DOMAIN qs : IsQuorum(qs[k]) /\ qs[k].block \in LoopBlocks(b, i - 1)
      /\ \A k, l \in DOMAIN qs : k < l => Height(qs[k].block) > Height(qs[l].block)
      /\ LoopBlocks(b, i - 1) \cap D = {} =>
           { qs[k] : k \in DOMAIN qs } = { QuorumOf(y) : y \in { z \in LoopBlocks(b, i - 1) : Signs(z) } }
  BY Zenon DEF Built
<1>4. IsSeq(t) /\ \E n \in Nat : Pushed(qs, q, n, t)
  BY <1>3, PushBack, Zenon
<1>5. PICK n \in Nat : Pushed(qs, q, n, t)
  BY <1>4, Zenon
<1> HIDE DEF t
<1>6. /\ DOMAIN qs = 1 .. n /\ DOMAIN t = 1 .. n + 1
      /\ \A k \in 1 .. n : t[k] = qs[k]
      /\ t[n + 1] = q
  BY <1>5, Zenon DEF Pushed
<1>7. \A k : k \in 1 .. n + 1 <=> k \in 1 .. n \/ k = n + 1
  OBVIOUS
<1>8. \A k \in DOMAIN t : IsQuorum(t[k]) /\ t[k].block \in LoopBlocks(b, i)
  BY <1>2, <1>3, <1>6, <1>7, Zenon
<1>9. ASSUME NEW k \in DOMAIN t, NEW l \in DOMAIN t, k < l
      PROVE  Height(t[k].block) > Height(t[l].block)
  <2>1. k \in 1 .. n
    <3>1. k \in 1 .. n + 1 /\ l \in 1 .. n + 1
      BY <1>6, Zenon
    <3> QED BY <3>1, <1>9
  <2>2. CASE l \in 1 .. n
    BY <2>1, <2>2, <1>3, <1>6, <1>9, Zenon
  <2>3. CASE l = n + 1
    <3>1. t[l] = q /\ t[k] = qs[k] /\ qs[k].block \in LoopBlocks(b, i - 1)
      BY <2>1, <2>3, <1>3, <1>6, Zenon
    <3>2. PICK j \in 1 .. i - 1 : qs[k].block = QuorumBlock(b, j)
      BY <3>1, Zenon DEF LoopBlocks
    <3>3. Height(QuorumBlock(b, j)) > Height(x)
      BY Falling, Zenon
    <3> QED BY <3>1, <3>2, <3>3, Zenon
  <2> QED BY <2>2, <2>3, <1>6, <1>7, Zenon
<1>10. ASSUME LoopBlocks(b, i) \cap D = {}
       PROVE  { t[k] : k \in DOMAIN t } = { QuorumOf(y) : y \in { z \in LoopBlocks(b, i) : Signs(z) } }
  <2>1. x \notin D /\ LoopBlocks(b, i - 1) \cap D = {}
    BY <1>2, <1>10, Zenon
  <2>2. <<q>> = IF Signs(x) THEN <<QuorumOf(x)>> ELSE <<>>
    BY <2>1, Zenon DEF Adds
  <2>3. <<q>> # <<>> /\ \A y : <<q>> = <<y>> => q = y
    OBVIOUS
  <2>4. Signs(x) /\ q = QuorumOf(x)
    BY <2>2, <2>3, Zenon
  <2>5. { qs[k] : k \in DOMAIN qs } = { QuorumOf(y) : y \in { z \in LoopBlocks(b, i - 1) : Signs(z) } }
    BY <2>1, <1>3, Zenon
  <2>6. { t[k] : k \in DOMAIN t } = { qs[k] : k \in DOMAIN qs } \cup {q}
    BY <1>6, <1>7, Zenon
  <2>7. { z \in LoopBlocks(b, i) : Signs(z) } = { z \in LoopBlocks(b, i - 1) : Signs(z) } \cup {x}
    BY <2>4, <1>2, Zenon
  <2> DEFINE S == { z \in LoopBlocks(b, i - 1) : Signs(z) }
             T == { z \in LoopBlocks(b, i) : Signs(z) }
  <2>8. T = S \cup {x}
    BY <2>7, Zenon
  <2>9. { qs[k] : k \in DOMAIN qs } = { QuorumOf(y) : y \in S }
    BY <2>5, Zenon
  <2> HIDE DEF S, T, x
  <2>10. { QuorumOf(y) : y \in T } = { QuorumOf(y) : y \in S } \cup {QuorumOf(x)}
    BY <2>8, Zenon
  <2>11. { t[k] : k \in DOMAIN t } = { QuorumOf(y) : y \in T }
    BY <2>4, <2>6, <2>9, <2>10, Zenon
  <2> QED BY <2>11, Zenon DEF T
<1>11. Built(b, i, t, D)
  BY <1>4, <1>8, <1>9, <1>10, Zenon DEF Built
<1> QED BY <1>11, Zenon DEF t

\* An iteration: BuildQuorum gives the quorum of the block, or none.
LEMMA BuiltMore ==
  ASSUME NEW b \in Nodes, NEW i \in 1 .. QuorumCount(b, 0), NEW qs, NEW D,
         Built(b, i - 1, qs, D), NEW nq, Adds(QuorumBlock(b, i), nq, D)
  PROVE  Built(b, i, qs \o nq, D)
<1> DEFINE x == QuorumBlock(b, i)
<1>1. CASE nq = <<>>
  <2>1. IsSeq(qs)
    BY Zenon DEF Built
  <2>2. qs \o nq = qs
    BY <2>1, <1>1, PushNone, Zenon
  <2>3. i \in Nat \ {0}
    BY Iteration, Zenon
  <2>4. LoopBlocks(b, i) = LoopBlocks(b, i - 1) \cup {x}
    BY <2>3, LoopBlocksStep, Zenon
  <2>5. ASSUME LoopBlocks(b, i) \cap D = {}
        PROVE  { y \in LoopBlocks(b, i) : Signs(y) } = { y \in LoopBlocks(b, i - 1) : Signs(y) }
    <3>1. x \notin D
      BY <2>4, <2>5, Zenon
    <3>2. nq = IF Signs(x) THEN <<QuorumOf(x)>> ELSE <<>>
      BY <3>1, Zenon DEF Adds
    <3>3. <<QuorumOf(x)>> # <<>>
      OBVIOUS
    <3>4. ~Signs(x)
      BY <3>2, <3>3, <1>1, Zenon
    <3> QED BY <3>4, <2>4, Zenon
  <2>6. LoopBlocks(b, i) \cap D = {} => LoopBlocks(b, i - 1) \cap D = {}
    BY <2>4, Zenon
  <2>7. \A y : y \in LoopBlocks(b, i - 1) => y \in LoopBlocks(b, i)
    BY <2>4, Zenon
  <2>8. /\ \A k \in DOMAIN qs : IsQuorum(qs[k]) /\ qs[k].block \in LoopBlocks(b, i - 1)
        /\ \A k, l \in DOMAIN qs : k < l => Height(qs[k].block) > Height(qs[l].block)
        /\ LoopBlocks(b, i - 1) \cap D = {} =>
             { qs[k] : k \in DOMAIN qs } = { QuorumOf(y) : y \in { z \in LoopBlocks(b, i - 1) : Signs(z) } }
    BY Zenon DEF Built
  <2>9. LoopBlocks(b, i) \cap D = {} =>
          { qs[k] : k \in DOMAIN qs } = { QuorumOf(y) : y \in { z \in LoopBlocks(b, i) : Signs(z) } }
    BY <2>5, <2>6, <2>8, Zenon
  <2>10. Built(b, i, qs, D)
    BY <2>1, <2>7, <2>8, <2>9, Zenon DEF Built
  <2> QED BY <2>2, <2>10, Zenon
<1>2. CASE nq # <<>>
  <2>1. PICK q : nq = <<q>> /\ IsQuorum(q) /\ q.block = x
    BY <1>2, Zenon DEF Adds
  <2>2. Built(b, i, qs \o <<q>>, D)
    BY <2>1, BuiltPush, Zenon
  <2> QED BY <2>1, <2>2, Zenon
<1> QED BY <1>1, <1>2, Zenon

-----------------------------------------------------------------------------
(* BuildQuorum *)

\* The block data of b, and of what is below it, is there.
Seen(b) == b \in Blocks /\ Ancestors(b) \subseteq stored

\* Cached quorums: each is one of its block and, unless it is one of D, has the
\* members of that block's list, and enough of them.
Cached(c, D) ==
  \A b \in DOMAIN c :
    /\ b \in Blocks /\ IsQuorum(c[b]) /\ c[b].block = b
    /\ b \notin D => c[b] = QuorumOf(b) /\ Enough(RightList(b))

\* The quorums that may be wrong when one for x was asked for.
Asked(x) == IF Displaces(x) THEN displaced \cup {x} ELSE displaced

\* The manager finds or rebuilds the list of x if x is on the active chain or
\* the cache has room for it; otherwise it may answer with another one.
LEMMA AskedExact ==
  ASSUME IInv, used["restart"] = 0, NEW x, Seen(x), x \notin DOMAIN quorumCache
  PROVE  LET l == GetListForBlock(mgr, x).list
         IN  IsList(l) /\ (x \notin Asked(x) => l = RightList(x))
<1> DEFINE l == GetListForBlock(mgr, x).list
<1>1. x \in Nodes /\ Ancestors(x) \subseteq stored
  BY BlockHeight, Zenon DEF Seen
<1>2. adrift = {} /\ Ancestors(tip) \subseteq DOMAIN mgr.db
  BY Zenon DEF IInv, SavedInv
<1>3. /\ Genuine(l, adrift)
      /\ Has(mgr, x) => Fits(x, l, adrift)
      /\ /\ Ancestors(x) \subseteq stored
         /\ Cardinality(Above(mgr, x)) < MAX_CACHE_SIZE
         => Fits(x, l, adrift)
  BY <1>1, Lookup, Zenon
<1> HIDE DEF l
<1>4. IsList(l)
  BY <1>3, FitsType, Zenon DEF Genuine
<1>5. ASSUME x \notin Asked(x) PROVE l = RightList(x)
  <2>1. ~Displaces(x)
    BY <1>5, Zenon DEF Asked
  <2>2. x \in Ancestors(tip) \/ Roomy(x)
    BY <2>1, Zenon DEF Displaces
  <2>3. Fits(x, l, adrift)
    <3>1. CASE x \in Ancestors(tip)
      BY <3>1, <1>2, <1>3, Zenon DEF Has
    <3>2. CASE Roomy(x)
      BY <3>2, <1>1, <1>3, Zenon DEF Roomy, Above
    <3> QED BY <2>2, <3>1, <3>2, Zenon
  <2> QED BY <2>3, <1>2, Zenon DEF Fits
<1> QED BY <1>4, <1>5, Zenon DEF l

\* A quorum that was built is cached.
LEMMA CachedPut ==
  ASSUME NEW c, NEW D, Cached(c, D), NEW x \in Blocks, NEW q, IsQuorum(q), q.block = x,
         x \notin D => q = QuorumOf(x) /\ Enough(RightList(x))
  PROVE  Cached(Put(c, x, q), D)
<1> DEFINE m == Put(c, x, q)
<1>1. /\ DOMAIN m = (DOMAIN c) \cup {x}
      /\ \A y \in DOMAIN m : m[y] = IF y = x THEN q ELSE c[y]
  BY Zenon DEF Put
<1> HIDE DEF m
<1>2. ASSUME NEW y \in DOMAIN m
      PROVE  /\ y \in Blocks /\ IsQuorum(m[y]) /\ m[y].block = y
             /\ y \notin D => m[y] = QuorumOf(y) /\ Enough(RightList(y))
  <2>1. CASE y = x
    <3>1. m[y] = q
      BY <2>1, <1>1, Zenon
    <3> QED BY <3>1, <2>1, Zenon
  <2>2. CASE y # x
    <3>1. m[y] = c[y] /\ y \in DOMAIN c
      BY <2>2, <1>1, Zenon
    <3> QED BY <3>1, Zenon DEF Cached
  <2> QED BY <2>1, <2>2, Zenon
<1>3. Cached(m, D)
  BY <1>2, Zenon DEF Cached
<1> QED BY <1>3, Zenon DEF m

\* What is cached stays as good when more quorums may be wrong.
LEMMA CachedStays ==
  ASSUME NEW c, NEW D, NEW E, D \subseteq E, Cached(c, D)
  PROVE  Cached(c, E)
BY Zenon DEF Cached

\* What BuildQuorum for x gives, if the quorums of D may be wrong.
Builds(x, r, D) ==
  /\ Sound(r.s, stored, adrift) /\ Genuine(r.s.tipList, adrift)
  /\ DOMAIN mgr.db \subseteq DOMAIN r.s.db
  /\ Cached(r.cache, D)
  /\ Adds(x, Signing(r.quorum), D)

\* A quorum that is not valid does not sign.
LEMMA SigningOne ==
  ASSUME NEW x, NEW q, IsQuorum(q), q.block = x, NEW D,
         x \notin D => q = QuorumOf(x) /\ Enough(RightList(x))
  PROVE  Adds(x, Signing(<<q>>), D)
<1>1. <<q>> # <<>> /\ <<q>>[1] = q
  OBVIOUS
<1>2. Signing(<<q>>) = IF IsValid(q) THEN <<q>> ELSE <<>>
  BY <1>1, Zenon DEF Signing
<1>3. x \notin D => Signing(<<q>>) = IF Signs(x) THEN <<QuorumOf(x)>> ELSE <<>>
  BY <1>2, Zenon DEF Signs
<1>4. Signing(<<q>>) = <<>> \/ Signing(<<q>>) = <<q>>
  BY <1>2, Zenon
<1> QED BY <1>3, <1>4, Zenon DEF Adds

\* No quorum does not sign either.
LEMMA SigningNone ==
  ASSUME NEW x, NEW D, x \notin D => ~Enough(RightList(x))
  PROVE  Adds(x, Signing(<<>>), D)
<1>1. Signing(<<>>) = <<>>
  BY Zenon DEF Signing
<1> QED BY <1>1, Zenon DEF Adds, Signs

\* BuildQuorum for a block whose data is there.
LEMMA BuildExact ==
  ASSUME IInv, used["restart"] = 0, Cached(quorumCache, displaced), NEW x, Seen(x)
  PROVE  Builds(x, BuildQuorum(x), Asked(x))
<1> DEFINE r == BuildQuorum(x)
           D == Asked(x)
<1>1. displaced \subseteq D /\ Cached(quorumCache, D) /\ x \in Blocks
  <2>1. displaced \subseteq D
    BY Zenon DEF Asked
  <2> QED BY <2>1, CachedStays, Zenon DEF Seen
<1>2. CASE x \in DOMAIN quorumCache
  <2> DEFINE q == quorumCache[x]
  <2>1. r.quorum = <<q>> /\ r.s = mgr /\ r.cache = quorumCache
    BY <1>2, Zenon DEF BuildQuorum
  <2>2. /\ IsQuorum(q) /\ q.block = x
        /\ x \notin D => q = QuorumOf(x) /\ Enough(RightList(x))
    BY <1>1, <1>2, Zenon DEF Cached
  <2>3. Sound(mgr, stored, adrift) /\ Genuine(mgr.tipList, adrift)
    BY Zenon DEF IInv, ManagerInv
  <2> HIDE DEF r, q, D
  <2>4. Adds(x, Signing(r.quorum), D)
    <3>1. Adds(x, Signing(<<q>>), D)
      BY <2>2, SigningOne, Zenon
    <3> QED BY <3>1, <2>1, Zenon
  <2>5. Builds(x, r, D)
    BY <2>1, <2>3, <2>4, <1>1, Zenon DEF Builds
  <2> QED BY <2>5, Zenon DEF r, D
<1>3. CASE x \notin DOMAIN quorumCache
  <2> DEFINE g == GetListForBlock(mgr, x)
             l == g.list
             q == [block |-> x, list |-> l]
  <2>1. IsList(l) /\ (x \notin D => l = RightList(x))
    BY <1>3, AskedExact, Zenon
  <2>2. x \in Nodes
    BY <1>1, BlockHeight, Zenon
  <2>3. /\ Sound(g.s, stored, adrift) /\ Genuine(g.s.tipList, adrift)
        /\ DOMAIN mgr.db \subseteq DOMAIN g.s.db
    BY <2>2, Lookup, Zenon
  <2>4. /\ r.s = g.s
        /\ Enough(l) => r.quorum = <<q>> /\ r.cache = Put(quorumCache, x, q)
        /\ ~Enough(l) => r.quorum = <<>> /\ r.cache = quorumCache
    BY <1>3, Zenon DEF BuildQuorum
  <2> HIDE DEF r, g, l, D
  <2>5. q.block = x /\ q.list = l
    BY Zenon
  <2>6. IsQuorum(q) /\ (x \notin D => q = QuorumOf(x))
    BY <2>1, <2>5, <1>1, Zenon DEF IsQuorum, QuorumOf
  <2> HIDE DEF q
  <2>7. CASE Enough(l)
    <3>1. x \notin D => q = QuorumOf(x) /\ Enough(RightList(x))
      BY <2>1, <2>6, <2>7, Zenon
    <3>2. Cached(Put(quorumCache, x, q), D)
      BY <3>1, <2>5, <2>6, <1>1, CachedPut, Zenon
    <3>3. Adds(x, Signing(<<q>>), D)
      BY <3>1, <2>5, <2>6, SigningOne, Zenon
    <3>4. r.quorum = <<q>> /\ r.cache = Put(quorumCache, x, q)
      BY <2>4, <2>7, Zenon
    <3>5. Cached(r.cache, D) /\ Adds(x, Signing(r.quorum), D)
      BY <3>2, <3>3, <3>4, Zenon
    <3>6. Builds(x, r, D)
      BY <3>5, <2>3, <2>4, Zenon DEF Builds
    <3> QED BY <3>6, Zenon DEF r, D
  <2>8. CASE ~Enough(l)
    <3>1. x \notin D => ~Enough(RightList(x))
      BY <2>1, <2>8, Zenon
    <3>2. Adds(x, Signing(<<>>), D)
      BY <3>1, SigningNone, Zenon
    <3>3. r.quorum = <<>> /\ r.cache = quorumCache
      BY <2>4, <2>8, Zenon
    <3>4. Cached(r.cache, D) /\ Adds(x, Signing(r.quorum), D)
      BY <3>2, <3>3, <1>1, Zenon
    <3>5. Builds(x, r, D)
      BY <3>4, <2>3, <2>4, Zenon DEF Builds
    <3> QED BY <3>5, Zenon DEF r, D
  <2> QED BY <2>7, <2>8, Zenon
<1> QED BY <1>2, <1>3, Zenon

-----------------------------------------------------------------------------
(* The quorum manager: the invariant holds at first and after every step *)

\* A call of UpdatedBlockTip in iteration j.i has the quorums of those before.
Working(j, D) ==
  /\ Seen(j.for)
  /\ j.i \in 1 .. QuorumCount(j.for, 0)
  /\ Built(j.for, j.i - 1, j.newActive, D)

QuorumInv ==
  /\ IInv /\ used["restart"] = 0
  /\ \A b \in pending \cup due : Seen(b)
  /\ displaced \subseteq Blocks
  /\ Cached(quorumCache, displaced)
  /\ activeFor \in Nodes
  /\ Built(activeFor, QuorumCount(activeFor, 0), activeQuorums, displaced)
  /\ job = NoJob \/ Working(job, displaced)

\* The conjuncts of QuorumInv.
LEMMA QuorumFacts ==
  ASSUME QuorumInv
  PROVE  /\ IInv /\ ChainInv /\ used["restart"] = 0
         /\ \A b \in pending \cup due : Seen(b)
         /\ displaced \subseteq Blocks
         /\ Cached(quorumCache, displaced)
         /\ activeFor \in Nodes
         /\ Built(activeFor, QuorumCount(activeFor, 0), activeQuorums, displaced)
         /\ job = NoJob \/ Working(job, displaced)
BY Zenon DEF QuorumInv, IInv

\* A node that has just finished its initial download has built nothing.
LEMMA QuorumInitInv == QuorumInit => QuorumInv
<1> SUFFICES ASSUME QuorumInit PROVE QuorumInv
  BY Zenon
<1>1. /\ Init /\ quorumCache = EmptyMap /\ activeQuorums = <<>> /\ activeFor = Root
      /\ due = {} /\ job = NoJob /\ displaced = {}
  BY Zenon DEF QuorumInit
<1>2. pending = {} /\ used["restart"] = 0
  BY <1>1, Zenon DEF Init
<1>3. IInv
  BY <1>1, InitInv, Zenon
<1>4. Cached(quorumCache, displaced)
  BY <1>1, EmptyDomain, Zenon DEF Cached
<1>5. Built(Root, QuorumCount(Root, 0), <<>>, displaced)
  BY CountRoot, BuiltNone, Zenon
<1>6. Root \in Nodes
  BY Zenon DEF Nodes
<1> QED BY <1>1, <1>2, <1>3, <1>4, <1>5, <1>6, Zenon DEF QuorumInv

\* Data does not go away.
LEMMA SeenStays ==
  ASSUME stored \subseteq stored'
  PROVE  \A b : Seen(b) => Seen(b)'
BY Zenon DEF Seen

\* What is left to show of a step of the validation threads.
LEMMA ChainKeeps ==
  ASSUME QuorumInv, IInv', used'["restart"] = used["restart"], stored \subseteq stored',
         \A b \in pending' : b \in pending \/ Seen(b)',
         UNCHANGED quorumVars
  PROVE  QuorumInv'
<1>1. /\ quorumCache' = quorumCache /\ activeQuorums' = activeQuorums
      /\ activeFor' = activeFor /\ due' = due /\ job' = job /\ displaced' = displaced
  BY Zenon DEF quorumVars
<1>2. \A b \in pending' \cup due' : Seen(b)'
  BY <1>1, QuorumFacts, SeenStays, Zenon
<1>3. Cached(quorumCache', displaced')
  BY <1>1, QuorumFacts, Zenon
<1>4. job' = NoJob \/ Working(job, displaced)'
  <2>1. CASE job = NoJob
    BY <2>1, <1>1, Zenon
  <2>2. CASE Working(job, displaced)
    <3>1. /\ Seen(job.for)
          /\ job.i \in 1 .. QuorumCount(job.for, 0)
          /\ Built(job.for, job.i - 1, job.newActive, displaced)
      BY <2>2, Zenon DEF Working
    <3>2. Seen(job.for)'
      BY <3>1, <1>1, Zenon DEF Seen
    <3> QED BY <3>1, <3>2, <1>1, Zenon DEF Working
  <2> QED BY <2>1, <2>2, QuorumFacts, Zenon
<1>5. /\ used'["restart"] = 0 /\ displaced' \subseteq Blocks /\ activeFor' \in Nodes
      /\ Built(activeFor', QuorumCount(activeFor', 0), activeQuorums', displaced')
  BY <1>1, QuorumFacts, Zenon
<1> QED BY <1>2, <1>3, <1>4, <1>5, Zenon DEF QuorumInv

\* The validation threads.
LEMMA ChainStepInv ==
  ASSUME QuorumInv, ChainStep
  PROVE  QuorumInv'
<1>1. IInv /\ ChainInv /\ UNCHANGED quorumVars
  BY QuorumFacts, Zenon DEF ChainStep
<1>2. ASSUME NEW b \in Blocks, AcceptBlock(b) PROVE QuorumInv'
  <2>1. stored \subseteq stored' /\ pending' = pending /\ used' = used
    BY <1>2, Zenon DEF AcceptBlock
  <2>2. IInv'
    BY <1>1, <1>2, AcceptInv, Zenon
  <2> QED BY <2>1, <2>2, <1>1, ChainKeeps, Zenon
<1>3. ASSUME NEW b \in Blocks, ConnectFails(b) PROVE QuorumInv'
  <2>1. stored' = stored /\ pending' = pending /\ Spend("failure", MaxFailures)
    BY <1>3, Zenon DEF ConnectFails
  <2>2. IInv'
    BY <1>1, <1>3, ConnectFailsInv, Zenon
  <2>3. used'["restart"] = used["restart"]
    <3>1. "failure" \in {"reorg", "restart", "failure"} /\ "failure" # "restart"
      OBVIOUS
    <3> QED BY <3>1, <2>1, <1>1, SpendCounts, Zenon
  <2> QED BY <2>1, <2>2, <2>3, <1>1, ChainKeeps, Zenon
<1>4. ASSUME NEW b \in Blocks, ConnectTip(b) PROVE QuorumInv'
  <2>1. stored' = stored /\ tip' = b /\ pending' = pending \cup {b} /\ used' = used
    BY <1>4, Zenon DEF ConnectTip
  <2>2. IInv'
    BY <1>1, <1>4, ConnectInv, Zenon
  <2>3. Seen(b)'
    <3>1. ChainInv'
      BY <2>2, Zenon DEF IInv
    <3>2. Ancestors(tip') \subseteq stored'
      BY <3>1, Zenon DEF ChainInv
    <3> QED BY <3>2, <2>1, Zenon DEF Seen
  <2>4. \A x \in pending' : x \in pending \/ Seen(x)'
    BY <2>1, <2>3, Zenon
  <2> QED BY <2>1, <2>2, <2>4, <1>1, ChainKeeps, Zenon
<1>5. ASSUME DisconnectTip PROVE QuorumInv'
  <2>1. stored' = stored /\ pending' = pending /\ Spend("reorg", MaxReorgs)
    BY <1>5, Zenon DEF DisconnectTip
  <2>2. IInv'
    BY <1>1, <1>5, DisconnectInv, Zenon
  <2>3. used'["restart"] = used["restart"]
    <3>1. "reorg" \in {"reorg", "restart", "failure"} /\ "reorg" # "restart"
      OBVIOUS
    <3> QED BY <3>1, <2>1, <1>1, SpendCounts, Zenon
  <2> QED BY <2>1, <2>2, <2>3, <1>1, ChainKeeps, Zenon
<1> QED BY <1>2, <1>3, <1>4, <1>5, Zenon DEF ChainStep

\* The list manager's callback makes the quorum manager's due.
LEMMA ListUpdatedInv ==
  ASSUME QuorumInv, NEW b \in Blocks, ListUpdated(b)
  PROVE  QuorumInv'
<1>1. /\ UpdatedBlockTip(b) /\ due' = due \cup {b}
      /\ quorumCache' = quorumCache /\ activeQuorums' = activeQuorums
      /\ activeFor' = activeFor /\ job' = job /\ displaced' = displaced
  BY Zenon DEF ListUpdated
<1>2. /\ b \in pending /\ pending' = pending \ {b} /\ stored' = stored /\ used' = used
  BY <1>1, Zenon DEF UpdatedBlockTip
<1>3. IInv'
  BY <1>1, QuorumFacts, UpdatedInv, Zenon
<1>4. \A x \in pending' \cup due' : Seen(x)'
  <2> SUFFICES ASSUME NEW x \in pending' \cup due' PROVE Seen(x)'
    BY Zenon
  <2>1. Seen(x)
    BY <1>1, <1>2, QuorumFacts, Zenon
  <2> QED BY <2>1, <1>2, Zenon DEF Seen
<1>5. Cached(quorumCache', displaced')
  BY <1>1, QuorumFacts, Zenon
<1>6. job' = NoJob \/ Working(job, displaced)'
  <2>1. job = NoJob \/ Working(job, displaced)
    BY QuorumFacts, Zenon
  <2> QED BY <2>1, <1>1, <1>2, Zenon DEF Working, Seen
<1>7. /\ used'["restart"] = 0 /\ displaced' \subseteq Blocks /\ activeFor' \in Nodes
      /\ Built(activeFor', QuorumCount(activeFor', 0), activeQuorums', displaced')
  BY <1>1, <1>2, QuorumFacts, Zenon
<1> QED BY <1>3, <1>4, <1>5, <1>6, <1>7, Zenon DEF QuorumInv

\* A call that has nothing to build sets no quorums; another begins with the
\* first height, and has none yet.
LEMMA QuorumUpdateInv ==
  ASSUME QuorumInv, NEW b \in Blocks, QuorumUpdate(b)
  PROVE  QuorumInv'
<1>1. /\ b \in due /\ due' = due \ {b} /\ quorumCache' = quorumCache /\ displaced' = displaced
      /\ \/ /\ QuorumCount(b, 0) = 0 /\ activeQuorums' = <<>> /\ activeFor' = b /\ job' = job
         \/ /\ QuorumCount(b, 0) # 0 /\ job' = Job(b, 1, <<>>)
            /\ activeQuorums' = activeQuorums /\ activeFor' = activeFor
  BY Zenon DEF QuorumUpdate
<1>2. /\ mgr' = mgr /\ stored' = stored /\ failed' = failed /\ rejected' = rejected
      /\ tip' = tip /\ flushed' = flushed /\ pending' = pending
      /\ oldVersion' = oldVersion /\ used' = used /\ adrift' = adrift
  BY Zenon DEF QuorumUpdate, vars
<1>3. IInv'
  <2>1. ChainInv /\ ManagerInv /\ SavedInv
    BY QuorumFacts, Zenon DEF IInv
  <2> QED BY <2>1, <1>2, Zenon DEF IInv, ChainInv, ManagerInv, SavedInv
<1>4. \A x : Seen(x) => Seen(x)'
  BY <1>2, Zenon DEF Seen
<1>5. \A x \in pending' \cup due' : Seen(x)'
  BY <1>1, <1>2, <1>4, QuorumFacts, Zenon
<1>6. Cached(quorumCache', displaced')
  BY <1>1, QuorumFacts, Zenon
<1>7. used'["restart"] = 0 /\ displaced' \subseteq Blocks
  BY <1>1, <1>2, QuorumFacts, Zenon
<1>8. b \in Nodes
  BY BlockHeight, Zenon
<1>9. Built(b, 0, <<>>, displaced')
  BY BuiltNone, Zenon
<1>10. CASE QuorumCount(b, 0) = 0
  <2>1. activeQuorums' = <<>> /\ activeFor' = b /\ job' = job
    BY <1>1, <1>10, Zenon
  <2>2. Built(activeFor', QuorumCount(activeFor', 0), activeQuorums', displaced')
    BY <2>1, <1>9, <1>10, Zenon
  <2>3. job' = NoJob \/ Working(job, displaced)'
    <3>1. job = NoJob \/ Working(job, displaced)
      BY QuorumFacts, Zenon
    <3> QED BY <3>1, <2>1, <1>1, <1>2, Zenon DEF Working, Seen
  <2> QED BY <2>1, <2>2, <2>3, <1>3, <1>5, <1>6, <1>7, <1>8, Zenon DEF QuorumInv
<1>11. CASE QuorumCount(b, 0) # 0
  <2>1. job' = Job(b, 1, <<>>) /\ activeQuorums' = activeQuorums /\ activeFor' = activeFor
    BY <1>1, <1>11, Zenon
  <2>2. job'.for = b /\ job'.i = 1 /\ job'.newActive = <<>>
    BY <2>1, Zenon DEF Job
  <2>3. 1 \in 1 .. QuorumCount(b, 0)
    <3> DEFINE a == QuorumCount(b, 0)
    <3>1. a # 0 /\ a \in Nat
      BY <1>8, <1>11, CountRange, Zenon
    <3> HIDE DEF a
    <3>2. 1 \in 1 .. a
      BY <3>1
    <3> QED BY <3>2, Zenon DEF a
  <2>4. 1 - 1 = 0
    OBVIOUS
  <2>5. Seen(b)'
    BY <1>1, <1>4, QuorumFacts, Zenon
  <2>6. Built(b, 1 - 1, <<>>, displaced')
    BY <2>4, <1>9, Zenon
  <2>7. Working(job, displaced)'
    BY <2>2, <2>3, <2>5, <2>6, Zenon DEF Working
  <2>8. /\ activeFor' \in Nodes
        /\ Built(activeFor', QuorumCount(activeFor', 0), activeQuorums', displaced')
    BY <2>1, <1>1, QuorumFacts, Zenon
  <2> QED BY <2>7, <2>8, <1>3, <1>5, <1>6, <1>7, Zenon DEF QuorumInv
<1> QED BY <1>10, <1>11, Zenon

\* An iteration of the loop, on whatever chain is active by now.
LEMMA BuildNextInv ==
  ASSUME QuorumInv, BuildNext
  PROVE  QuorumInv'
<1> DEFINE b == job.for
           i == job.i
           x == QuorumBlock(b, i)
           r == BuildQuorum(x)
           a == QuorumCount(b, 0)
           new == job.newActive \o Signing(r.quorum)
           D == Asked(x)
<1>1. /\ i > 0 /\ quorumCache' = r.cache /\ mgr' = r.s /\ displaced' = D
      /\ \/ /\ i < a /\ job' = Job(b, i + 1, new)
            /\ activeQuorums' = activeQuorums /\ activeFor' = activeFor
         \/ ~(i < a) /\ job' = NoJob /\ activeQuorums' = new /\ activeFor' = b
  BY Zenon DEF BuildNext, Asked
<1>2. /\ UNCHANGED <<stored, failed, rejected, tip, flushed, pending, oldVersion, used, adrift>>
      /\ stored' = stored /\ pending' = pending /\ used' = used /\ due' = due
  BY Zenon DEF BuildNext
<1>3. Working(job, displaced)
  <2>1. NoJob.i = 0 /\ ~(0 > 0)
    BY SMT DEF NoJob, Job
  <2>2. job # NoJob
    BY <2>1, <1>1, Zenon
  <2> QED BY <2>2, QuorumFacts, Zenon
<1>4. Seen(b) /\ i \in 1 .. a /\ Built(b, i - 1, job.newActive, displaced)
  BY <1>3, Zenon DEF Working
<1>5. b \in Blocks /\ b \in Nodes /\ Ancestors(b) \subseteq stored
  BY <1>4, BlockHeight, Zenon DEF Seen
<1>6. i \in Nat \ {0} /\ x \in Ancestors(b) /\ a \in Nat
  BY <1>4, <1>5, Iteration, CountRange, Zenon
<1>7. Seen(x)
  BY <1>5, <1>6, AncestorsClosed, Zenon DEF Seen
<1>8. Builds(x, r, D)
  <2> HIDE DEF x
  <2> QED BY <1>7, BuildExact, QuorumFacts, Zenon
<1>9. displaced \subseteq D /\ D \subseteq Blocks
  <2>1. x \in Blocks /\ displaced \subseteq Blocks
    BY <1>7, QuorumFacts, Zenon DEF Seen
  <2> HIDE DEF x
  <2> QED BY <2>1, Zenon DEF Asked
<1> DEFINE nq == Signing(r.quorum)
<1> HIDE DEF r, D
<1>10. /\ Sound(r.s, stored, adrift) /\ Genuine(r.s.tipList, adrift)
       /\ DOMAIN mgr.db \subseteq DOMAIN r.s.db
       /\ Cached(r.cache, D)
       /\ Adds(x, nq, D)
  <2> HIDE DEF x
  <2> QED BY <1>8, Zenon DEF Builds
<1>11. Built(b, i, new, D)
  <2>1. Built(b, i - 1, job.newActive, D)
    BY <1>4, <1>9, BuiltStays, Zenon
  <2>2. Adds(QuorumBlock(b, i), nq, D)
    BY <1>10, Zenon
  <2> DEFINE qs == job.newActive
  <2> HIDE DEF nq, qs
  <2>3. Built(b, i, qs \o nq, D)
    <3>1. Built(b, i - 1, qs, D)
      BY <2>1, Zenon DEF qs
    <3> HIDE DEF b, i
    <3> QED BY <3>1, <2>2, <1>4, <1>5, BuiltMore, Zenon DEF a
  <2> QED BY <2>3, Zenon DEF qs, nq
<1> HIDE DEF x, new, a
<1>12. IInv'
  BY <1>1, <1>2, <1>10, QuorumFacts, ReadInv, Zenon
<1>13. Cached(quorumCache', displaced') /\ displaced' \subseteq Blocks
  BY <1>1, <1>9, <1>10, Zenon
<1>14. \A y : Seen(y) => Seen(y)'
  BY <1>2, Zenon DEF Seen
<1>15. (\A y \in pending' \cup due' : Seen(y)') /\ used'["restart"] = 0
  BY <1>2, <1>14, QuorumFacts, Zenon
<1>16. CASE i < a
  <2>1. /\ job' = Job(b, i + 1, new)
        /\ activeQuorums' = activeQuorums /\ activeFor' = activeFor
    BY <1>1, <1>16, Zenon
  <2>2. job'.for = b /\ job'.i = i + 1 /\ job'.newActive = new
    BY <2>1, Zenon DEF Job
  <2>3. i + 1 \in 1 .. a /\ (i + 1) - 1 = i
    BY <1>6, <1>16
  <2>4. Built(b, (i + 1) - 1, new, D)
    BY <2>3, <1>11, Zenon
  <2>5. Working(job, displaced)'
    <3>1. Seen(job.for)'
      BY <2>2, <1>4, <1>14, Zenon
    <3>2. job'.i \in 1 .. QuorumCount(job'.for, 0)
      BY <2>2, <2>3, Zenon DEF a
    <3>3. Built(job'.for, job'.i - 1, job'.newActive, displaced')
      BY <2>2, <2>4, <1>1, Zenon
    <3> QED BY <3>1, <3>2, <3>3, Zenon DEF Working
  <2>6. /\ activeFor' \in Nodes
        /\ Built(activeFor', QuorumCount(activeFor', 0), activeQuorums', displaced')
    BY <2>1, <1>1, <1>9, BuiltStays, QuorumFacts, Zenon
  <2> QED BY <2>5, <2>6, <1>12, <1>13, <1>15, Zenon DEF QuorumInv
<1>17. CASE ~(i < a)
  <2>1. job' = NoJob /\ activeQuorums' = new /\ activeFor' = b
    BY <1>1, <1>17, Zenon
  <2>2. i = a
    <3>1. i \in 1 .. a
      BY <1>4, Zenon DEF a
    <3> QED BY <3>1, <1>6, <1>17
  <2>3. Built(activeFor', QuorumCount(activeFor', 0), activeQuorums', displaced')
    BY <2>1, <2>2, <1>1, <1>11, Zenon DEF a
  <2> QED BY <2>1, <2>3, <1>5, <1>12, <1>13, <1>15, Zenon DEF QuorumInv
<1> QED BY <1>16, <1>17, Zenon

\* quorum_members, for a block of the active chain.
LEMMA RpcBuildInv ==
  ASSUME QuorumInv, NEW b \in Blocks, RpcBuild(b)
  PROVE  QuorumInv'
<1> DEFINE r == BuildQuorum(b)
<1>1. /\ b \in Ancestors(tip) /\ mgr' = r.s /\ quorumCache' = r.cache
      /\ activeQuorums' = activeQuorums /\ activeFor' = activeFor /\ due' = due /\ job' = job
      /\ displaced' = displaced
  BY Zenon DEF RpcBuild
<1>2. /\ UNCHANGED <<stored, failed, rejected, tip, flushed, pending, oldVersion, used, adrift>>
      /\ stored' = stored /\ pending' = pending /\ used' = used
  BY Zenon DEF RpcBuild
<1>3. Seen(b) /\ Asked(b) = displaced
  <2>1. tip \in Nodes /\ Ancestors(tip) \subseteq stored
    BY QuorumFacts, Zenon DEF ChainInv
  <2>2. Ancestors(b) \subseteq stored
    BY <2>1, <1>1, AncestorsClosed, Zenon
  <2> QED BY <2>2, <1>1, Zenon DEF Seen, Asked, Displaces
<1>4. Builds(b, r, displaced)
  <2>1. Builds(b, BuildQuorum(b), Asked(b))
    BY <1>3, BuildExact, QuorumFacts, Zenon
  <2> QED BY <2>1, <1>3, Zenon
<1> HIDE DEF r
<1>5. /\ Sound(r.s, stored, adrift) /\ Genuine(r.s.tipList, adrift)
      /\ DOMAIN mgr.db \subseteq DOMAIN r.s.db
      /\ Cached(r.cache, displaced)
  BY <1>4, Zenon DEF Builds
<1>6. IInv'
  BY <1>1, <1>2, <1>5, QuorumFacts, ReadInv, Zenon
<1>7. Cached(quorumCache', displaced') /\ displaced' \subseteq Blocks
  BY <1>1, <1>5, QuorumFacts, Zenon
<1>8. (\A y \in pending' \cup due' : Seen(y)') /\ used'["restart"] = 0
  <2>1. \A y : Seen(y) => Seen(y)'
    BY <1>2, Zenon DEF Seen
  <2> QED BY <2>1, <1>1, <1>2, QuorumFacts, Zenon
<1>9. job' = NoJob \/ Working(job, displaced)'
  <2>1. job = NoJob \/ Working(job, displaced)
    BY QuorumFacts, Zenon
  <2> QED BY <2>1, <1>1, <1>2, Zenon DEF Working, Seen
<1>10. /\ activeFor' \in Nodes
       /\ Built(activeFor', QuorumCount(activeFor', 0), activeQuorums', displaced')
  BY <1>1, QuorumFacts, Zenon
<1> QED BY <1>6, <1>7, <1>8, <1>9, <1>10, Zenon DEF QuorumInv

\* Every step of any thread keeps the invariant.
LEMMA QuorumNextInv == QuorumInv /\ [QuorumNext]_allVars => QuorumInv'
<1> SUFFICES ASSUME QuorumInv, [QuorumNext]_allVars PROVE QuorumInv'
  BY Zenon
<1>1. CASE ChainStep
  BY <1>1, ChainStepInv, Zenon
<1>2. ASSUME NEW b \in Blocks, ListUpdated(b) PROVE QuorumInv'
  BY <1>2, ListUpdatedInv, Zenon
<1>3. ASSUME NEW b \in Blocks, QuorumUpdate(b) PROVE QuorumInv'
  BY <1>3, QuorumUpdateInv, Zenon
<1>4. ASSUME NEW b \in Blocks, RpcBuild(b) PROVE QuorumInv'
  BY <1>4, RpcBuildInv, Zenon
<1>5. CASE BuildNext
  BY <1>5, BuildNextInv, Zenon
<1>6. CASE UNCHANGED allVars
  <2>1. /\ UNCHANGED <<stored, failed, rejected, tip, flushed, pending, oldVersion, used, adrift>>
        /\ stored' = stored /\ pending' = pending /\ used' = used
        /\ mgr' = mgr /\ UNCHANGED quorumVars
    BY <1>6, Zenon DEF allVars, vars
  <2>2. Sound(mgr, stored, adrift) /\ Genuine(mgr.tipList, adrift)
    BY QuorumFacts, Zenon DEF IInv, ManagerInv
  <2>3. IInv'
    BY <2>1, <2>2, QuorumFacts, ReadInv, Zenon
  <2> QED BY <2>1, <2>3, ChainKeeps, Zenon
<1> QED BY <1>1, <1>2, <1>3, <1>4, <1>5, <1>6, Zenon DEF QuorumNext

-----------------------------------------------------------------------------
(* What follows for the quorum manager *)

\* QuorumInv holds in every state of the composition, for every tree, cache
\* size, interval and number of quorums.
THEOREM QuorumInvariance == QuorumSpec => []QuorumInv
BY QuorumInitInv, QuorumNextInv, PTL DEF QuorumSpec

\* CachedQuorumsExact: a quorum that BuildQuorum cached was built from the list
\* of its own block, whichever thread built it and whatever chain was active,
\* unless it was asked for off the active chain with the cache of lists full.
THEOREM CachedQuorumsAreExact == QuorumSpec => []CachedQuorumsExact
<1>1. QuorumInv => CachedQuorumsExact
  <2> SUFFICES ASSUME QuorumInv PROVE CachedQuorumsExact
    BY Zenon
  <2>1. Cached(quorumCache, displaced)
    BY QuorumFacts, Zenon
  <2> QED BY <2>1, Zenon DEF Cached, CachedQuorumsExact
<1> QED BY <1>1, QuorumInvariance, PTL

\* SigningQuorumsExact: UpdatedBlockTip, although its loop runs between the
\* steps of other threads and reuses quorums of earlier chains, leaves in
\* activeQuorums the valid quorums of its block's interval heights, newest
\* first, each from the list of its own block; with the same exception.
THEOREM SigningQuorumsAreExact == QuorumSpec => []SigningQuorumsExact
<1>1. QuorumInv => SigningQuorumsExact
  <2> DEFINE b == activeFor
             n == QuorumCount(b, 0)
             qs == activeQuorums
  <2> SUFFICES ASSUME QuorumInv, QuorumBlocks(b) \cap displaced = {}
               PROVE  Lists(qs, SigningBlocks(b))
    BY Zenon DEF SigningQuorumsExact
  <2>1. Built(b, n, qs, displaced)
    BY QuorumFacts, Zenon
  <2>2. QuorumBlocks(b) = LoopBlocks(b, n)
    BY Zenon DEF QuorumBlocks, LoopBlocks
  <2>3. SigningBlocks(b) = { y \in LoopBlocks(b, n) : Signs(y) }
    BY <2>2, Zenon DEF SigningBlocks, Signs
  <2> HIDE DEF n, qs, b
  <2>4. /\ \A k, l \in DOMAIN qs : k < l => Height(qs[k].block) > Height(qs[l].block)
        /\ LoopBlocks(b, n) \cap displaced = {} =>
             { qs[k] : k \in DOMAIN qs } = { QuorumOf(x) : x \in { y \in LoopBlocks(b, n) : Signs(y) } }
    BY <2>1, Zenon DEF Built
  <2> QED BY <2>2, <2>3, <2>4, Zenon DEF Lists
<1> QED BY <1>1, QuorumInvariance, PTL

\* QuorumTypeOK: quorums, calls and the loop's counter keep their types.
THEOREM QuorumTypeCorrect == QuorumSpec => []QuorumTypeOK
<1>1. QuorumInv => QuorumTypeOK
  <2> SUFFICES ASSUME QuorumInv PROVE QuorumTypeOK
    BY Zenon
  <2>1. TypeOK /\ displaced \subseteq Blocks
    BY QuorumFacts, TypeFollows, Zenon
  <2>2. /\ DOMAIN quorumCache \subseteq Blocks
        /\ \A b \in DOMAIN quorumCache : IsQuorum(quorumCache[b])
    BY QuorumFacts, Zenon DEF Cached
  <2>3. \A i \in DOMAIN activeQuorums : IsQuorum(activeQuorums[i])
    BY QuorumFacts, Zenon DEF Built
  <2>4. activeFor \in Blocks \cup {Root}
    BY QuorumFacts, Zenon DEF Nodes
  <2>5. due \subseteq Blocks
    BY QuorumFacts, Zenon DEF Seen
  <2>6. job.for \in Blocks \cup {Root} /\ job.i \in 0 .. signingActiveQuorumCount
    <3>1. CASE job = NoJob
      <4>1. NoJob.for = Root /\ NoJob.i = 0
        BY Zenon DEF NoJob, Job
      <4>2. 0 \in 0 .. signingActiveQuorumCount
        BY QuorumNumbers
      <4> QED BY <4>1, <4>2, <3>1, Zenon
    <3>2. CASE Working(job, displaced)
      <4> DEFINE a == QuorumCount(job.for, 0)
                 i == job.i
      <4>1. job.for \in Blocks /\ i \in 1 .. a
        BY <3>2, Zenon DEF Working, Seen
      <4>2. a \in 0 .. signingActiveQuorumCount
        BY <4>1, BlockHeight, CountRange, Zenon
      <4>3. signingActiveQuorumCount \in Nat
        BY QuorumNumbers, Zenon
      <4> HIDE DEF a, i
      <4>4. i \in 0 .. signingActiveQuorumCount
        BY <4>1, <4>2, <4>3
      <4> QED BY <4>1, <4>4, Zenon DEF i
    <3> QED BY <3>1, <3>2, QuorumFacts, Zenon
  <2> QED BY <2>1, <2>2, <2>3, <2>4, <2>5, <2>6, Zenon DEF QuorumTypeOK
<1> QED BY <1>1, QuorumInvariance, PTL

=============================================================================
