-------------------------- MODULE ChainStateProofs --------------------------
(***************************************************************************)
(* The coins, for every tree of blocks, every set of outpoints and all     *)
(* valid transactions.                                                     *)
(*                                                                         *)
(* First what the operations of CCoinsViewCache do to the flags and to the *)
(* coins that are seen.  Then what a transaction does to a view, what the  *)
(* loops over the transactions of a block do, and what the replay of an    *)
(* interrupted flush makes of a database in which every coin is that of    *)
(* the old or that of the new tip.  From these the invariants follow, and  *)
(* that the chain state implements UTXOSet.                                *)
(***************************************************************************)
EXTENDS ChainState, BlockTreeProofs

USE SMTT(30)

Views == [Outpoints -> Coins]

-----------------------------------------------------------------------------
(* Caches *)

\* A cache is a function from some of the outpoints to entries.
LEMMA CacheType ==
  ASSUME NEW c \in Caches
  PROVE  /\ DOMAIN c \subseteq Outpoints
         /\ c = [o \in DOMAIN c |-> c[o]]
         /\ \A o \in DOMAIN c : c[o] \in Entries
BY Zenon DEF Caches

\* And conversely.
LEMMA IsCache ==
  ASSUME NEW S \in SUBSET Outpoints, NEW c \in [S -> Entries]
  PROVE  c \in Caches
BY Zenon DEF Caches

\* A cache that is given by its entries.
LEMMA CacheFrom ==
  ASSUME NEW D \in SUBSET Outpoints, NEW c, c = [o \in D |-> c[o]],
         \A o \in D : c[o] \in Entries
  PROVE  c \in Caches /\ DOMAIN c = D
<1>1. c \in [D -> Entries] /\ DOMAIN c = D
  BY Zenon
<1> QED BY <1>1, IsCache, Zenon

\* No entries are a cache.
LEMMA EmptyCache == <<>> \in Caches /\ DOMAIN <<>> = {}
<1>1. <<>> \in [{} -> Entries] /\ DOMAIN <<>> = {}
  OBVIOUS
<1>2. {} \in SUBSET Outpoints
  BY Zenon
<1> QED BY <1>1, <1>2, IsCache, Zenon

\* The fields of an entry.
LEMMA EntryFields ==
  ASSUME NEW coin, NEW dirty \in BOOLEAN, NEW fresh \in BOOLEAN
  PROVE  LET e == Entry(coin, dirty, fresh)
         IN  /\ e.coin = coin /\ e.dirty = dirty /\ e.fresh = fresh
             /\ coin \in Coins => e \in Entries
BY Zenon DEF Entry, Entries

\* A cache without some of its entries is a cache, with the other entries as
\* they were.
LEMMA WithoutType ==
  ASSUME NEW c \in Caches, NEW S
  PROVE  /\ Without(c, S) \in Caches
         /\ DOMAIN Without(c, S) = DOMAIN c \ S
         /\ \A o \in DOMAIN c \ S : Without(c, S)[o] = c[o]
<1>1. Without(c, S) = [o \in DOMAIN c \ S |-> c[o]]
  BY Zenon DEF Without, Restrict
<1>2. [o \in DOMAIN c \ S |-> c[o]] \in [DOMAIN c \ S -> Entries]
  BY CacheType, Zenon
<1>3. DOMAIN c \ S \in SUBSET Outpoints
  BY CacheType, Zenon
<1> QED
  BY <1>1, <1>2, <1>3, IsCache, Zenon

\* Through a cache, coins are seen at all outpoints.
LEMMA SeenType ==
  ASSUME NEW c \in Caches, NEW below \in Views
  PROVE  /\ Seen(c, below) \in Views
         /\ \A o \in Outpoints : Seen(c, below)[o] = IF o \in DOMAIN c THEN c[o].coin ELSE below[o]
<1>1. \A o \in DOMAIN c : c[o].coin \in Coins
  BY CacheType, Zenon DEF Entries
<1> QED BY <1>1, Zenon DEF Seen, Views

\* Two views are equal that have the same coins.
LEMMA SameView ==
  ASSUME NEW u \in Views, NEW w \in Views, \A o \in Outpoints : u[o] = w[o]
  PROVE  u = w
BY DEF Views

\* The entries after FetchCoin.
LEMMA FetchCoinType ==
  ASSUME NEW c \in Caches, NEW below \in Views, NEW S \in SUBSET Outpoints
  PROVE  LET d == FetchCoin(c, below, S)
         IN  /\ d \in Caches
             /\ DOMAIN d = DOMAIN c \cup { p \in S : below[p] # Spent }
             /\ \A o \in DOMAIN c : d[o] = c[o]
             /\ \A o \in DOMAIN d \ DOMAIN c :
                  d[o].coin = below[o] /\ d[o].dirty = FALSE /\ d[o].fresh = FALSE
<1> DEFINE d   == FetchCoin(c, below, S)
           new == { p \in S : below[p] # Spent }
<1>1. d = [o \in DOMAIN c \cup new |->
             IF o \in DOMAIN c THEN c[o] ELSE Entry(below[o], FALSE, FALSE)]
  BY Zenon DEF FetchCoin
<1>2. new \subseteq Outpoints /\ DOMAIN c \subseteq Outpoints
  BY CacheType, Zenon
<1> HIDE DEF d, new
<1>3. /\ DOMAIN d = DOMAIN c \cup new
      /\ \A o \in DOMAIN c : d[o] = c[o]
      /\ \A o \in DOMAIN d \ DOMAIN c : o \in new /\ d[o] = Entry(below[o], FALSE, FALSE)
      /\ d = [o \in DOMAIN c \cup new |-> d[o]]
  BY <1>1, Zenon
<1>4. \A o \in DOMAIN d \ DOMAIN c :
        d[o].coin = below[o] /\ d[o].dirty = FALSE /\ d[o].fresh = FALSE /\ d[o] \in Entries
  <2> SUFFICES ASSUME NEW o \in DOMAIN d \ DOMAIN c
               PROVE  d[o].coin = below[o] /\ d[o].dirty = FALSE /\ d[o].fresh = FALSE
                      /\ d[o] \in Entries
    BY Zenon
  <2>1. below[o] \in Coins
    BY <1>2, <1>3, Zenon DEF Views
  <2>2. d[o] = Entry(below[o], FALSE, FALSE)
    BY <1>3, Zenon
  <2>3. LET e == Entry(below[o], FALSE, FALSE)
        IN  e.coin = below[o] /\ e.dirty = FALSE /\ e.fresh = FALSE /\ e \in Entries
    BY <2>1, EntryFields, Zenon
  <2> QED BY <2>2, <2>3, Zenon
<1>5. \A o \in DOMAIN c \cup new : d[o] \in Entries
  BY <1>3, <1>4, CacheType, Zenon
<1>6. DOMAIN c \cup new \in SUBSET Outpoints
  BY <1>2, Zenon
<1>7. d \in Caches
  BY <1>3, <1>5, <1>6, CacheFrom, Zenon
<1> QED BY <1>3, <1>4, <1>7, Zenon DEF d, new

\* FetchCoin changes neither what is seen nor the soundness of the flags, and
\* afterwards an outpoint has an entry unless there is no coin below.
THEOREM FetchCoinSound ==
  ASSUME NEW c \in Caches, NEW below \in Views, NEW S \in SUBSET Outpoints, Sound(c, below)
  PROVE  LET d == FetchCoin(c, below, S)
         IN  /\ d \in Caches /\ Sound(d, below) /\ Seen(d, below) = Seen(c, below)
             /\ DOMAIN c \subseteq DOMAIN d
             /\ \A o \in S : o \in DOMAIN d \/ below[o] = Spent
<1> DEFINE d == FetchCoin(c, below, S)
<1>1. /\ d \in Caches
      /\ DOMAIN d = DOMAIN c \cup { p \in S : below[p] # Spent }
      /\ \A o \in DOMAIN c : d[o] = c[o]
      /\ \A o \in DOMAIN d \ DOMAIN c :
           d[o].coin = below[o] /\ d[o].dirty = FALSE /\ d[o].fresh = FALSE
  BY FetchCoinType, Zenon
<1> HIDE DEF d
<1>2. Sound(d, below)
  BY <1>1, Zenon DEF Sound
<1>3. Seen(d, below) = Seen(c, below)
  BY <1>1, Zenon DEF Seen
<1>4. \A o \in S : o \in DOMAIN d \/ below[o] = Spent
  BY <1>1, Zenon
<1>5. DOMAIN c \subseteq DOMAIN d
  BY <1>1, Zenon
<1> QED BY <1>1, <1>2, <1>3, <1>4, <1>5, Zenon DEF d

\* View v with the coins of a function on some of the outpoints instead.
With(v, coins) == [o \in Outpoints |-> IF o \in DOMAIN coins THEN coins[o] ELSE v[o]]

\* View v without the coins of S.
Less(v, S) == [o \in Outpoints |-> IF o \in S THEN Spent ELSE v[o]]

\* The coins of v at S.
CoinsAt(v, S) == [o \in S |-> v[o]]

\* View v has no coin at S, or a coin everywhere there.
NoneAt(v, S) == \A o \in S : v[o] = Spent
AllAt(v, S)  == \A o \in S : v[o] # Spent

\* Coins of some of the outpoints: what a transaction creates, or has spent.
SomeCoins == UNION { [S -> Coins] : S \in SUBSET Outpoints }

\* They are a function on some of the outpoints.
LEMMA SomeCoinsType ==
  ASSUME NEW coins \in SomeCoins
  PROVE  DOMAIN coins \in SUBSET Outpoints /\ \A o \in DOMAIN coins : coins[o] \in Coins
BY Zenon DEF SomeCoins

\* The entries after AddCoin.
LEMMA AddCoinType ==
  ASSUME NEW c \in Caches, NEW coins \in SomeCoins, NEW S
  PROVE  LET d == AddCoin(c, coins, S)
         IN  /\ d \in Caches
             /\ DOMAIN d = DOMAIN c \cup DOMAIN coins
             /\ \A o \in DOMAIN c \ DOMAIN coins : d[o] = c[o]
             /\ \A o \in DOMAIN coins :
                  /\ d[o].coin = coins[o] /\ d[o].dirty = TRUE
                  /\ d[o].fresh => \/ o \in DOMAIN c /\ c[o].fresh
                                   \/ o \in DOMAIN c /\ o \notin S /\ ~c[o].dirty
                                   \/ o \notin DOMAIN c /\ o \notin S
<1> DEFINE d == AddCoin(c, coins, S)
           old(o) == IF o \in DOMAIN c THEN c[o] ELSE Entry(Spent, FALSE, FALSE)
           f(o) == old(o).fresh \/ (o \notin S /\ ~old(o).dirty)
<1>1. d = [o \in DOMAIN c \cup DOMAIN coins |->
             IF o \in DOMAIN coins THEN Entry(coins[o], TRUE, f(o)) ELSE c[o]]
  BY Zenon DEF AddCoin
<1>2. \A o : f(o) \in BOOLEAN
  BY Zenon
<1>3. \A o : f(o) => \/ o \in DOMAIN c /\ c[o].fresh
                     \/ o \in DOMAIN c /\ o \notin S /\ ~c[o].dirty
                     \/ o \notin DOMAIN c /\ o \notin S
  <2>1. Entry(Spent, FALSE, FALSE).fresh = FALSE
    BY EntryFields, Zenon
  <2> QED BY <2>1, Zenon
<1> HIDE DEF d, f
<1>4. /\ DOMAIN d = DOMAIN c \cup DOMAIN coins
      /\ \A o \in DOMAIN c \ DOMAIN coins : d[o] = c[o]
      /\ \A o \in DOMAIN coins : d[o] = Entry(coins[o], TRUE, f(o))
      /\ d = [o \in DOMAIN c \cup DOMAIN coins |-> d[o]]
  BY <1>1, Zenon
<1>5. \A o \in DOMAIN coins :
        d[o].coin = coins[o] /\ d[o].dirty = TRUE /\ d[o].fresh = f(o) /\ d[o] \in Entries
  <2> SUFFICES ASSUME NEW o \in DOMAIN coins
               PROVE  d[o].coin = coins[o] /\ d[o].dirty = TRUE /\ d[o].fresh = f(o)
                      /\ d[o] \in Entries
    BY Zenon
  <2>1. coins[o] \in Coins
    BY SomeCoinsType, Zenon
  <2>2. d[o] = Entry(coins[o], TRUE, f(o))
    BY <1>4, Zenon
  <2>3. LET e == Entry(coins[o], TRUE, f(o))
        IN  e.coin = coins[o] /\ e.dirty = TRUE /\ e.fresh = f(o) /\ e \in Entries
    <3>1. \A g \in BOOLEAN : LET e == Entry(coins[o], TRUE, g)
                             IN  /\ e.coin = coins[o] /\ e.dirty = TRUE /\ e.fresh = g
                                 /\ e \in Entries
      BY <2>1, EntryFields, Zenon
    <3> QED BY <1>2, <3>1, Zenon
  <2> QED BY <2>2, <2>3, Zenon
<1>6. \A o \in DOMAIN c \cup DOMAIN coins : d[o] \in Entries
  BY <1>4, <1>5, CacheType, Zenon
<1>7. DOMAIN c \cup DOMAIN coins \in SUBSET Outpoints
  BY CacheType, SomeCoinsType, Zenon
<1>8. d \in Caches
  BY <1>4, <1>6, <1>7, CacheFrom, Zenon
<1> QED BY <1>3, <1>4, <1>5, <1>8, Zenon DEF d

\* AddCoin, for a caller that says so when there may be a coin already (as
\* AddCoins does for a coinbase, and ApplyTxInUndo and RollforwardBlock once
\* they have looked): it does not throw, the flags stay sound, whatever a
\* reorganisation has done to the outpoints before, and the coins are there.
THEOREM AddCoinSound ==
  ASSUME NEW c \in Caches, NEW below \in Views, Sound(c, below),
         NEW coins \in SomeCoins, NEW possible_overwrite,
         NoneAt(Seen(c, below), DOMAIN coins \ possible_overwrite)
  PROVE  LET d == AddCoin(c, coins, possible_overwrite)
         IN  /\ ~AddThrows(c, coins, possible_overwrite)
             /\ d \in Caches /\ Sound(d, below)
             /\ Seen(d, below) = With(Seen(c, below), coins)
<1> DEFINE d == AddCoin(c, coins, possible_overwrite)
<1>1. \A o \in Outpoints : Seen(c, below)[o] = IF o \in DOMAIN c THEN c[o].coin ELSE below[o]
  BY SeenType, Zenon
<1>2. DOMAIN c \subseteq Outpoints /\ DOMAIN coins \subseteq Outpoints
  BY CacheType, SomeCoinsType, Zenon
<1>3. ~AddThrows(c, coins, possible_overwrite)
  BY <1>1, <1>2, Zenon DEF AddThrows, NoneAt
<1>4. /\ d \in Caches
      /\ DOMAIN d = DOMAIN c \cup DOMAIN coins
      /\ \A o \in DOMAIN c \ DOMAIN coins : d[o] = c[o]
      /\ \A o \in DOMAIN coins :
           /\ d[o].coin = coins[o] /\ d[o].dirty = TRUE
           /\ d[o].fresh => \/ o \in DOMAIN c /\ c[o].fresh
                            \/ o \in DOMAIN c /\ o \notin possible_overwrite /\ ~c[o].dirty
                            \/ o \notin DOMAIN c /\ o \notin possible_overwrite
  BY AddCoinType, Zenon
<1> HIDE DEF d
<1>5. \A o \in DOMAIN coins : d[o].fresh => below[o] = Spent
  <2> SUFFICES ASSUME NEW o \in DOMAIN coins, d[o].fresh
               PROVE  below[o] = Spent
    BY Zenon
  <2>1. CASE o \in DOMAIN c /\ c[o].fresh
    BY <2>1, Zenon DEF Sound
  <2>2. CASE o \in DOMAIN c /\ o \notin possible_overwrite /\ ~c[o].dirty
    <3>1. c[o].coin = below[o]
      BY <2>2, Zenon DEF Sound
    <3>2. c[o].coin = Spent
      BY <2>2, <1>1, <1>2, Zenon DEF NoneAt
    <3> QED BY <3>1, <3>2, Zenon
  <2>3. CASE o \notin DOMAIN c /\ o \notin possible_overwrite
    BY <2>3, <1>1, <1>2, Zenon DEF NoneAt
  <2> QED BY <1>4, <2>1, <2>2, <2>3, Zenon
<1>6. Sound(d, below)
  BY <1>4, <1>5, Zenon DEF Sound
<1>7. Seen(d, below) = With(Seen(c, below), coins)
  BY <1>4, Zenon DEF Seen, With
<1> QED BY <1>3, <1>4, <1>6, <1>7, Zenon DEF d

\* The entries after SpendCoin.
SpentEntries(d, c, S) ==
  /\ \A o : o \in DOMAIN d <=> o \in DOMAIN c /\ ~(o \in S /\ c[o].fresh)
  /\ \A o \in DOMAIN d \ S : d[o] = c[o]
  /\ \A o \in DOMAIN d \cap S :
       d[o].coin = Spent /\ d[o].dirty = TRUE /\ d[o].fresh = FALSE

\* SpendCoin makes a cache of a cache.
LEMMA SpendCoinType ==
  ASSUME NEW c \in Caches, NEW S
  PROVE  SpendCoin(c, S) \in Caches /\ SpentEntries(SpendCoin(c, S), c, S)
<1> DEFINE d    == SpendCoin(c, S)
           gone == { p \in S \cap DOMAIN c : c[p].fresh }
<1>1. d = [o \in DOMAIN c \ gone |-> IF o \in S THEN Entry(Spent, TRUE, FALSE) ELSE c[o]]
  BY Zenon DEF SpendCoin
<1> HIDE DEF d, gone
<1>2. /\ DOMAIN d = DOMAIN c \ gone
      /\ \A o \in DOMAIN d \ S : d[o] = c[o]
      /\ \A o \in DOMAIN d \cap S : d[o] = Entry(Spent, TRUE, FALSE)
      /\ d = [o \in DOMAIN c \ gone |-> d[o]]
  BY <1>1, Zenon
<1>3. LET e == Entry(Spent, TRUE, FALSE)
      IN  e.coin = Spent /\ e.dirty = TRUE /\ e.fresh = FALSE /\ e \in Entries
  BY EntryFields, Zenon DEF Coins
<1>4. \A o \in DOMAIN c \ gone : d[o] \in Entries
  BY <1>2, <1>3, CacheType, Zenon
<1>5. DOMAIN c \ gone \in SUBSET Outpoints
  BY CacheType, Zenon
<1>6. d \in Caches
  BY <1>2, <1>4, <1>5, CacheFrom, Zenon
<1>7. SpentEntries(d, c, S)
  BY <1>2, <1>3, Zenon DEF SpentEntries, gone
<1> QED BY <1>6, <1>7, Zenon DEF d

\* SpendCoin, once FetchCoin was tried: the flags stay sound and the coins are
\* gone, also when an entry was dropped because the view below never had it.
THEOREM SpendCoinSound ==
  ASSUME NEW c \in Caches, NEW below \in Views, Sound(c, below), NEW S,
         \A o \in S : o \in DOMAIN c \/ below[o] = Spent
  PROVE  LET d == SpendCoin(c, S)
         IN  /\ d \in Caches /\ Sound(d, below)
             /\ Seen(d, below) = Less(Seen(c, below), S)
<1> DEFINE d == SpendCoin(c, S)
<1>0. d \in Caches /\ SpentEntries(d, c, S)
  BY SpendCoinType, Zenon
<1> HIDE DEF d
<1>1. /\ \A o : o \in DOMAIN d <=> o \in DOMAIN c /\ ~(o \in S /\ c[o].fresh)
      /\ \A o \in DOMAIN d \ S : d[o] = c[o]
      /\ \A o \in DOMAIN d \cap S :
           d[o].coin = Spent /\ d[o].dirty = TRUE /\ d[o].fresh = FALSE
  BY <1>0, Zenon DEF SpentEntries
<1>2. Sound(d, below)
  BY <1>1, Zenon DEF Sound
<1>3. ASSUME NEW o \in Outpoints
      PROVE  (IF o \in DOMAIN d THEN d[o].coin ELSE below[o])
               = IF o \in S THEN Spent ELSE IF o \in DOMAIN c THEN c[o].coin ELSE below[o]
  <2>1. CASE o \notin S
    BY <2>1, <1>1, Zenon
  <2>2. CASE o \in S /\ o \in DOMAIN d
    BY <2>2, <1>1, Zenon
  <2>3. CASE o \in S /\ o \notin DOMAIN d
    <3>1. below[o] = Spent
      BY <2>3, <1>1, Zenon DEF Sound
    <3> QED BY <2>3, <3>1, Zenon
  <2> QED BY <2>1, <2>2, <2>3, Zenon
<1>4. Seen(d, below) = Less(Seen(c, below), S)
  BY <1>3, Zenon DEF Seen, Less
<1> QED BY <1>0, <1>2, <1>4, Zenon DEF d

\* Uncache, at any time, is invisible: it drops only what the view below has.
THEOREM UncacheSound ==
  ASSUME NEW c \in Caches, NEW below \in Views, NEW o \in Outpoints, Sound(c, below)
  PROVE  LET d == Uncache(c, o)
         IN  d \in Caches /\ Sound(d, below) /\ Seen(d, below) = Seen(c, below)
<1>1. CASE o \in DOMAIN c /\ ~c[o].dirty /\ ~c[o].fresh
  <2>1. PICK d : d = Without(c, {o})
    BY Zenon
  <2>2. d \in Caches /\ DOMAIN d = DOMAIN c \ {o} /\ \A p \in DOMAIN c \ {o} : d[p] = c[p]
    BY <2>1, WithoutType, Zenon
  <2>3. Uncache(c, o) = d
    BY <1>1, <2>1, Zenon DEF Uncache
  <2>4. c[o].coin = below[o]
    BY <1>1, Zenon DEF Sound
  <2>5. Sound(d, below)
    BY <2>2, Zenon DEF Sound
  <2>6. Seen(d, below) = Seen(c, below)
    BY <2>2, <2>4, Zenon DEF Seen
  <2> QED
    BY <2>2, <2>3, <2>5, <2>6, Zenon
<1>2. CASE ~(o \in DOMAIN c /\ ~c[o].dirty /\ ~c[o].fresh)
  <2>1. Uncache(c, o) = c
    BY <1>2, Zenon DEF Uncache
  <2> QED
    BY <2>1, Zenon
<1> QED
  BY <1>1, <1>2, Zenon

\* A batch of CCoinsViewDB::BatchWrite, with any of the entries: the coins that
\* are seen through what is left of the cache are the same, and its flags are
\* right for the database as it is now, so that a flush may be resumed.
THEOREM WriteCoinsSound ==
  ASSUME NEW c \in Caches, NEW coins \in Views, Sound(c, coins), NEW S \in SUBSET DOMAIN c
  PROVE  /\ WriteCoins(coins, c, S) \in Views
         /\ Sound(Without(c, S), WriteCoins(coins, c, S))
         /\ Seen(Without(c, S), WriteCoins(coins, c, S)) = Seen(c, coins)
<1>1. PICK d : d = Without(c, S)
  BY Zenon
<1>2. d \in Caches /\ DOMAIN d = DOMAIN c \ S /\ \A p \in DOMAIN c \ S : d[p] = c[p]
  BY <1>1, WithoutType, Zenon
<1>3. PICK w : w = WriteCoins(coins, c, S)
  BY Zenon
<1>4. w = [o \in Outpoints |-> IF o \in S /\ c[o].dirty THEN c[o].coin ELSE coins[o]]
  BY <1>3, Zenon DEF WriteCoins
<1>5. DOMAIN c \subseteq Outpoints /\ \A o \in DOMAIN c : c[o].coin \in Coins
  BY CacheType, Zenon DEF Entries
<1>6. w \in Views
  BY <1>4, <1>5, Zenon DEF Views
<1>7. Sound(d, w)
  <2>1. \A o \in DOMAIN d : w[o] = coins[o] /\ d[o] = c[o] /\ o \in DOMAIN c
    BY <1>2, <1>4, <1>5, Zenon
  <2> QED
    BY <2>1, Zenon DEF Sound
<1>8. Seen(d, w) = Seen(c, coins)
  <2>1. \A o \in S : w[o] = c[o].coin
    BY <1>4, <1>5, Zenon DEF Sound
  <2>2. \A o \in Outpoints \ S : w[o] = coins[o]
    BY <1>4, Zenon
  <2> QED
    BY <1>2, <2>1, <2>2, Zenon DEF Seen
<1> QED
  BY <1>1, <1>3, <1>6, <1>7, <1>8, Zenon

\* The last batch: the database has the coins that were seen through the cache.
THEOREM FlushExact ==
  ASSUME NEW c \in Caches, NEW coins \in Views, Sound(c, coins)
  PROVE  WriteCoins(coins, c, DOMAIN c) = Seen(c, coins)
BY CacheType, Zenon DEF WriteCoins, Seen, Sound

\* Flush of one cache into another, as at the end of ConnectTip and of
\* DisconnectTip: the exception of BatchWrite is never thrown, the flags of the
\* parent stay sound, and through it the coins are seen that were seen through
\* the child.
THEOREM BatchWriteSound ==
  ASSUME NEW c \in Caches, NEW child \in Caches, NEW below \in Views,
         Sound(c, below), Sound(child, Seen(c, below))
  PROVE  /\ ~BatchThrows(c, child)
         /\ BatchWrite(c, child) \in Caches
         /\ Sound(BatchWrite(c, child), below)
         /\ Seen(BatchWrite(c, child), below) = Seen(child, Seen(c, below))
<1> DEFINE dirty   == { o \in DOMAIN child : child[o].dirty }
           fresh(o) == IF o \in DOMAIN c THEN c[o].fresh ELSE child[o].fresh
           dropped == { o \in dirty : child[o].coin = Spent /\ fresh(o) }
<1>1. DOMAIN c \subseteq Outpoints /\ DOMAIN child \subseteq Outpoints
  BY CacheType, Zenon
<1>2. \A o \in DOMAIN c : c[o] \in Entries
  BY CacheType, Zenon
<1>3. \A o \in DOMAIN child : child[o] \in Entries
  BY CacheType, Zenon
<1>4. \A o \in DOMAIN child :
        /\ o \in DOMAIN c => Seen(c, below)[o] = c[o].coin
        /\ o \notin DOMAIN c => Seen(c, below)[o] = below[o]
  BY <1>1, Zenon DEF Seen
<1>5. \A o \in DOMAIN child : ~child[o].dirty => child[o].coin = Seen(c, below)[o]
  BY Zenon DEF Sound
<1>6. \A o \in DOMAIN child : child[o].fresh => Seen(c, below)[o] = Spent
  BY Zenon DEF Sound
<1>7. \A o \in DOMAIN c : c[o].fresh => below[o] = Spent
  BY Zenon DEF Sound
<1>8. \A o \in DOMAIN c : ~c[o].dirty => c[o].coin = below[o]
  BY Zenon DEF Sound
<1>9. ~BatchThrows(c, child)
  BY <1>4, <1>6, Zenon DEF BatchThrows
<1>10. \A o \in DOMAIN child : fresh(o) => below[o] = Spent
  BY <1>4, <1>6, <1>7, Zenon
<1>11. PICK w : w = BatchWrite(c, child)
  BY Zenon
<1>12. w = [o \in (DOMAIN c \cup dirty) \ dropped |->
              IF o \in dirty THEN Entry(child[o].coin, TRUE, fresh(o)) ELSE c[o]]
  BY <1>11, Zenon DEF BatchWrite
<1>13. DOMAIN w = (DOMAIN c \cup dirty) \ dropped
  BY <1>12, Zenon
<1>14. \A o \in DOMAIN w \cap dirty : w[o] = Entry(child[o].coin, TRUE, fresh(o))
  <2> HIDE DEF dirty, fresh, dropped
  <2> QED
    BY <1>12, <1>13, Zenon
<1>15. \A o \in DOMAIN w \ dirty : w[o] = c[o] /\ o \in DOMAIN c
  <2> HIDE DEF dirty, fresh, dropped
  <2> QED
    BY <1>12, <1>13, Zenon
<1>16. \A o \in DOMAIN w \cap dirty :
         /\ w[o] \in Entries
         /\ w[o].coin = child[o].coin
         /\ w[o].dirty
         /\ w[o].fresh => below[o] = Spent
  <2> SUFFICES ASSUME NEW o \in DOMAIN w \cap dirty
               PROVE  /\ w[o] \in Entries
                      /\ w[o].coin = child[o].coin
                      /\ w[o].dirty
                      /\ w[o].fresh => below[o] = Spent
    BY Zenon
  <2>1. PICK f : f = fresh(o)
    BY Zenon
  <2>2. f \in BOOLEAN
    BY <2>1, <1>2, <1>3, Zenon DEF Entries
  <2>3. w[o] = [coin |-> child[o].coin, dirty |-> TRUE, fresh |-> f]
    BY <1>14, <2>1, Zenon DEF Entry
  <2>4. child[o].coin \in Coins
    BY <1>3, Zenon DEF Entries
  <2>5. w[o] \in Entries
    BY <2>2, <2>3, <2>4 DEF Entries
  <2>6. w[o].coin = child[o].coin /\ w[o].dirty /\ w[o].fresh = f
    BY <2>2, <2>3
  <2>7. f => below[o] = Spent
    BY <2>1, <1>10, Zenon
  <2> QED
    BY <2>2, <2>5, <2>6, <2>7, Zenon
<1>17. w \in Caches
  <2>1. \A o \in DOMAIN w : w[o] \in Entries
    BY <1>15, <1>16, <1>2, Zenon
  <2>2. DOMAIN w \in SUBSET Outpoints
    BY <1>1, <1>13, Zenon
  <2>3. w = [o \in DOMAIN w |-> w[o]]
    <3> HIDE DEF dirty, fresh, dropped
    <3> QED
      BY <1>12, Zenon
  <2>4. w \in [DOMAIN w -> Entries]
    BY <2>1, <2>3, Zenon
  <2> QED
    BY <2>2, <2>4, IsCache, Zenon
<1>18. Sound(w, below)
  <2> HIDE DEF dirty
  <2> QED
    BY <1>7, <1>8, <1>15, <1>16, Zenon DEF Sound
<1>19. Seen(w, below) = Seen(child, Seen(c, below))
  <2> SUFFICES ASSUME NEW o \in Outpoints
               PROVE  Seen(w, below)[o] = Seen(child, Seen(c, below))[o]
    BY Zenon DEF Seen
  <2>1. Seen(w, below)[o] = IF o \in DOMAIN w THEN w[o].coin ELSE below[o]
    BY Zenon DEF Seen
  <2>2. Seen(child, Seen(c, below))[o]
          = IF o \in DOMAIN child THEN child[o].coin
            ELSE IF o \in DOMAIN c THEN c[o].coin ELSE below[o]
    BY Zenon DEF Seen
  <2>3. CASE o \in dropped
    BY <2>1, <2>2, <2>3, <1>10, <1>13, Zenon
  <2>4. CASE o \in dirty \ dropped
    BY <2>1, <2>2, <2>4, <1>13, <1>16, Zenon
  <2>5. CASE o \notin dirty
    <3>1. o \in DOMAIN w <=> o \in DOMAIN c
      BY <2>5, <1>13, Zenon
    <3>2. o \in DOMAIN c => w[o].coin = c[o].coin
      BY <3>1, <2>5, <1>15, Zenon
    <3>3. o \in DOMAIN child => child[o].coin = IF o \in DOMAIN c THEN c[o].coin ELSE below[o]
      BY <2>5, <1>4, <1>5, Zenon
    <3> QED
      BY <2>1, <2>2, <3>1, <3>2, <3>3
  <2> QED
    BY <2>3, <2>4, <2>5, Zenon
<1> QED
  BY <1>9, <1>11, <1>17, <1>18, <1>19, Zenon

-----------------------------------------------------------------------------
(* Views *)

Faults == {"none", "replaces non-pruned entry", "inputs missing", "no undo data"}

\* The views that a block is applied to.
ViewSet == [own : Caches, base : Caches, undo : Seq(SomeCoins), clean : BOOLEAN, fault : Faults]

\* Two caches, with the undo data so far, are a view.
LEMMA LayersType ==
  ASSUME NEW own \in Caches, NEW base \in Caches, NEW spent \in Seq(SomeCoins),
         NEW clean \in BOOLEAN, NEW failure \in Faults
  PROVE  Layers(own, base, spent, clean, failure) \in ViewSet
BY Zenon DEF Layers, ViewSet

\* And the types of its fields.
LEMMA ViewFields ==
  ASSUME NEW v \in ViewSet
  PROVE  /\ v.own \in Caches /\ v.base \in Caches /\ v.undo \in Seq(SomeCoins)
         /\ v.clean \in BOOLEAN /\ v.fault \in Faults
BY Zenon DEF ViewSet

\* The first fault of two is one of them, and none if nothing is wrong.
LEMMA FirstFaultType ==
  ASSUME NEW failure \in Faults, NEW bad, NEW name \in Faults
  PROVE  /\ FirstFault(failure, bad, name) \in Faults
         /\ ~bad => FirstFault(failure, bad, name) = failure
BY Zenon DEF FirstFault

\* Fetched coins are a change of the caches only.
LEMMA FetchType ==
  ASSUME db.coins \in Views, NEW v \in ViewSet, NEW S \in SUBSET Outpoints
  PROVE  Fetch(v, S) \in ViewSet
<1> DEFINE missed == S \ DOMAIN v.own
           b == FetchCoin(v.base, db.coins, missed)
           c == FetchCoin(v.own, Seen(b, db.coins), missed)
<1>1. missed \in SUBSET Outpoints
  BY Zenon
<1>2. Fetch(v, S) = Layers(c, b, v.undo, v.clean, v.fault)
  BY Zenon DEF Fetch
<1> HIDE DEF missed
<1>3. b \in Caches
  BY <1>1, ViewFields, FetchCoinType, Zenon
<1> HIDE DEF b
<1>4. Seen(b, db.coins) \in Views
  BY <1>3, SeenType, Zenon
<1>5. c \in Caches
  BY <1>1, <1>4, ViewFields, FetchCoinType, Zenon
<1> HIDE DEF c
<1>6. v.undo \in Seq(SomeCoins) /\ v.clean \in BOOLEAN /\ v.fault \in Faults
  BY ViewFields, Zenon
<1> QED BY <1>2, <1>3, <1>5, <1>6, LayersType, Zenon

\* So are spent ones.
LEMMA SpendType ==
  ASSUME db.coins \in Views, NEW v \in ViewSet, NEW S \in SUBSET Outpoints
  PROVE  Spend(v, S) \in ViewSet
<1> DEFINE w == Fetch(v, S)
           c == SpendCoin(w.own, S)
<1>1. w \in ViewSet
  BY FetchType, Zenon
<1>2. Spend(v, S) = Layers(c, w.base, w.undo, w.clean, w.fault)
  BY Zenon DEF Spend
<1> HIDE DEF w
<1>3. c \in Caches
  BY <1>1, ViewFields, SpendCoinType, Zenon
<1> HIDE DEF c
<1>4. /\ w.base \in Caches /\ w.undo \in Seq(SomeCoins)
      /\ w.clean \in BOOLEAN /\ w.fault \in Faults
  BY <1>1, ViewFields, Zenon
<1> QED BY <1>2, <1>3, <1>4, LayersType, Zenon

\* So are added ones, but for the exception.
LEMMA AddType ==
  ASSUME NEW v \in ViewSet, NEW coins \in SomeCoins, NEW S
  PROVE  Add(v, coins, S) \in ViewSet
<1> DEFINE c == AddCoin(v.own, coins, S)
           f == FirstFault(v.fault, AddThrows(v.own, coins, S), "replaces non-pruned entry")
<1>1. Add(v, coins, S) = Layers(c, v.base, v.undo, v.clean, f)
  BY Zenon DEF Add
<1>2. c \in Caches
  BY ViewFields, AddCoinType, Zenon
<1>3. f \in Faults
  <2>1. "replaces non-pruned entry" \in Faults
    BY Zenon DEF Faults
  <2> QED BY <2>1, ViewFields, FirstFaultType, Zenon
<1> HIDE DEF c, f
<1>4. v.base \in Caches /\ v.undo \in Seq(SomeCoins) /\ v.clean \in BOOLEAN
  BY ViewFields, Zenon
<1> QED BY <1>1, <1>2, <1>3, <1>4, LayersType, Zenon

\* The coins that a transaction creates.
LEMMA OutputsType ==
  ASSUME NEW S \in SUBSET Outpoints, NEW h \in Coins
  PROVE  [o \in S |-> h] \in SomeCoins /\ DOMAIN [o \in S |-> h] = S
<1>1. [o \in S |-> h] \in [S -> Coins]
  BY Zenon
<1> QED BY <1>1, Zenon DEF SomeCoins

\* A coin is seen at every outpoint, at both levels.
LEMMA TwoLevels ==
  ASSUME db.coins \in Views, NEW v \in ViewSet
  PROVE  /\ Seen(v.base, db.coins) \in Views
         /\ Seen(v.own, Seen(v.base, db.coins)) \in Views
<1>1. Seen(v.base, db.coins) \in Views
  BY ViewFields, SeenType, Zenon
<1> QED BY <1>1, ViewFields, SeenType, Zenon

\* The coins that a transaction spends.
LEMMA SpentType ==
  ASSUME NEW u \in Views, NEW S \in SUBSET Outpoints
  PROVE  CoinsAt(u, S) \in SomeCoins
<1>1. CoinsAt(u, S) \in [S -> Coins]
  BY Zenon DEF CoinsAt, Views
<1> QED BY <1>1, Zenon DEF SomeCoins

\* The inputs of a transaction.
LEMMA SpendInputsType ==
  ASSUME db.coins \in Views, NEW v \in ViewSet, NEW S \in SUBSET Outpoints
  PROVE  SpendInputs(v, S) \in ViewSet
<1> DEFINE w == Spend(v, S)
           seen == Seen(v.own, Seen(v.base, db.coins))
           coins == CoinsAt(seen, S)
           f == FirstFault(w.fault, HaveCoin(v, S) # S, "inputs missing")
<1>1. SpendInputs(v, S) = Layers(w.own, w.base, Append(w.undo, coins), w.clean, f)
  BY Zenon DEF SpendInputs, CoinsAt
<1>2. w \in ViewSet
  BY SpendType, Zenon
<1>3. coins \in SomeCoins
  <2>1. seen \in Views
    BY TwoLevels, Zenon
  <2> HIDE DEF seen
  <2> QED BY <2>1, SpentType, Zenon
<1> HIDE DEF w, coins
<1>4. Append(w.undo, coins) \in Seq(SomeCoins)
  <2>1. w.undo \in Seq(SomeCoins)
    BY <1>2, ViewFields, Zenon
  <2> QED BY <1>3, <2>1
<1>5. f \in Faults
  <2>1. "inputs missing" \in Faults
    BY Zenon DEF Faults
  <2> QED BY <1>2, <2>1, ViewFields, FirstFaultType, Zenon
<1> HIDE DEF f
<1>6. w.own \in Caches /\ w.base \in Caches /\ w.clean \in BOOLEAN
  BY <1>2, ViewFields, Zenon
<1> QED BY <1>1, <1>4, <1>5, <1>6, LayersType, Zenon

\* A transaction of a block that is connected.
LEMMA UpdateCoinsType ==
  ASSUME db.coins \in Views, NEW v \in ViewSet, NEW tx \in Transactions, NEW h \in Coins
  PROVE  UpdateCoins(v, tx, h) \in ViewSet
<1>1. tx.vin \in SUBSET Outpoints /\ tx.vout \in SUBSET Outpoints
  BY Zenon DEF Transactions
<1> DEFINE w == SpendInputs(v, tx.vin)
           S == IF tx.coinbase THEN tx.vout ELSE {}
<1>2. w \in ViewSet
  BY <1>1, SpendInputsType, Zenon
<1>3. UpdateCoins(v, tx, h) = v \/ UpdateCoins(v, tx, h) = Add(w, [o \in tx.vout |-> h], S)
  BY Zenon DEF UpdateCoins, OrFailed
<1> HIDE DEF w, S
<1>4. [o \in tx.vout |-> h] \in SomeCoins
  BY <1>1, OutputsType, Zenon
<1> QED BY <1>2, <1>3, <1>4, AddType, Zenon

\* The outputs of a transaction that is undone.
LEMMA RemoveOutputsType ==
  ASSUME db.coins \in Views, NEW v \in ViewSet, NEW S \in SUBSET Outpoints, NEW h
  PROVE  RemoveOutputs(v, S, h) \in ViewSet
<1> DEFINE w == Spend(v, S)
           c == Fetch(v, S).own
           ok == w.clean /\ \A o \in S : o \in DOMAIN c /\ c[o].coin = h
<1>1. RemoveOutputs(v, S, h) = Layers(w.own, w.base, w.undo, ok, w.fault)
  BY Zenon DEF RemoveOutputs
<1>2. w \in ViewSet
  BY SpendType, Zenon
<1>3. ok \in BOOLEAN
  BY Zenon
<1> HIDE DEF w, ok
<1>4. /\ w.own \in Caches /\ w.base \in Caches /\ w.undo \in Seq(SomeCoins)
      /\ w.fault \in Faults
  BY <1>2, ViewFields, Zenon
<1> QED BY <1>1, <1>3, <1>4, LayersType, Zenon

\* The inputs of a transaction that is undone.
LEMMA ApplyTxInUndoType ==
  ASSUME db.coins \in Views, NEW v \in ViewSet, NEW coins \in SomeCoins
  PROVE  ApplyTxInUndo(v, coins) \in ViewSet
<1> DEFINE have == HaveCoin(v, DOMAIN coins)
           w == Add(Fetch(v, DOMAIN coins), coins, have)
           ok == w.clean /\ have = {}
<1>1. ApplyTxInUndo(v, coins) = Layers(w.own, w.base, w.undo, ok, w.fault)
  BY Zenon DEF ApplyTxInUndo
<1>2. Fetch(v, DOMAIN coins) \in ViewSet
  BY SomeCoinsType, FetchType, Zenon
<1>3. w \in ViewSet
  BY <1>2, AddType, Zenon
<1>4. ok \in BOOLEAN
  BY Zenon
<1> HIDE DEF w, ok
<1>5. /\ w.own \in Caches /\ w.base \in Caches /\ w.undo \in Seq(SomeCoins)
      /\ w.fault \in Faults
  BY <1>3, ViewFields, Zenon
<1> QED BY <1>1, <1>4, <1>5, LayersType, Zenon

\* A transaction of a block that is disconnected.
LEMMA UndoTxType ==
  ASSUME db.coins \in Views, NEW v \in ViewSet, NEW b, NEW i,
         Txs[b][i] \in Transactions, undo[b][i] \in SomeCoins
  PROVE  UndoTx(v, b, i) \in ViewSet
<1>1. Txs[b][i].vout \in SUBSET Outpoints
  BY Zenon DEF Transactions
<1> DEFINE w == RemoveOutputs(v, Txs[b][i].vout, Height(b))
<1>2. w \in ViewSet
  BY <1>1, RemoveOutputsType, Zenon
<1>3. UndoTx(v, b, i) = v \/ UndoTx(v, b, i) = ApplyTxInUndo(w, undo[b][i])
  BY Zenon DEF UndoTx, OrFailed
<1> HIDE DEF w
<1> QED BY <1>2, <1>3, ApplyTxInUndoType, Zenon

\* A transaction of a block that is rolled forward.
LEMMA RollforwardTxType ==
  ASSUME db.coins \in Views, NEW v \in ViewSet, NEW tx \in Transactions, NEW h \in Coins
  PROVE  RollforwardTx(v, tx, h) \in ViewSet
<1>1. tx.vin \in SUBSET Outpoints /\ tx.vout \in SUBSET Outpoints
  BY Zenon DEF Transactions
<1> DEFINE w == Spend(v, tx.vin)
           x == Fetch(w, tx.vout)
<1>2. w \in ViewSet
  BY <1>1, SpendType, Zenon
<1>3. x \in ViewSet
  <2> HIDE DEF w
  <2> QED BY <1>1, <1>2, FetchType, Zenon
<1>4. \/ RollforwardTx(v, tx, h) = v
      \/ RollforwardTx(v, tx, h) = Add(x, [o \in tx.vout |-> h], HaveCoin(w, tx.vout))
  BY Zenon DEF RollforwardTx, OrFailed
<1> HIDE DEF x, w
<1>5. [o \in tx.vout |-> h] \in SomeCoins
  BY <1>1, OutputsType, Zenon
<1> QED BY <1>3, <1>4, <1>5, AddType, Zenon

\* A view without a fault, whose flags are right at both levels; its base shows
\* the coins below.
Good(v, below) ==
  /\ v \in ViewSet /\ v.fault = "none"
  /\ Seen(v.base, db.coins) = below
  /\ Sound(v.base, db.coins) /\ Sound(v.own, below)

\* Fetching changes nothing that is seen.
LEMMA FetchGood ==
  ASSUME db.coins \in Views, NEW below \in Views, NEW v, Good(v, below),
         NEW S \in SUBSET Outpoints
  PROVE  LET w == Fetch(v, S)
         IN  /\ Good(w, below) /\ Seen(w.own, below) = Seen(v.own, below)
             /\ w.undo = v.undo /\ w.clean = v.clean
             /\ \A o \in S : o \in DOMAIN w.own \/ below[o] = Spent
<1> DEFINE missed == S \ DOMAIN v.own
           b == FetchCoin(v.base, db.coins, missed)
           c == FetchCoin(v.own, Seen(b, db.coins), missed)
           w == Fetch(v, S)
<1>1. /\ v \in ViewSet /\ v.fault = "none" /\ v.own \in Caches /\ v.base \in Caches
      /\ Seen(v.base, db.coins) = below
      /\ Sound(v.base, db.coins) /\ Sound(v.own, below)
  BY ViewFields, Zenon DEF Good
<1>2. missed \in SUBSET Outpoints /\ \A o \in S : o \in missed \/ o \in DOMAIN v.own
  BY Zenon
<1>3. w = Layers(c, b, v.undo, v.clean, v.fault)
  BY Zenon DEF Fetch
<1>4. w \in ViewSet
  BY <1>1, FetchType, Zenon
<1> HIDE DEF missed, w
<1>5. b \in Caches /\ Sound(b, db.coins) /\ Seen(b, db.coins) = below
  BY <1>1, <1>2, FetchCoinSound, Zenon
<1> HIDE DEF b
<1> DEFINE e == FetchCoin(v.own, below, missed)
<1>6. /\ e \in Caches /\ Sound(e, below) /\ Seen(e, below) = Seen(v.own, below)
      /\ DOMAIN v.own \subseteq DOMAIN e
      /\ \A o \in missed : o \in DOMAIN e \/ below[o] = Spent
  BY <1>1, <1>2, FetchCoinSound, Zenon
<1>7. \A o \in DOMAIN v.own : o \in DOMAIN e
  BY <1>6, Zenon
<1>8. w = Layers(e, b, v.undo, v.clean, v.fault)
  BY <1>3, <1>5, Zenon
<1> HIDE DEF c, e
<1>9. w.own = e /\ w.base = b /\ w.undo = v.undo /\ w.clean = v.clean /\ w.fault = v.fault
  BY <1>8, Zenon DEF Layers
<1>10. Good(w, below)
  BY <1>1, <1>4, <1>5, <1>6, <1>9, Zenon DEF Good
<1> QED BY <1>2, <1>6, <1>7, <1>9, <1>10, Zenon DEF w

\* Those of S that have a coin in u.
Having(u, S) == { o \in S : u[o] # Spent }

\* HaveCoin answers for what is seen.
LEMMA HaveGood ==
  ASSUME db.coins \in Views, NEW below \in Views, NEW v, Good(v, below),
         NEW S \in SUBSET Outpoints
  PROVE  HaveCoin(v, S) = Having(Seen(v.own, below), S)
<1> DEFINE w == Fetch(v, S)
<1>0. /\ Good(w, below) /\ Seen(w.own, below) = Seen(v.own, below)
      /\ \A o \in S : o \in DOMAIN w.own \/ below[o] = Spent
  BY FetchGood, Zenon
<1>1. /\ w.own \in Caches /\ Seen(w.own, below) = Seen(v.own, below)
      /\ \A o \in S : o \in DOMAIN w.own \/ below[o] = Spent
  BY <1>0, ViewFields, Zenon DEF Good
<1>2. HaveCoin(v, S) = { o \in S \cap DOMAIN w.own : w.own[o].coin # Spent }
  BY Zenon DEF HaveCoin
<1> HIDE DEF w
<1>3. \A o \in S : Seen(w.own, below)[o] = IF o \in DOMAIN w.own THEN w.own[o].coin ELSE below[o]
  BY <1>1, SeenType, Zenon
<1>4. \A o \in S : (o \in DOMAIN w.own /\ w.own[o].coin # Spent) <=> Seen(v.own, below)[o] # Spent
  BY <1>1, <1>3, Zenon
<1> QED BY <1>2, <1>4, Zenon DEF Having

\* Coins that are spent are no longer seen.
LEMMA SpendGood ==
  ASSUME db.coins \in Views, NEW below \in Views, NEW v, Good(v, below),
         NEW S \in SUBSET Outpoints
  PROVE  LET w == Spend(v, S)
         IN  /\ Good(w, below) /\ Seen(w.own, below) = Less(Seen(v.own, below), S)
             /\ w.undo = v.undo /\ w.clean = v.clean
<1> DEFINE x == Fetch(v, S)
           c == SpendCoin(x.own, S)
           w == Spend(v, S)
<1>1. /\ Good(x, below) /\ Seen(x.own, below) = Seen(v.own, below)
      /\ x.undo = v.undo /\ x.clean = v.clean
      /\ \A o \in S : o \in DOMAIN x.own \/ below[o] = Spent
  BY FetchGood, Zenon
<1>2. w = Layers(c, x.base, x.undo, x.clean, x.fault)
  BY Zenon DEF Spend
<1>7. w \in ViewSet
  BY SpendType, Zenon DEF Good
<1> HIDE DEF x, w
<1>3. /\ x \in ViewSet /\ x.fault = "none" /\ x.own \in Caches
      /\ Seen(x.base, db.coins) = below
      /\ Sound(x.base, db.coins) /\ Sound(x.own, below)
  BY <1>1, ViewFields, Zenon DEF Good
<1>4. c \in Caches /\ Sound(c, below) /\ Seen(c, below) = Less(Seen(x.own, below), S)
  BY <1>1, <1>3, SpendCoinSound, Zenon
<1> HIDE DEF c
<1>5. /\ w.own = c /\ w.base = x.base /\ w.undo = x.undo /\ w.clean = x.clean
      /\ w.fault = x.fault
  BY <1>2, Zenon DEF Layers
<1>6. Good(w, below)
  BY <1>3, <1>4, <1>5, <1>7, Zenon DEF Good
<1> QED BY <1>1, <1>4, <1>5, <1>6, Zenon DEF w

\* The coins are added to view v, that of the last transaction.
AddsTo(v, w, below, coins) ==
  /\ Good(w, below) /\ Seen(w.own, below) = With(Seen(v.own, below), coins)
  /\ w.undo = v.undo /\ w.clean = v.clean

\* Coins that are added are seen.
LEMMA AddGood ==
  ASSUME NEW below \in Views, NEW v, Good(v, below), NEW coins \in SomeCoins, NEW S,
         NoneAt(Seen(v.own, below), DOMAIN coins \ S)
  PROVE  AddsTo(v, Add(v, coins, S), below, coins)
<1> DEFINE c == AddCoin(v.own, coins, S)
           f == FirstFault(v.fault, AddThrows(v.own, coins, S), "replaces non-pruned entry")
           w == Add(v, coins, S)
<1>1. w = Layers(c, v.base, v.undo, v.clean, f)
  BY Zenon DEF Add
<1>2. /\ v \in ViewSet /\ v.fault = "none" /\ v.own \in Caches
      /\ Seen(v.base, db.coins) = below
      /\ Sound(v.base, db.coins) /\ Sound(v.own, below)
  BY ViewFields, Zenon DEF Good
<1>3. w \in ViewSet
  BY <1>2, AddType, Zenon
<1>4. /\ ~AddThrows(v.own, coins, S)
      /\ c \in Caches /\ Sound(c, below)
      /\ Seen(c, below) = With(Seen(v.own, below), coins)
  <2>1. ~AddThrows(v.own, coins, S)
    BY <1>2, AddCoinSound, Zenon
  <2>2. c \in Caches
    BY <1>2, AddCoinSound, Zenon
  <2>3. Sound(c, below)
    BY <1>2, AddCoinSound, Zenon
  <2>4. Seen(c, below) = With(Seen(v.own, below), coins)
    BY <1>2, AddCoinSound
  <2> QED BY <2>1, <2>2, <2>3, <2>4, Zenon
<1>5. f = "none"
  BY <1>2, <1>4, Zenon DEF FirstFault
<1> HIDE DEF c, f, w
<1>6. /\ w.own = c /\ w.base = v.base /\ w.undo = v.undo /\ w.clean = v.clean /\ w.fault = f
  BY <1>1, Zenon DEF Layers
<1>7. Good(w, below)
  BY <1>2, <1>3, <1>4, <1>5, <1>6, Zenon DEF Good
<1> QED BY <1>4, <1>6, <1>7, Zenon DEF w, AddsTo

\* The coins at S are spent in view w, that of v's next transaction, and kept as
\* undo data.
SpendsIn(v, w, below, S) ==
  /\ Good(w, below) /\ Seen(w.own, below) = Less(Seen(v.own, below), S)
  /\ w.undo = Append(v.undo, CoinsAt(Seen(v.own, below), S))
  /\ w.clean = v.clean

\* The inputs of a valid transaction are spent, and kept as undo data.
LEMMA SpendInputsGood ==
  ASSUME db.coins \in Views, NEW below \in Views, NEW v, Good(v, below),
         NEW S \in SUBSET Outpoints, AllAt(Seen(v.own, below), S)
  PROVE  SpendsIn(v, SpendInputs(v, S), below, S)
<1> DEFINE u == Seen(v.own, below)
           x == Spend(v, S)
           f == FirstFault(x.fault, HaveCoin(v, S) # S, "inputs missing")
           w == SpendInputs(v, S)
<1>1. Seen(v.base, db.coins) = below /\ v \in ViewSet
  BY Zenon DEF Good
<1>2. w = Layers(x.own, x.base, Append(x.undo, CoinsAt(u, S)), x.clean, f)
  BY <1>1, Zenon DEF SpendInputs, CoinsAt
<1>3. w \in ViewSet
  BY <1>1, SpendInputsType, Zenon
<1>4. /\ Good(x, below) /\ Seen(x.own, below) = Less(u, S)
      /\ x.undo = v.undo /\ x.clean = v.clean
  BY SpendGood, Zenon
<1> HIDE DEF x, w
<1>5. HaveCoin(v, S) = S
  <2>1. HaveCoin(v, S) = Having(Seen(v.own, below), S)
    BY HaveGood, Zenon
  <2> QED BY <2>1, Zenon DEF Having, AllAt
<1>6. f = "none"
  BY <1>4, <1>5, Zenon DEF FirstFault, Good
<1> HIDE DEF f, u
<1>7. /\ w.own = x.own /\ w.base = x.base /\ w.undo = Append(x.undo, CoinsAt(u, S))
      /\ w.clean = x.clean /\ w.fault = f
  BY <1>2, Zenon DEF Layers
<1>8. Good(w, below)
  BY <1>3, <1>4, <1>6, <1>7, Zenon DEF Good
<1> QED BY <1>4, <1>7, <1>8, Zenon DEF w, u, SpendsIn

\* A valid transaction of a block that is connected: UpdateCoins meets no
\* assertion and no exception, the coins seen afterwards are those the
\* transaction leaves, and the undo data have the coins it found.
LEMMA UpdateCoinsGood ==
  ASSUME db.coins \in Views, NEW below \in Views, NEW v, Good(v, below),
         NEW tx \in Transactions, NEW h \in Coins,
         AllAt(Seen(v.own, below), tx.vin), NoneAt(Seen(v.own, below), tx.vout)
  PROVE  LET w == UpdateCoins(v, tx, h)
             u == Seen(v.own, below)
         IN  /\ Good(w, below) /\ Seen(w.own, below) = Apply(u, tx, h)
             /\ w.undo = Append(v.undo, CoinsAt(u, tx.vin))
<1> DEFINE u == Seen(v.own, below)
           x == SpendInputs(v, tx.vin)
           coins == [o \in tx.vout |-> h]
           S == IF tx.coinbase THEN tx.vout ELSE {}
           w == UpdateCoins(v, tx, h)
<1>1. tx.vin \in SUBSET Outpoints /\ tx.vout \in SUBSET Outpoints
  BY Zenon DEF Transactions
<1>2. w = Add(x, coins, S)
  BY Zenon DEF UpdateCoins, OrFailed, Good
<1>3. /\ Good(x, below) /\ Seen(x.own, below) = Less(u, tx.vin)
      /\ x.undo = Append(v.undo, CoinsAt(u, tx.vin))
  <2>1. SpendsIn(v, x, below, tx.vin)
    BY <1>1, SpendInputsGood, Zenon
  <2> HIDE DEF x
  <2> QED BY <2>1, Zenon DEF SpendsIn
<1>4. coins \in SomeCoins /\ DOMAIN coins = tx.vout
  BY <1>1, OutputsType, Zenon
<1>5. \A o \in tx.vout : Less(u, tx.vin)[o] = Spent
  BY <1>1, Zenon DEF Less, NoneAt
<1> HIDE DEF u, x, S, w
<1>6. NoneAt(Seen(x.own, below), DOMAIN coins \ S)
  BY <1>3, <1>4, <1>5, Zenon DEF NoneAt
<1>7. \A o \in tx.vout : coins[o] = h
  BY Zenon
<1> HIDE DEF coins
<1>8. /\ Good(w, below) /\ Seen(w.own, below) = With(Less(u, tx.vin), coins)
      /\ w.undo = x.undo
  <2>1. AddsTo(x, w, below, coins)
    BY <1>2, <1>3, <1>4, <1>6, AddGood, Zenon
  <2> QED BY <1>3, <2>1, Zenon DEF AddsTo
<1>9. With(Less(u, tx.vin), coins) = Apply(u, tx, h)
  BY <1>4, <1>7, Zenon DEF With, Less, Apply
<1> QED BY <1>3, <1>8, <1>9, Zenon DEF w, u

\* A transaction has created S at height h and spent the coins, and the coins u
\* are as it left them.
Undoable(u, S, coins, h) ==
  /\ \A o \in S : u[o] = h
  /\ \A o \in DOMAIN coins : o \in S \/ u[o] = Spent

\* A transaction of a block that is disconnected, whatever the coins are: they
\* are afterwards those of the undo data at its inputs, none at its outputs,
\* and the same elsewhere.  It is clean if the coins were those that the
\* transaction left.
LEMMA UndoTxGood ==
  ASSUME db.coins \in Views, NEW below \in Views, NEW v, Good(v, below),
         NEW b, NEW i, Txs[b][i] \in Transactions, undo[b][i] \in SomeCoins,
         Height(b) # Spent
  PROVE  LET w == UndoTx(v, b, i)
             u == Seen(v.own, below)
         IN  /\ Good(w, below)
             /\ Seen(w.own, below) = With(Less(u, Txs[b][i].vout), undo[b][i])
             /\ v.clean /\ Undoable(u, Txs[b][i].vout, undo[b][i], Height(b)) => w.clean
<1> DEFINE u == Seen(v.own, below)
           S == Txs[b][i].vout
           coins == undo[b][i]
           x == Fetch(v, S)
           y == Spend(v, S)
           ok == y.clean /\ \A o \in S : o \in DOMAIN x.own /\ x.own[o].coin = Height(b)
           z == RemoveOutputs(v, S, Height(b))
           have == HaveCoin(z, DOMAIN coins)
           r == Fetch(z, DOMAIN coins)
           q == Add(r, coins, have)
           w == UndoTx(v, b, i)
<1>1. S \in SUBSET Outpoints /\ DOMAIN coins \in SUBSET Outpoints
  BY SomeCoinsType, Zenon DEF Transactions
<1>2. w = Layers(q.own, q.base, q.undo, q.clean /\ have = {}, q.fault)
  BY Zenon DEF UndoTx, OrFailed, Good, ApplyTxInUndo
<1>3. z = Layers(y.own, y.base, y.undo, ok, y.fault)
  BY Zenon DEF RemoveOutputs
<1>4. /\ x.own \in Caches /\ Seen(x.own, below) = u
      /\ \A o \in S : o \in DOMAIN x.own \/ below[o] = Spent
  <2> HIDE DEF S
  <2>1. /\ Good(x, below) /\ Seen(x.own, below) = u
        /\ \A o \in S : o \in DOMAIN x.own \/ below[o] = Spent
    BY <1>1, FetchGood, Zenon
  <2> QED BY <2>1, ViewFields, Zenon DEF Good
<1>5. Good(y, below) /\ Seen(y.own, below) = Less(u, S) /\ y.clean = v.clean
  BY <1>1, SpendGood, Zenon
<1>6. v.clean /\ (\A o \in S : u[o] = Height(b)) => ok
  <2>1. \A o \in S : Seen(x.own, below)[o] = IF o \in DOMAIN x.own THEN x.own[o].coin ELSE below[o]
    BY <1>1, <1>4, SeenType, Zenon
  <2>2. Height(b) # Spent
    BY Zenon
  <2> DEFINE h == Height(b)
  <2> HIDE DEF u, x, y, S, h
  <2>3. ASSUME NEW o \in S, u[o] = h PROVE o \in DOMAIN x.own /\ x.own[o].coin = h
    BY <1>4, <2>1, <2>2, <2>3, Zenon DEF h
  <2> QED BY <1>5, <2>3, Zenon DEF h
<1>7. ok \in BOOLEAN
  BY Zenon
<1> HIDE DEF x, y, ok
<1>8. Good(z, below) /\ Seen(z.own, below) = Less(u, S) /\ z.clean = ok
  <2>1. /\ y \in ViewSet /\ y.fault = "none"
        /\ Seen(y.base, db.coins) = below
        /\ Sound(y.base, db.coins) /\ Sound(y.own, below)
    BY <1>5, Zenon DEF Good
  <2> HIDE DEF z
  <2>2. z.own = y.own /\ z.base = y.base /\ z.clean = ok /\ z.fault = y.fault
    BY <1>3, Zenon DEF Layers
  <2>3. z \in ViewSet
    BY <1>1, RemoveOutputsType, Zenon DEF Good, z
  <2> QED BY <1>5, <2>1, <2>2, <2>3, Zenon DEF Good
<1> HIDE DEF z
<1>9. have = Having(Less(u, S), DOMAIN coins)
  <2>1. have = Having(Seen(z.own, below), DOMAIN coins)
    BY <1>1, <1>8, HaveGood, Zenon
  <2> QED BY <1>8, <2>1, Zenon
<1>10. Good(r, below) /\ Seen(r.own, below) = Less(u, S) /\ r.clean = ok
  BY <1>1, <1>8, FetchGood, Zenon
<1> HIDE DEF have, r
<1>11. NoneAt(Seen(r.own, below), DOMAIN coins \ have)
  BY <1>9, <1>10, Zenon DEF NoneAt, Having
<1>12. Good(q, below) /\ Seen(q.own, below) = With(Less(u, S), coins) /\ q.clean = ok
  <2>1. AddsTo(r, q, below, coins)
    BY <1>10, <1>11, AddGood, Zenon
  <2> QED BY <1>10, <2>1, Zenon DEF AddsTo
<1>13. (\A o \in DOMAIN coins : o \in S \/ u[o] = Spent) => have = {}
  <2>1. \A o \in DOMAIN coins : Less(u, S)[o] = IF o \in S THEN Spent ELSE u[o]
    BY <1>1, Zenon DEF Less
  <2> HIDE DEF u, S, coins
  <2> QED BY <1>9, <2>1, Zenon DEF Having
<1> HIDE DEF q
<1> DEFINE fine == q.clean /\ have = {}
<1>14. fine \in BOOLEAN
  BY Zenon
<1>15. (/\ v.clean
        /\ \A o \in S : u[o] = Height(b)
        /\ \A o \in DOMAIN coins : o \in S \/ u[o] = Spent) => fine
  BY <1>6, <1>12, <1>13, Zenon
<1> HIDE DEF fine, w, u, S, coins
<1>16. Good(w, below) /\ w.own = q.own /\ w.clean = fine
  <2>1. /\ q \in ViewSet /\ q.fault = "none"
        /\ Seen(q.base, db.coins) = below
        /\ Sound(q.base, db.coins) /\ Sound(q.own, below)
    BY <1>12, Zenon DEF Good
  <2>2. w = Layers(q.own, q.base, q.undo, fine, q.fault)
    BY <1>2, Zenon DEF fine
  <2>3. w.own = q.own /\ w.base = q.base /\ w.clean = fine /\ w.fault = q.fault
    BY <2>2, Zenon DEF Layers
  <2>4. w \in ViewSet
    BY UndoTxType, Zenon DEF Good, w
  <2> QED BY <2>1, <2>3, <2>4, Zenon DEF Good
<1>17. v.clean /\ Undoable(u, S, coins, Height(b)) => fine
  BY <1>15, Zenon DEF Undoable
<1> QED BY <1>12, <1>16, <1>17, Zenon DEF w, u, S, coins

\* A transaction of a block that is rolled forward, whatever the coins are.
LEMMA RollforwardTxGood ==
  ASSUME db.coins \in Views, NEW below \in Views, NEW v, Good(v, below),
         NEW tx \in Transactions, NEW h \in Coins
  PROVE  LET w == RollforwardTx(v, tx, h)
         IN  Good(w, below) /\ Seen(w.own, below) = Apply(Seen(v.own, below), tx, h)
<1> DEFINE u == Seen(v.own, below)
           x == Spend(v, tx.vin)
           y == Fetch(x, tx.vout)
           have == HaveCoin(x, tx.vout)
           coins == [o \in tx.vout |-> h]
           w == RollforwardTx(v, tx, h)
<1>1. tx.vin \in SUBSET Outpoints /\ tx.vout \in SUBSET Outpoints
  BY Zenon DEF Transactions
<1>2. w = Add(y, coins, have)
  BY Zenon DEF RollforwardTx, OrFailed, Good
<1>3. Good(x, below) /\ Seen(x.own, below) = Less(u, tx.vin)
  BY <1>1, SpendGood, Zenon
<1> HIDE DEF u, x, w
<1>4. Good(y, below) /\ Seen(y.own, below) = Less(u, tx.vin)
  BY <1>1, <1>3, FetchGood, Zenon
<1>5. have = Having(Less(u, tx.vin), tx.vout)
  <2>1. have = Having(Seen(x.own, below), tx.vout)
    BY <1>1, <1>3, HaveGood, Zenon
  <2> QED BY <1>3, <2>1, Zenon
<1>6. coins \in SomeCoins /\ DOMAIN coins = tx.vout
  BY <1>1, OutputsType, Zenon
<1>7. \A o \in tx.vout : coins[o] = h
  BY Zenon
<1> HIDE DEF y, have, coins
<1>8. NoneAt(Seen(y.own, below), DOMAIN coins \ have)
  BY <1>4, <1>5, <1>6, Zenon DEF NoneAt, Having
<1>9. Good(w, below) /\ Seen(w.own, below) = With(Less(u, tx.vin), coins)
  <2>1. AddsTo(y, w, below, coins)
    BY <1>2, <1>4, <1>6, <1>8, AddGood, Zenon
  <2> QED BY <1>4, <2>1, Zenon DEF AddsTo
<1>10. With(Less(u, tx.vin), coins) = Apply(u, tx, h)
  BY <1>6, <1>7, Zenon DEF With, Less, Apply
<1> QED BY <1>9, <1>10, Zenon DEF w, u

-----------------------------------------------------------------------------
(* The coins of a chain *)

\* The transactions of a block.
LEMMA TxsType ==
  ASSUME NEW b \in Blocks
  PROVE  Len(Txs[b]) \in Nat /\ \A i \in 1 .. Len(Txs[b]) : Txs[b][i] \in Transactions
<1>1. Txs[b] \in Seq(Transactions)
  BY ChainConstants, Zenon
<1> QED BY <1>1

\* The height of a block is that of a coin.
LEMMA HeightCoin == \A b \in Blocks : Height(b) \in Coins /\ Height(b) # Spent
<1>1. \A b \in Blocks : Height(b) \in Nat
  BY BlockHeight, Zenon
<1>2. \A h \in Nat : h \in Coins /\ h # Spent
  BY DEF Coins, Spent
<1> QED BY <1>1, <1>2, Zenon

\* A transaction makes a view of a view.
LEMMA ApplyType ==
  ASSUME NEW u \in Views, NEW tx, NEW h \in Coins
  PROVE  Apply(u, tx, h) \in Views
<1>1. Spent \in Coins
  BY Zenon DEF Coins
<1> QED BY <1>1, Zenon DEF Apply, Views

\* The loop of ApplyFirst.
LEMMA ApplyFirstDef ==
  ASSUME NEW b \in Blocks, NEW u \in Views
  PROVE  /\ ApplyFirst(u, b, 0) = u
         /\ \A i \in 0 .. Len(Txs[b]) : ApplyFirst(u, b, i) \in Views
         /\ \A i \in 1 .. Len(Txs[b]) :
              ApplyFirst(u, b, i) = Apply(ApplyFirst(u, b, i - 1), Txs[b][i], Height(b))
<1> DEFINE n == Len(Txs[b])
           F == [p \in Views \X (1 .. n) |-> Apply(p[1], Txs[b][p[2]], Height(b))]
           Is(f) == f = [i \in 0 .. n |->
                           IF i = 0 THEN u ELSE Apply(f[i - 1], Txs[b][i], Height(b))]
           w == CHOOSE f : Is(f)
<1>1. n \in Nat
  BY TxsType, Zenon
<1>2. \A a \in Views : \A i \in 1 .. n :
        F[<<a, i>>] = Apply(a, Txs[b][i], Height(b)) /\ F[<<a, i>>] \in Views
  BY HeightCoin, ApplyType, Zenon
<1>3. \A i : ApplyFirst(u, b, i) = w[i]
  BY Zenon DEF ApplyFirst
<1> HIDE DEF n, F
<1>4. /\ 0 \in 0 .. n
      /\ \A i \in 0 .. n : i # 0 => i \in 1 .. n
      /\ \A i \in 1 .. n : i \in 0 .. n /\ i # 0 /\ i - 1 \in 0 .. n
  BY <1>1
<1>5. PICK f : Loops(f, n, u, F, Views)
  <2>1. Keeps(F, Views, 1 .. n)
    BY <1>2, Zenon DEF Keeps
  <2> QED BY <1>1, <2>1, LoopExists, Zenon
<1>6. Is(f)
  BY <1>2, <1>4, <1>5, Zenon DEF Loops
<1>7. Is(w)
  BY <1>6, Zenon
<1> HIDE DEF w
<1>8. /\ w[0] = u
      /\ \A i \in 1 .. n : w[i] = Apply(w[i - 1], Txs[b][i], Height(b))
  BY <1>4, <1>7, Zenon
<1>9. \A i \in 0 .. n : w[i] \in Views
  <2> DEFINE S == { i \in 0 .. n : w[i] \in Views }
  <2>1. 0 \in S
    BY <1>4, <1>8, Zenon
  <2>2. \A i \in 1 .. n : i - 1 \in S => i \in S
    BY <1>4, <1>8, HeightCoin, ApplyType, Zenon
  <2>3. \A i \in 0 .. n : i \in S
    <3> HIDE DEF S
    <3> QED BY <1>1, <2>1, <2>2, Upto, Zenon
  <2> QED BY <2>3, Zenon
<1> QED BY <1>3, <1>8, <1>9, Zenon DEF n

\* The coins at the root.
RootCoins == [o \in Outpoints |-> IF o \in Unspent THEN 0 ELSE Spent]

\* UTXO satisfies its equation, and gives every block a view.
LEMMA UTXODef ==
  /\ \A b \in Nodes : UTXO[b] \in Views
  /\ UTXO[Root] = RootCoins
  /\ \A b \in Blocks : UTXO[b] = ApplyFirst(UTXO[Prev[b]], b, Len(Txs[b]))
<1> DEFINE F == [p \in Views \X Blocks |-> ApplyFirst(p[1], p[2], Len(Txs[p[2]]))]
           Is(f) == f = [b \in Nodes |-> IF b = Root THEN RootCoins
                                         ELSE ApplyFirst(f[Prev[b]], b, Len(Txs[b]))]
<1>1. RootCoins \in Views
  <2>1. 0 \in Coins /\ Spent \in Coins
    BY DEF Coins
  <2> QED BY <2>1, Zenon DEF RootCoins, Views
<1>2. \A a \in Views : \A b \in Blocks :
        F[<<a, b>>] = ApplyFirst(a, b, Len(Txs[b])) /\ F[<<a, b>>] \in Views
  <2> SUFFICES ASSUME NEW a \in Views, NEW b \in Blocks
               PROVE  F[<<a, b>>] = ApplyFirst(a, b, Len(Txs[b])) /\ F[<<a, b>>] \in Views
    BY Zenon
  <2>1. F[<<a, b>>] = ApplyFirst(a, b, Len(Txs[b]))
    BY Zenon
  <2>2. Len(Txs[b]) \in 0 .. Len(Txs[b])
    <3>1. Len(Txs[b]) \in Nat
      BY TxsType, Zenon
    <3> QED BY <3>1
  <2> HIDE DEF F
  <2> QED BY <2>1, <2>2, ApplyFirstDef, Zenon
<1> HIDE DEF F
<1>3. PICK f : SolvesTree(f, RootCoins, F)
  BY TreeRecursion, Zenon
<1>4. \A b \in Nodes : f[b] = IF b = Root THEN RootCoins ELSE F[<<f[Prev[b]], b>>]
  BY <1>3, Zenon DEF SolvesTree
<1>5. \A b \in Nodes : f[b] \in Views
  <2>1. Keeps(F, Views, Blocks)
    BY <1>2, Zenon DEF Keeps
  <2> QED BY <1>1, <1>3, <2>1, TreeRecursionType, Zenon
<1>6. \A b \in Nodes : b # Root => b \in Blocks /\ Prev[b] \in Nodes
  BY TreeConstants, Zenon DEF Nodes
<1>7. \A b \in Nodes : f[b] = IF b = Root THEN RootCoins
                              ELSE ApplyFirst(f[Prev[b]], b, Len(Txs[b]))
  BY <1>2, <1>4, <1>5, <1>6, Zenon
<1>8. f = [b \in Nodes |-> f[b]]
  BY <1>3, Zenon DEF SolvesTree
<1>9. Is(f)
  BY <1>7, <1>8, Zenon
<1>10. UTXO = CHOOSE g : Is(g)
  BY Zenon DEF UTXO, Nodes, RootCoins
<1>11. Is(UTXO)
  BY <1>9, <1>10, Zenon
<1>12. \A b \in Nodes : UTXO[b] = IF b = Root THEN RootCoins
                                  ELSE ApplyFirst(UTXO[Prev[b]], b, Len(Txs[b]))
  BY <1>11, Zenon
<1>13. \A a \in Views : \A b \in Blocks : ApplyFirst(a, b, Len(Txs[b])) \in Views
  BY <1>2, Zenon
<1>14. \A b \in Nodes : UTXO[b] \in Views
  <2> DEFINE S == { b \in Blocks : UTXO[b] \notin Views }
  <2>0. S \subseteq Blocks
    BY Zenon
  <2>1. UTXO[Root] \in Views
    BY <1>1, <1>12, Zenon DEF Nodes
  <2>2. ASSUME S # {} PROVE FALSE
    <3>1. PICK b \in S : Prev[b] \notin S
      <4> HIDE DEF S
      <4> QED BY <2>0, <2>2, Lowest, Zenon
    <3>2. b \in Blocks /\ b \in Nodes /\ b # Root /\ Prev[b] \in Nodes
      BY TreeConstants, Zenon DEF Nodes
    <3>3. UTXO[Prev[b]] \in Views
      BY <3>1, <3>2, <2>1, Zenon DEF Nodes
    <3>4. UTXO[b] = ApplyFirst(UTXO[Prev[b]], b, Len(Txs[b]))
      BY <3>2, <1>12, Zenon
    <3>5. UTXO[b] \in Views
      BY <3>2, <3>3, <3>4, <1>13, Zenon
    <3> QED BY <3>5, Zenon
  <2> QED BY <2>1, <2>2, Zenon DEF Nodes
<1>15. Root \in Nodes /\ \A b \in Blocks : b \in Nodes /\ b # Root
  BY TreeConstants, Zenon DEF Nodes
<1> QED BY <1>12, <1>14, <1>15, Zenon

\* The coins between two transactions of b.
Mid(b, i) == ApplyFirst(UTXO[Prev[b]], b, i)

\* From the coins of the previous block to those of the block, one transaction
\* at a time; each is valid where it stands.
LEMMA MidFacts ==
  ASSUME NEW b \in Blocks
  PROVE  LET n == Len(Txs[b])
         IN  /\ Mid(b, 0) = UTXO[Prev[b]]
             /\ Mid(b, n) = UTXO[b]
             /\ \A i \in 0 .. n : Mid(b, i) \in Views
             /\ \A i \in 1 .. n : /\ Mid(b, i) = Apply(Mid(b, i - 1), Txs[b][i], Height(b))
                                  /\ AllAt(Mid(b, i - 1), Txs[b][i].vin)
                                  /\ NoneAt(Mid(b, i - 1), Txs[b][i].vout)
<1>1. Prev[b] \in Nodes
  BY HeightStep, Zenon
<1>2. UTXO[Prev[b]] \in Views /\ UTXO[b] = ApplyFirst(UTXO[Prev[b]], b, Len(Txs[b]))
  BY <1>1, UTXODef, Zenon
<1>3. ASSUME NEW i \in 1 .. Len(Txs[b])
      PROVE  AllAt(Mid(b, i - 1), Txs[b][i].vin) /\ NoneAt(Mid(b, i - 1), Txs[b][i].vout)
  <2> DEFINE tx == Txs[b][i]
             u == ApplyFirst(UTXO[Prev[b]], b, i - 1)
  <2>1. \A o \in tx.vin : u[o] # Spent
    BY ChainConstants, Zenon
  <2>2. \A o \in tx.vout : u[o] = Spent
    BY ChainConstants
  <2> QED BY <2>1, <2>2, Zenon DEF Mid, AllAt, NoneAt
<1> QED BY <1>2, <1>3, ApplyFirstDef, Zenon DEF Mid

\* The undo data of b, if they are right.
UndoOf(b) == [i \in 1 .. Len(Txs[b]) |-> CoinsAt(Mid(b, i - 1), Txs[b][i].vin)]

\* They are coins of some of the outpoints, for each transaction.
LEMMA UndoOfType ==
  ASSUME NEW b \in Blocks
  PROVE  /\ UndoOf(b) \in Seq(SomeCoins) /\ Len(UndoOf(b)) = Len(Txs[b])
         /\ \A i \in 1 .. Len(Txs[b]) :
              /\ UndoOf(b)[i] = CoinsAt(Mid(b, i - 1), Txs[b][i].vin)
              /\ UndoOf(b)[i] \in SomeCoins
<1> DEFINE n == Len(Txs[b])
           coins(i) == CoinsAt(Mid(b, i - 1), Txs[b][i].vin)
<1>1. n \in Nat
  BY TxsType, Zenon
<1>2. ASSUME NEW i \in 1 .. n PROVE coins(i) \in SomeCoins
  <2>1. i - 1 \in 0 .. n
    BY <1>1
  <2>2. Mid(b, i - 1) \in Views
    BY <2>1, MidFacts, Zenon
  <2>3. Txs[b][i].vin \in SUBSET Outpoints
    BY TxsType, Zenon DEF Transactions
  <2> QED BY <2>2, <2>3, SpentType, Zenon
<1>3. UndoOf(b) = [i \in 1 .. n |-> coins(i)]
  BY Zenon DEF UndoOf
<1> HIDE DEF coins, n
<1>4. UndoOf(b) \in [1 .. n -> SomeCoins]
  BY <1>2, <1>3, Zenon
<1>5. UndoOf(b) \in Seq(SomeCoins) /\ Len(UndoOf(b)) = n
  BY <1>1, <1>4
<1>6. \A i \in 1 .. n : UndoOf(b)[i] = coins(i)
  BY <1>3, Zenon
<1> QED BY <1>2, <1>5, <1>6, Zenon DEF coins, n

-----------------------------------------------------------------------------
(* Blocks *)

\* A new view on a cache.
LEMMA ViewGood ==
  ASSUME NEW base \in Caches
  PROVE  LET v == View(base)
         IN  /\ v \in ViewSet /\ v.own = <<>> /\ v.base = base
             /\ v.undo = <<>> /\ v.clean = TRUE /\ v.fault = "none"
<1>1. <<>> \in Seq(SomeCoins)
  OBVIOUS
<1>2. "none" \in Faults
  BY Zenon DEF Faults
<1>3. View(base) \in ViewSet
  BY <1>1, <1>2, EmptyCache, LayersType, Zenon DEF View
<1> QED BY <1>3, Zenon DEF View, Layers

\* Through an empty cache the view below is seen.
LEMMA SeenEmpty ==
  ASSUME NEW u \in Views
  PROVE  Sound(<<>>, u) /\ Seen(<<>>, u) = u
<1>1. Sound(<<>>, u)
  BY EmptyCache, Zenon DEF Sound
<1>2. Seen(<<>>, u) = u
  BY EmptyCache, Zenon DEF Seen, Views
<1> QED BY <1>1, <1>2, Zenon

\* And it is a good view, of a sound cache.
LEMMA ViewSound ==
  ASSUME db.coins \in Views, NEW base \in Caches, Sound(base, db.coins)
  PROVE  LET below == Seen(base, db.coins)
         IN  Good(View(base), below) /\ Seen(View(base).own, below) = below
<1>1. Seen(base, db.coins) \in Views
  BY SeenType, Zenon
<1> QED BY <1>1, ViewGood, SeenEmpty, Zenon DEF Good

\* The views of ConnectBlock, one for each turn of its loop.
Connecting(f, b) ==
  /\ f[0] = View(cache)
  /\ \A i \in 1 .. Len(Txs[b]) : f[i] = UpdateCoins(f[i - 1], Txs[b][i], Height(b))
  /\ ConnectBlock(b) = f[Len(Txs[b])]

\* The loop is what it says.
LEMMA ConnectLoop ==
  ASSUME db.coins \in Views, cache \in Caches, NEW b \in Blocks
  PROVE  \E f : Connecting(f, b)
<1> DEFINE n == Len(Txs[b])
           F == [p \in ViewSet \X (1 .. n) |-> UpdateCoins(p[1], Txs[b][p[2]], Height(b))]
           Is(f) == f = [i \in 0 .. n |-> IF i = 0 THEN View(cache)
                                          ELSE UpdateCoins(f[i - 1], Txs[b][i], Height(b))]
           w == CHOOSE f : Is(f)
<1>1. n \in Nat
  BY TxsType, Zenon
<1>2. \A a \in ViewSet : \A i \in 1 .. n :
        F[<<a, i>>] = UpdateCoins(a, Txs[b][i], Height(b)) /\ F[<<a, i>>] \in ViewSet
  BY TxsType, HeightCoin, UpdateCoinsType, Zenon
<1>3. ConnectBlock(b) = w[n]
  BY Zenon DEF ConnectBlock
<1> HIDE DEF n, F
<1>4. /\ 0 \in 0 .. n
      /\ \A i \in 0 .. n : i # 0 => i \in 1 .. n
      /\ \A i \in 1 .. n : i \in 0 .. n /\ i # 0 /\ i - 1 \in 0 .. n
  BY <1>1
<1>5. View(cache) \in ViewSet
  BY ViewGood, Zenon
<1>6. PICK f : Loops(f, n, View(cache), F, ViewSet)
  <2>1. Keeps(F, ViewSet, 1 .. n)
    BY <1>2, Zenon DEF Keeps
  <2> QED BY <1>1, <1>5, <2>1, LoopExists, Zenon
<1>7. Is(f)
  BY <1>2, <1>4, <1>6, Zenon DEF Loops
<1>8. Is(w)
  BY <1>7, Zenon
<1> HIDE DEF w
<1>9. /\ w[0] = View(cache)
      /\ \A i \in 1 .. n : w[i] = UpdateCoins(w[i - 1], Txs[b][i], Height(b))
  BY <1>4, <1>8, Zenon
<1>10. Connecting(w, b)
  BY <1>3, <1>9, Zenon DEF Connecting, n
<1> QED BY <1>10, Zenon

\* A valid block is connected without a fault, the coins seen are then those of
\* its chain, and its undo data are right.
LEMMA ConnectGood ==
  ASSUME db.coins \in Views, cache \in Caches, Sound(cache, db.coins), NEW b \in Blocks,
         Seen(cache, db.coins) = UTXO[Prev[b]]
  PROVE  LET v == ConnectBlock(b)
         IN  /\ Good(v, UTXO[Prev[b]]) /\ Seen(v.own, UTXO[Prev[b]]) = UTXO[b]
             /\ v.undo = UndoOf(b)
<1> DEFINE n == Len(Txs[b])
           below == UTXO[Prev[b]]
<1>1. n \in Nat /\ below \in Views
  BY TxsType, UTXODef, HeightStep, Zenon
<1>0. PICK f : Connecting(f, b)
  BY ConnectLoop, Zenon
<1>2. /\ f[0] = View(cache)
      /\ \A i \in 1 .. n : f[i] = UpdateCoins(f[i - 1], Txs[b][i], Height(b))
      /\ ConnectBlock(b) = f[n]
  BY <1>0, Zenon DEF Connecting
<1> DEFINE Ok(i) == /\ Good(f[i], below)
                    /\ Seen(f[i].own, below) = Mid(b, i)
                    /\ Len(f[i].undo) = i
                    /\ \A j \in 1 .. i : f[i].undo[j] = UndoOf(b)[j]
           S == { i \in 0 .. n : Ok(i) }
<1>3. 0 \in 0 .. n /\ n \in 0 .. n /\ \A i \in 1 .. n : i \in 0 .. n
  BY <1>1
<1>4. 0 \in S
  <2>1. Good(View(cache), below) /\ Seen(View(cache).own, below) = below
    BY ViewSound, Zenon
  <2>2. View(cache).undo = <<>>
    BY ViewGood, Zenon
  <2>3. Len(<<>>) = 0 /\ 1 .. 0 = {}
    OBVIOUS
  <2>4. Mid(b, 0) = below
    BY MidFacts, Zenon
  <2> HIDE DEF below
  <2>5. Ok(0)
    BY <1>2, <2>1, <2>2, <2>3, <2>4, Zenon
  <2> QED BY <1>3, <2>5, Zenon
<1>5. ASSUME NEW i \in 1 .. n, i - 1 \in S PROVE i \in S
  <2> DEFINE v == f[i - 1]
             tx == Txs[b][i]
             u == Mid(b, i - 1)
             coins == CoinsAt(u, tx.vin)
  <2>1. Ok(i - 1)
    BY <1>5, Zenon
  <2>2. /\ Good(v, below) /\ Seen(v.own, below) = u /\ Len(v.undo) = i - 1
        /\ \A j \in 1 .. i - 1 : v.undo[j] = UndoOf(b)[j]
    BY <2>1, Zenon
  <2>3. v.undo \in Seq(SomeCoins)
    BY <2>2, ViewFields, Zenon DEF Good
  <2>4. Mid(b, i) = Apply(u, tx, Height(b)) /\ AllAt(u, tx.vin) /\ NoneAt(u, tx.vout)
    BY MidFacts, Zenon
  <2>5. tx \in Transactions /\ Height(b) \in Coins
    BY TxsType, HeightCoin, Zenon
  <2>6. f[i] = UpdateCoins(v, tx, Height(b))
    BY <1>2, Zenon
  <2>7. UndoOf(b)[i] = coins /\ coins \in SomeCoins
    BY UndoOfType, Zenon
  <2> HIDE DEF v, tx, u, below
  <2>8. /\ Good(f[i], below) /\ Seen(f[i].own, below) = Mid(b, i)
        /\ f[i].undo = Append(v.undo, coins)
    <3> DEFINE w == UpdateCoins(v, tx, Height(b))
               y == Seen(v.own, below)
    <3>1. AllAt(y, tx.vin) /\ NoneAt(y, tx.vout)
      BY <2>2, <2>4, Zenon
    <3>2. Good(w, below)
      BY <1>1, <2>2, <2>5, <3>1, UpdateCoinsGood, Zenon
    <3>3. Seen(w.own, below) = Apply(y, tx, Height(b))
      BY <1>1, <2>2, <2>5, <3>1, UpdateCoinsGood, Zenon
    <3>4. w.undo = Append(v.undo, CoinsAt(y, tx.vin))
      BY <1>1, <2>2, <2>5, <3>1, UpdateCoinsGood, Zenon
    <3>5. f[i] = w
      BY <2>6, Zenon
    <3> HIDE DEF w
    <3> QED BY <2>2, <2>4, <3>2, <3>3, <3>4, <3>5, Zenon
  <2> HIDE DEF coins
  <2>9. /\ Len(Append(v.undo, coins)) = i
        /\ Append(v.undo, coins)[i] = coins
        /\ \A j \in 1 .. i - 1 : Append(v.undo, coins)[j] = v.undo[j]
    BY <1>1, <2>2, <2>3, <2>7
  <2>10. \A j \in 1 .. i : j = i \/ j \in 1 .. i - 1
    BY <1>1
  <2>11. \A j \in 1 .. i : f[i].undo[j] = UndoOf(b)[j]
    BY <2>2, <2>7, <2>8, <2>9, <2>10, Zenon
  <2>12. Ok(i)
    BY <2>8, <2>9, <2>11, Zenon
  <2> QED BY <1>3, <2>12, Zenon
<1>6. n \in S
  <2> HIDE DEF S, n
  <2> QED BY <1>1, <1>3, <1>4, <1>5, Upto, Zenon
<1>7. Ok(n)
  BY <1>6, Zenon
<1>8. Mid(b, n) = UTXO[b]
  BY MidFacts, Zenon
<1>9. f[n].undo = UndoOf(b)
  <2> DEFINE s == f[n].undo
             t == UndoOf(b)
  <2>1. s \in Seq(SomeCoins)
    BY <1>7, ViewFields, Zenon DEF Good
  <2>2. t \in Seq(SomeCoins) /\ Len(t) = n
    BY UndoOfType, Zenon
  <2>3. Len(s) = n /\ \A j \in 1 .. n : s[j] = t[j]
    BY <1>7, Zenon
  <2> HIDE DEF s, t, n
  <2>4. s = t
    BY <2>1, <2>2, <2>3
  <2> QED BY <2>4, Zenon DEF s, t
<1> QED BY <1>2, <1>7, <1>8, <1>9, Zenon

\* The undo data that there are, are right.
UndoRight == \A b \in DOMAIN undo : b \in Blocks /\ undo[b] = UndoOf(b)

\* The views of DisconnectBlock, one for each turn of its loop.
Disconnecting(f, v, b) ==
  LET n == Len(Txs[b])
  IN  /\ f[0] = v
      /\ \A k \in 1 .. n : f[k] = UndoTx(f[k - 1], b, n - k + 1)
      /\ \A k \in 0 .. n : f[k] \in ViewSet
      /\ DisconnectBlock(v, b) = f[n]

\* The loop is what it says.
LEMMA DisconnectLoop ==
  ASSUME db.coins \in Views, UndoRight, NEW b \in DOMAIN undo, NEW v \in ViewSet
  PROVE  \E f : Disconnecting(f, v, b)
<1> DEFINE n == Len(Txs[b])
           F == [p \in ViewSet \X (1 .. n) |-> UndoTx(p[1], b, n - p[2] + 1)]
           Is(f) == f = [k \in 0 .. n |-> IF k = 0 THEN v ELSE UndoTx(f[k - 1], b, n - k + 1)]
           w == CHOOSE f : Is(f)
<1>1. b \in Blocks /\ undo[b] = UndoOf(b)
  BY Zenon DEF UndoRight
<1>2. n \in Nat
  BY <1>1, TxsType, Zenon
<1>3. DisconnectBlock(v, b) = w[n]
  BY Zenon DEF DisconnectBlock
<1>4. /\ 0 \in 0 .. n
      /\ \A i \in 0 .. n : i # 0 => i \in 1 .. n
      /\ \A i \in 1 .. n : i \in 0 .. n /\ i # 0 /\ i - 1 \in 0 .. n
      /\ \A i \in 1 .. n : n - i + 1 \in 1 .. n
  BY <1>2
<1>5. \A a \in ViewSet : \A k \in 1 .. n : UndoTx(a, b, n - k + 1) \in ViewSet
  BY <1>1, <1>4, TxsType, UndoOfType, UndoTxType, Zenon
<1>6. \A a \in ViewSet : \A k \in 1 .. n :
        F[<<a, k>>] = UndoTx(a, b, n - k + 1) /\ F[<<a, k>>] \in ViewSet
  BY <1>5, Zenon
<1> HIDE DEF n, F
<1>7. PICK f : Loops(f, n, v, F, ViewSet)
  <2>1. Keeps(F, ViewSet, 1 .. n)
    BY <1>6, Zenon DEF Keeps
  <2> QED BY <1>2, <2>1, LoopExists, Zenon
<1>8. Is(f)
  BY <1>4, <1>6, <1>7, Zenon DEF Loops
<1>9. Is(w)
  BY <1>8, Zenon
<1> HIDE DEF w
<1>10. /\ w[0] = v
       /\ \A k \in 1 .. n : w[k] = UndoTx(w[k - 1], b, n - k + 1)
  BY <1>4, <1>9, Zenon
<1>11. \A k \in 0 .. n : w[k] \in ViewSet
  <2> DEFINE S == { k \in 0 .. n : w[k] \in ViewSet }
  <2>1. 0 \in S
    BY <1>4, <1>10, Zenon
  <2>2. \A k \in 1 .. n : k - 1 \in S => k \in S
    BY <1>4, <1>5, <1>10, Zenon
  <2>3. \A k \in 0 .. n : k \in S
    <3> HIDE DEF S
    <3> QED BY <1>2, <2>1, <2>2, Upto, Zenon
  <2> QED BY <2>3, Zenon
<1>12. Disconnecting(w, v, b)
  BY <1>3, <1>10, <1>11, Zenon DEF Disconnecting, n
<1> QED BY <1>12, Zenon

\* Every coin of w is that of a or that of t.
Mix(w, a, t) == \A o \in Outpoints : w[o] = a[o] \/ w[o] = t[o]

\* What undoing transaction i of b makes of an outpoint: the coin before the
\* transaction, or no change where the transaction made none.
LEMMA UndoPoint ==
  ASSUME NEW b \in Blocks, NEW i \in 1 .. Len(Txs[b]), NEW u, NEW o \in Outpoints
  PROVE  LET w == With(Less(u, Txs[b][i].vout), UndoOf(b)[i])
         IN  \/ w[o] = Mid(b, i - 1)[o]
             \/ w[o] = u[o] /\ Mid(b, i)[o] = Mid(b, i - 1)[o]
<1> DEFINE tx == Txs[b][i]
           before == Mid(b, i - 1)
           coins == UndoOf(b)[i]
           w == With(Less(u, tx.vout), coins)
<1>1. coins = CoinsAt(before, tx.vin)
  BY UndoOfType, Zenon
<1>2. Mid(b, i) = Apply(before, tx, Height(b)) /\ \A p \in tx.vout : before[p] = Spent
  <2>1. Mid(b, i) = Apply(before, tx, Height(b)) /\ NoneAt(before, tx.vout)
    BY MidFacts, Zenon
  <2> QED BY <2>1, Zenon DEF NoneAt
<1> HIDE DEF coins, before, tx
<1>3. DOMAIN coins = tx.vin /\ \A p \in tx.vin : coins[p] = before[p]
  BY <1>1, Zenon DEF CoinsAt
<1>4. w[o] = IF o \in DOMAIN coins THEN coins[o] ELSE IF o \in tx.vout THEN Spent ELSE u[o]
  BY Zenon DEF With, Less
<1>5. Mid(b, i)[o] = IF o \in tx.vout THEN Height(b)
                     ELSE IF o \in tx.vin THEN Spent ELSE before[o]
  BY <1>2, Zenon DEF Apply
<1> HIDE DEF w
<1>6. w[o] = before[o] \/ (w[o] = u[o] /\ Mid(b, i)[o] = before[o])
  BY <1>2, <1>3, <1>4, <1>5, Zenon
<1> QED BY <1>6, Zenon DEF w, before, coins, tx

\* It takes coins back of which some may be those of any other view already,
\* and it restores the coins exactly if none is.
LEMMA UndoMix ==
  ASSUME NEW b \in Blocks, NEW i \in 1 .. Len(Txs[b]), NEW u \in Views,
         With(Less(u, Txs[b][i].vout), UndoOf(b)[i]) \in Views
  PROVE  LET w == With(Less(u, Txs[b][i].vout), UndoOf(b)[i])
         IN  /\ \A t : Mix(u, Mid(b, i), t) => Mix(w, Mid(b, i - 1), t)
             /\ u = Mid(b, i) => w = Mid(b, i - 1)
<1> DEFINE w == With(Less(u, Txs[b][i].vout), UndoOf(b)[i])
<1>1. \A o \in Outpoints : \/ w[o] = Mid(b, i - 1)[o]
                           \/ w[o] = u[o] /\ Mid(b, i)[o] = Mid(b, i - 1)[o]
  BY UndoPoint, Zenon
<1>2. Mid(b, i - 1) \in Views
  <2>1. Len(Txs[b]) \in Nat
    BY TxsType, Zenon
  <2>2. i - 1 \in 0 .. Len(Txs[b])
    BY <2>1
  <2> QED BY <2>2, MidFacts, Zenon
<1>3. w \in Views
  BY Zenon
<1> HIDE DEF w
<1>4. \A t : Mix(u, Mid(b, i), t) => Mix(w, Mid(b, i - 1), t)
  BY <1>1, Zenon DEF Mix
<1>5. ASSUME u = Mid(b, i) PROVE w = Mid(b, i - 1)
  <2>1. \A o \in Outpoints : w[o] = Mid(b, i - 1)[o]
    BY <1>1, <1>5, Zenon
  <2> QED BY <1>2, <1>3, <2>1, SameView, Zenon
<1> QED BY <1>4, <1>5, Zenon DEF w

\* And it is clean then.
LEMMA UndoClean ==
  ASSUME NEW b \in Blocks, NEW i \in 1 .. Len(Txs[b])
  PROVE  Undoable(Mid(b, i), Txs[b][i].vout, UndoOf(b)[i], Height(b))
<1>1. Mid(b, i) = Apply(Mid(b, i - 1), Txs[b][i], Height(b))
  BY MidFacts, Zenon
<1>2. DOMAIN UndoOf(b)[i] = Txs[b][i].vin
  <2>1. UndoOf(b)[i] = CoinsAt(Mid(b, i - 1), Txs[b][i].vin)
    BY UndoOfType, Zenon
  <2> QED BY <2>1, Zenon DEF CoinsAt
<1>3. Txs[b][i].vin \subseteq Outpoints /\ Txs[b][i].vout \subseteq Outpoints
  BY TxsType, Zenon DEF Transactions
<1> QED BY <1>1, <1>2, <1>3, Zenon DEF Apply, Undoable

\* A block with right undo data is disconnected without a fault, from coins of
\* which some may be those of any other view.  The disconnection is exact and
\* clean if the coins are those of the block's chain.
LEMMA DisconnectGood ==
  ASSUME db.coins \in Views, NEW below \in Views, UndoRight, NEW b \in DOMAIN undo,
         NEW v, Good(v, below)
  PROVE  LET w == DisconnectBlock(v, b)
             u == Seen(v.own, below)
         IN  /\ Good(w, below)
             /\ \A t : Mix(u, UTXO[b], t) => Mix(Seen(w.own, below), UTXO[Prev[b]], t)
             /\ u = UTXO[b] /\ v.clean => w.clean /\ Seen(w.own, below) = UTXO[Prev[b]]
<1> DEFINE n == Len(Txs[b])
           u == Seen(v.own, below)
<1>1. b \in Blocks /\ undo[b] = UndoOf(b) /\ v \in ViewSet
  BY Zenon DEF UndoRight, Good
<1>2. n \in Nat
  BY <1>1, TxsType, Zenon
<1>0. PICK f : Disconnecting(f, v, b)
  BY <1>1, DisconnectLoop, Zenon
<1>3. /\ f[0] = v
      /\ \A k \in 1 .. n : f[k] = UndoTx(f[k - 1], b, n - k + 1)
      /\ DisconnectBlock(v, b) = f[n]
  BY <1>0, Zenon DEF Disconnecting
<1>4. Mid(b, 0) = UTXO[Prev[b]] /\ Mid(b, n) = UTXO[b]
  BY <1>1, MidFacts, Zenon
<1> DEFINE seen(k) == Seen(f[k].own, below)
           Ok(k) == /\ Good(f[k], below)
                    /\ \A t : Mix(u, UTXO[b], t) => Mix(seen(k), Mid(b, n - k), t)
                    /\ u = UTXO[b] /\ v.clean => f[k].clean /\ seen(k) = Mid(b, n - k)
           S == { k \in 0 .. n : Ok(k) }
<1>5. 0 \in 0 .. n /\ n \in 0 .. n /\ n - 0 = n /\ n - n = 0 /\ \A k \in 1 .. n : k \in 0 .. n
  BY <1>2
<1>6. 0 \in S
  <2>1. Good(f[0], below) /\ seen(0) = u /\ f[0].clean = v.clean
    BY <1>3, Zenon
  <2> HIDE DEF u, seen
  <2>2. Ok(0)
    BY <1>4, <1>5, <2>1, Zenon
  <2> QED BY <1>5, <2>2, Zenon
<1>7. ASSUME NEW k \in 1 .. n, k - 1 \in S PROVE k \in S
  <2> DEFINE i == n - k + 1
             x == f[k - 1]
             y == Seen(x.own, below)
             w == With(Less(y, Txs[b][i].vout), UndoOf(b)[i])
  <2>1. i \in 1 .. n /\ n - (k - 1) = i /\ i - 1 = n - k
    BY <1>2
  <2>2. Ok(k - 1)
    BY <1>7, Zenon
  <2>3. /\ Good(x, below)
        /\ \A t : Mix(u, UTXO[b], t) => Mix(y, Mid(b, i), t)
        /\ u = UTXO[b] /\ v.clean => x.clean /\ y = Mid(b, i)
    BY <2>1, <2>2, Zenon
  <2>4. f[k] = UndoTx(x, b, i)
    BY <1>3, Zenon
  <2> HIDE DEF i, x, u
  <2>5. Txs[b][i] \in Transactions /\ undo[b][i] \in SomeCoins /\ undo[b][i] = UndoOf(b)[i]
    BY <1>1, <2>1, TxsType, UndoOfType, Zenon
  <2>6. Height(b) # Spent
    BY <1>1, HeightCoin, Zenon
  <2>7. /\ Good(f[k], below)
        /\ seen(k) = w
        /\ x.clean /\ Undoable(y, Txs[b][i].vout, UndoOf(b)[i], Height(b)) => f[k].clean
    <3> DEFINE z == UndoTx(x, b, i)
    <3>1. Good(z, below)
      BY <2>3, <2>5, <2>6, UndoTxGood, Zenon
    <3>2. Seen(z.own, below) = With(Less(y, Txs[b][i].vout), undo[b][i])
      BY <2>3, <2>5, <2>6, UndoTxGood
    <3>3. x.clean /\ Undoable(y, Txs[b][i].vout, undo[b][i], Height(b)) => z.clean
      BY <2>3, <2>5, <2>6, UndoTxGood, Zenon
    <3>4. f[k] = z
      BY <2>4, Zenon
    <3> HIDE DEF z, y
    <3> QED BY <2>5, <3>1, <3>2, <3>3, <3>4, Zenon
  <2>8. y \in Views /\ seen(k) \in Views
    BY <2>3, <2>7, ViewFields, SeenType, Zenon DEF Good
  <2> HIDE DEF y, seen
  <2>9. /\ \A t : Mix(y, Mid(b, i), t) => Mix(w, Mid(b, i - 1), t)
        /\ y = Mid(b, i) => w = Mid(b, i - 1)
    BY <1>1, <2>1, <2>7, <2>8, UndoMix, Zenon
  <2>10. x.clean /\ y = Mid(b, i) => f[k].clean
    <3>1. Undoable(Mid(b, i), Txs[b][i].vout, UndoOf(b)[i], Height(b))
      BY <1>1, <2>1, UndoClean, Zenon
    <3> QED BY <2>7, <3>1, Zenon
  <2> HIDE DEF w
  <2>11. \A t : Mix(u, UTXO[b], t) => Mix(seen(k), Mid(b, n - k), t)
    BY <2>1, <2>3, <2>7, <2>9, Zenon
  <2>12. u = UTXO[b] /\ v.clean => f[k].clean /\ seen(k) = Mid(b, n - k)
    BY <2>1, <2>3, <2>7, <2>9, <2>10, Zenon
  <2>13. Ok(k)
    BY <2>7, <2>11, <2>12, Zenon
  <2> QED BY <1>5, <2>13, Zenon
<1>8. n \in S
  <2> HIDE DEF S, n
  <2> QED BY <1>2, <1>5, <1>6, <1>7, Upto, Zenon
<1>9. Ok(n)
  BY <1>8, Zenon
<1> HIDE DEF n
<1> QED BY <1>3, <1>4, <1>5, <1>9, Zenon

\* The views of RollforwardBlock, one for each turn of its loop.
Rolling(f, v, b) ==
  LET n == Len(Txs[b])
  IN  /\ f[0] = v
      /\ \A i \in 1 .. n : f[i] = RollforwardTx(f[i - 1], Txs[b][i], Height(b))
      /\ \A i \in 0 .. n : f[i] \in ViewSet
      /\ RollforwardBlock(v, b) = f[n]

\* The loop is what it says.
LEMMA RollforwardLoop ==
  ASSUME db.coins \in Views, NEW b \in Blocks, NEW v \in ViewSet
  PROVE  \E f : Rolling(f, v, b)
<1> DEFINE n == Len(Txs[b])
           F == [p \in ViewSet \X (1 .. n) |-> RollforwardTx(p[1], Txs[b][p[2]], Height(b))]
           Is(f) == f = [i \in 0 .. n |-> IF i = 0 THEN v
                                          ELSE RollforwardTx(f[i - 1], Txs[b][i], Height(b))]
           w == CHOOSE f : Is(f)
<1>1. n \in Nat
  BY TxsType, Zenon
<1>2. \A a \in ViewSet : \A i \in 1 .. n : RollforwardTx(a, Txs[b][i], Height(b)) \in ViewSet
  BY TxsType, HeightCoin, RollforwardTxType, Zenon
<1>3. \A a \in ViewSet : \A i \in 1 .. n :
        F[<<a, i>>] = RollforwardTx(a, Txs[b][i], Height(b)) /\ F[<<a, i>>] \in ViewSet
  BY <1>2, Zenon
<1>4. RollforwardBlock(v, b) = w[n]
  BY Zenon DEF RollforwardBlock
<1> HIDE DEF n, F
<1>5. /\ 0 \in 0 .. n
      /\ \A i \in 0 .. n : i # 0 => i \in 1 .. n
      /\ \A i \in 1 .. n : i \in 0 .. n /\ i # 0 /\ i - 1 \in 0 .. n
  BY <1>1
<1>6. PICK f : Loops(f, n, v, F, ViewSet)
  <2>1. Keeps(F, ViewSet, 1 .. n)
    BY <1>3, Zenon DEF Keeps
  <2> QED BY <1>1, <2>1, LoopExists, Zenon
<1>7. Is(f)
  BY <1>3, <1>5, <1>6, Zenon DEF Loops
<1>8. Is(w)
  BY <1>7, Zenon
<1> HIDE DEF w
<1>9. /\ w[0] = v
      /\ \A i \in 1 .. n : w[i] = RollforwardTx(w[i - 1], Txs[b][i], Height(b))
  BY <1>5, <1>8, Zenon
<1>10. \A i \in 0 .. n : w[i] \in ViewSet
  <2> DEFINE S == { i \in 0 .. n : w[i] \in ViewSet }
  <2>1. 0 \in S
    BY <1>5, <1>9, Zenon
  <2>2. \A i \in 1 .. n : i - 1 \in S => i \in S
    BY <1>2, <1>5, <1>9, Zenon
  <2>3. \A i \in 0 .. n : i \in S
    <3> HIDE DEF S
    <3> QED BY <1>1, <2>1, <2>2, Upto, Zenon
  <2> QED BY <2>3, Zenon
<1>11. Rolling(w, v, b)
  BY <1>4, <1>9, <1>10, Zenon DEF Rolling, n
<1> QED BY <1>11, Zenon

\* A block is rolled forward without a fault, from coins of which some may be
\* those of any other view.
LEMMA RollforwardGood ==
  ASSUME db.coins \in Views, NEW below \in Views, NEW b \in Blocks, NEW v, Good(v, below)
  PROVE  LET w == RollforwardBlock(v, b)
             u == Seen(v.own, below)
         IN  /\ Good(w, below)
             /\ \A t : Mix(u, UTXO[Prev[b]], t) => Mix(Seen(w.own, below), UTXO[b], t)
<1> DEFINE n == Len(Txs[b])
           u == Seen(v.own, below)
<1>1. n \in Nat /\ v \in ViewSet
  BY TxsType, Zenon DEF Good
<1>0. PICK f : Rolling(f, v, b)
  BY <1>1, RollforwardLoop, Zenon
<1>2. /\ f[0] = v
      /\ \A i \in 1 .. n : f[i] = RollforwardTx(f[i - 1], Txs[b][i], Height(b))
      /\ RollforwardBlock(v, b) = f[n]
  BY <1>0, Zenon DEF Rolling
<1>3. Mid(b, 0) = UTXO[Prev[b]] /\ Mid(b, n) = UTXO[b]
  BY MidFacts, Zenon
<1> DEFINE seen(i) == Seen(f[i].own, below)
           Ok(i) == /\ Good(f[i], below)
                    /\ \A t : Mix(u, UTXO[Prev[b]], t) => Mix(seen(i), Mid(b, i), t)
           S == { i \in 0 .. n : Ok(i) }
<1>4. 0 \in 0 .. n /\ n \in 0 .. n /\ \A i \in 1 .. n : i \in 0 .. n
  BY <1>1
<1>5. 0 \in S
  <2>1. Good(f[0], below) /\ seen(0) = u
    BY <1>2, Zenon
  <2> HIDE DEF u, seen
  <2>2. Ok(0)
    BY <1>3, <2>1, Zenon
  <2> QED BY <1>4, <2>2, Zenon
<1>6. ASSUME NEW i \in 1 .. n, i - 1 \in S PROVE i \in S
  <2> DEFINE x == f[i - 1]
             tx == Txs[b][i]
             h == Height(b)
             y == Seen(x.own, below)
  <2>1. Ok(i - 1)
    BY <1>6, Zenon
  <2>2. /\ Good(x, below)
        /\ \A t : Mix(u, UTXO[Prev[b]], t) => Mix(y, Mid(b, i - 1), t)
    BY <2>1, Zenon
  <2>3. f[i] = RollforwardTx(x, tx, h)
    BY <1>2, Zenon
  <2>4. tx \in Transactions /\ h \in Coins
    BY TxsType, HeightCoin, Zenon
  <2>5. Mid(b, i) = Apply(Mid(b, i - 1), tx, h)
    BY MidFacts, Zenon
  <2> HIDE DEF x, tx, h, u
  <2>6. Good(f[i], below) /\ seen(i) = Apply(y, tx, h)
    BY <2>2, <2>3, <2>4, RollforwardTxGood, Zenon
  <2> HIDE DEF y, seen
  <2>7. \A t : Mix(y, Mid(b, i - 1), t) => Mix(seen(i), Mid(b, i), t)
    BY <2>5, <2>6, Zenon DEF Mix, Apply
  <2>8. Ok(i)
    BY <2>2, <2>6, <2>7, Zenon
  <2> QED BY <1>4, <2>8, Zenon
<1>7. n \in S
  <2> HIDE DEF S, n
  <2> QED BY <1>1, <1>4, <1>5, <1>6, Upto, Zenon
<1>8. Ok(n)
  BY <1>7, Zenon
<1> HIDE DEF n
<1> QED BY <1>2, <1>3, <1>8, Zenon

-----------------------------------------------------------------------------
(* The replay of an interrupted flush *)

\* A block is disconnected from a view to a view, also without undo data.
LEMMA DisconnectType ==
  ASSUME db.coins \in Views, UndoRight, NEW b, NEW v \in ViewSet
  PROVE  DisconnectBlock(v, b) \in ViewSet
<1>1. CASE b \in DOMAIN undo
  <2>1. PICK f : Disconnecting(f, v, b)
    BY <1>1, DisconnectLoop, Zenon
  <2>2. Len(Txs[b]) \in 0 .. Len(Txs[b])
    <3>1. Len(Txs[b]) \in Nat
      BY <1>1, TxsType, Zenon DEF UndoRight
    <3> QED BY <3>1
  <2> QED BY <2>1, <2>2, Zenon DEF Disconnecting
<1>2. CASE b \notin DOMAIN undo
  <2> DEFINE f == FirstFault(v.fault, TRUE, "no undo data")
  <2>1. DisconnectBlock(v, b) = Layers(v.own, v.base, v.undo, v.clean, f)
    BY <1>2, Zenon DEF DisconnectBlock
  <2>2. "no undo data" \in Faults
    BY Zenon DEF Faults
  <2>3. /\ v.own \in Caches /\ v.base \in Caches /\ v.undo \in Seq(SomeCoins)
        /\ v.clean \in BOOLEAN /\ v.fault \in Faults
    BY ViewFields, Zenon
  <2>4. f \in Faults
    BY <2>2, <2>3, FirstFaultType, Zenon
  <2> HIDE DEF f
  <2> QED BY <2>1, <2>3, <2>4, LayersType, Zenon
<1> QED BY <1>1, <1>2, Zenon

\* A block is rolled forward from a view to a view.
LEMMA RollforwardType ==
  ASSUME db.coins \in Views, NEW b \in Blocks, NEW v \in ViewSet
  PROVE  RollforwardBlock(v, b) \in ViewSet
<1>1. PICK f : Rolling(f, v, b)
  BY RollforwardLoop, Zenon
<1>2. Len(Txs[b]) \in 0 .. Len(Txs[b])
  <2>1. Len(Txs[b]) \in Nat
    BY TxsType, Zenon
  <2> QED BY <2>1
<1> QED BY <1>1, <1>2, Zenon DEF Rolling

\* The views of Rollback, one for each block of the old branch.
RollingBack(f, v, old, fork) ==
  LET n == Height(old) - fork
  IN  /\ f[0] = v
      /\ \A k \in 1 .. n : f[k] = DisconnectBlock(f[k - 1], BlockAt(old, Height(old) - k + 1))
      /\ Rollback(v, old, fork) = f[n]

\* The loop is what it says.
LEMMA RollbackLoop ==
  ASSUME db.coins \in Views, UndoRight, NEW old \in Nodes, NEW fork \in 0 .. Height(old),
         NEW v \in ViewSet
  PROVE  \E f : RollingBack(f, v, old, fork)
<1> DEFINE n == Height(old) - fork
           b(k) == BlockAt(old, Height(old) - k + 1)
           F == [p \in ViewSet \X (1 .. n) |-> DisconnectBlock(p[1], b(p[2]))]
           Is(f) == f = [k \in 0 .. n |-> IF k = 0 THEN v ELSE DisconnectBlock(f[k - 1], b(k))]
           w == CHOOSE f : Is(f)
<1>0. Height(old) \in Nat
  BY HeightStep, Zenon
<1>1. n \in Nat
  BY <1>0
<1>2. Rollback(v, old, fork) = w[n]
  BY Zenon DEF Rollback
<1> HIDE DEF b
<1>3. \A a \in ViewSet : \A k \in 1 .. n :
        F[<<a, k>>] = DisconnectBlock(a, b(k)) /\ F[<<a, k>>] \in ViewSet
  BY DisconnectType, Zenon
<1> HIDE DEF n, F
<1>4. /\ 0 \in 0 .. n
      /\ \A i \in 0 .. n : i # 0 => i \in 1 .. n
      /\ \A i \in 1 .. n : i \in 0 .. n /\ i # 0 /\ i - 1 \in 0 .. n
  BY <1>1
<1>5. PICK f : Loops(f, n, v, F, ViewSet)
  <2>1. Keeps(F, ViewSet, 1 .. n)
    BY <1>3, Zenon DEF Keeps
  <2> QED BY <1>1, <2>1, LoopExists, Zenon
<1>6. Is(f)
  BY <1>3, <1>4, <1>5, Zenon DEF Loops
<1>7. Is(w)
  BY <1>6, Zenon
<1> HIDE DEF w
<1>8. w[0] = v /\ \A k \in 1 .. n : w[k] = DisconnectBlock(w[k - 1], b(k))
  BY <1>4, <1>7, Zenon
<1>9. RollingBack(w, v, old, fork)
  BY <1>2, <1>8, Zenon DEF RollingBack, n, b
<1> QED BY <1>9, Zenon

\* Along the old branch, down to the fork: no fault, and coins that were those
\* of the old tip are then those of the fork, but for coins of another view.
LEMMA RollbackGood ==
  ASSUME db.coins \in Views, NEW below \in Views, UndoRight,
         NEW old \in Nodes, Ancestors(old) \subseteq DOMAIN undo,
         NEW fork \in 0 .. Height(old), NEW v, Good(v, below)
  PROVE  LET w == Rollback(v, old, fork)
             u == Seen(v.own, below)
         IN  /\ Good(w, below)
             /\ \A t : Mix(u, UTXO[old], t) => Mix(Seen(w.own, below), UTXO[BlockAt(old, fork)], t)
<1> DEFINE top == Height(old)
           n == top - fork
           u == Seen(v.own, below)
           at(h) == BlockAt(old, h)
<1>0. top \in Nat
  BY HeightStep, Zenon
<1>1. n \in Nat /\ v \in ViewSet
  <2>1. n \in Nat
    BY <1>0
  <2> QED BY <2>1, Zenon DEF Good
<1>2. PICK f : RollingBack(f, v, old, fork)
  BY <1>1, RollbackLoop, Zenon
<1>3. /\ f[0] = v
      /\ \A k \in 1 .. n : f[k] = DisconnectBlock(f[k - 1], at(top - k + 1))
      /\ Rollback(v, old, fork) = f[n]
  BY <1>2, Zenon DEF RollingBack
<1>4. /\ at(top) = old
      /\ \A h \in 1 .. top : at(h) \in DOMAIN undo /\ Prev[at(h)] = at(h - 1)
  BY LevelsAll, Zenon DEF Levels
<1> DEFINE seen(k) == Seen(f[k].own, below)
           Ok(k) == /\ Good(f[k], below)
                    /\ \A t : Mix(u, UTXO[old], t) => Mix(seen(k), UTXO[at(top - k)], t)
           S == { k \in 0 .. n : Ok(k) }
<1> HIDE DEF top, at
<1>5. /\ 0 \in 0 .. n /\ n \in 0 .. n /\ top - 0 = top /\ top - n = fork
      /\ \A k \in 1 .. n : k \in 0 .. n
      /\ \A k \in 1 .. n : /\ top - k + 1 \in 1 .. top
                           /\ top - (k - 1) = top - k + 1 /\ top - k + 1 - 1 = top - k
  <2>1. fork \in 0 .. top
    BY Zenon DEF top
  <2> QED BY <1>0, <2>1
<1> HIDE DEF n
<1>6. 0 \in S
  <2>1. Good(f[0], below) /\ seen(0) = u
    BY <1>3, Zenon
  <2> HIDE DEF u, seen
  <2>2. Ok(0)
    BY <1>4, <1>5, <2>1, Zenon
  <2> QED BY <1>5, <2>2, Zenon
<1>7. ASSUME NEW k \in 1 .. n, k - 1 \in S PROVE k \in S
  <2> DEFINE b == at(top - k + 1)
             x == f[k - 1]
             y == Seen(x.own, below)
             z == DisconnectBlock(x, b)
  <2>1. Ok(k - 1)
    BY <1>7, Zenon
  <2>2. Good(x, below) /\ \A t : Mix(u, UTXO[old], t) => Mix(y, UTXO[b], t)
    BY <1>5, <2>1, Zenon
  <2>3. b \in DOMAIN undo /\ Prev[b] = at(top - k)
    <3> DEFINE h == top - k + 1
    <3>1. h \in 1 .. top /\ h - 1 = top - k
      BY <1>5
    <3> HIDE DEF h
    <3>2. at(h) \in DOMAIN undo /\ Prev[at(h)] = at(h - 1)
      BY <1>4, <3>1, Zenon
    <3> QED BY <3>1, <3>2, Zenon DEF h
  <2>4. f[k] = z
    BY <1>3, Zenon
  <2> HIDE DEF b, x, u
  <2>5. Good(z, below)
    BY <2>2, <2>3, DisconnectGood, Zenon
  <2>6. \A t : Mix(y, UTXO[b], t) => Mix(Seen(z.own, below), UTXO[Prev[b]], t)
    BY <2>2, <2>3, DisconnectGood, Zenon
  <2> HIDE DEF y, z
  <2>7. \A t : Mix(u, UTXO[old], t) => Mix(seen(k), UTXO[at(top - k)], t)
    BY <2>2, <2>3, <2>4, <2>6, Zenon
  <2>8. Ok(k)
    BY <2>4, <2>5, <2>7, Zenon
  <2> QED BY <1>5, <2>8, Zenon
<1>8. n \in S
  <2> HIDE DEF S
  <2> QED BY <1>1, <1>5, <1>6, <1>7, Upto, Zenon
<1>9. Ok(n)
  BY <1>8, Zenon
<1> HIDE DEF u
<1>10. \A t : Mix(u, UTXO[old], t) => Mix(seen(n), UTXO[at(fork)], t)
  BY <1>5, <1>9, Zenon
<1> QED BY <1>3, <1>9, <1>10, Zenon DEF u, at

\* The views of Rollforward, one for each block of the new branch.
RollingForward(f, v, new, fork) ==
  LET n == Height(new) - fork
  IN  /\ f[0] = v
      /\ \A k \in 1 .. n : f[k] = RollforwardBlock(f[k - 1], BlockAt(new, fork + k))
      /\ Rollforward(v, new, fork) = f[n]

\* The loop is what it says.
LEMMA RollforwardsLoop ==
  ASSUME db.coins \in Views, NEW new \in Nodes, NEW fork \in 0 .. Height(new), NEW v \in ViewSet
  PROVE  \E f : RollingForward(f, v, new, fork)
<1> DEFINE top == Height(new)
           n == top - fork
           b(k) == BlockAt(new, fork + k)
           F == [p \in ViewSet \X (1 .. n) |-> RollforwardBlock(p[1], b(p[2]))]
           Is(f) == f = [k \in 0 .. n |-> IF k = 0 THEN v ELSE RollforwardBlock(f[k - 1], b(k))]
           w == CHOOSE f : Is(f)
<1>0. top \in Nat
  BY HeightStep, Zenon
<1>1. n \in Nat
  BY <1>0
<1>2. Rollforward(v, new, fork) = w[n]
  BY Zenon DEF Rollforward
<1>3. \A k \in 1 .. n : b(k) \in Blocks
  <2>1. \A h \in 1 .. top : BlockAt(new, h) \in Blocks
    BY LevelsAll, AncestorsClosed, Zenon DEF Levels
  <2>2. \A k \in 1 .. n : fork + k \in 1 .. top
    BY <1>0
  <2> QED BY <2>1, <2>2, Zenon
<1> HIDE DEF b
<1>4. \A a \in ViewSet : \A k \in 1 .. n :
        F[<<a, k>>] = RollforwardBlock(a, b(k)) /\ F[<<a, k>>] \in ViewSet
  BY <1>3, RollforwardType, Zenon
<1> HIDE DEF n, F
<1>5. /\ 0 \in 0 .. n
      /\ \A i \in 0 .. n : i # 0 => i \in 1 .. n
      /\ \A i \in 1 .. n : i \in 0 .. n /\ i # 0 /\ i - 1 \in 0 .. n
  BY <1>1
<1>6. PICK f : Loops(f, n, v, F, ViewSet)
  <2>1. Keeps(F, ViewSet, 1 .. n)
    BY <1>4, Zenon DEF Keeps
  <2> QED BY <1>1, <2>1, LoopExists, Zenon
<1>7. Is(f)
  BY <1>4, <1>5, <1>6, Zenon DEF Loops
<1>8. Is(w)
  BY <1>7, Zenon
<1> HIDE DEF w
<1>9. w[0] = v /\ \A k \in 1 .. n : w[k] = RollforwardBlock(w[k - 1], b(k))
  BY <1>5, <1>8, Zenon
<1>10. RollingForward(w, v, new, fork)
  BY <1>2, <1>9, Zenon DEF RollingForward, n, b
<1> QED BY <1>10, Zenon

\* Along the new branch, from the fork: no fault, and coins that were those of
\* the fork are then those of the new tip, but for coins of another view.
LEMMA RollforwardsGood ==
  ASSUME db.coins \in Views, NEW below \in Views, NEW new \in Nodes,
         NEW fork \in 0 .. Height(new), NEW v, Good(v, below)
  PROVE  LET w == Rollforward(v, new, fork)
             u == Seen(v.own, below)
         IN  /\ Good(w, below)
             /\ \A t : Mix(u, UTXO[BlockAt(new, fork)], t) => Mix(Seen(w.own, below), UTXO[new], t)
<1> DEFINE top == Height(new)
           n == top - fork
           u == Seen(v.own, below)
           at(h) == BlockAt(new, h)
<1>0. top \in Nat
  BY HeightStep, Zenon
<1>1. n \in Nat /\ v \in ViewSet
  <2>1. n \in Nat
    BY <1>0
  <2> QED BY <2>1, Zenon DEF Good
<1>2. PICK f : RollingForward(f, v, new, fork)
  BY <1>1, RollforwardsLoop, Zenon
<1>3. /\ f[0] = v
      /\ \A k \in 1 .. n : f[k] = RollforwardBlock(f[k - 1], at(fork + k))
      /\ Rollforward(v, new, fork) = f[n]
  BY <1>2, Zenon DEF RollingForward
<1>4. at(top) = new
  BY LevelsAll, Zenon DEF Levels
<1>a. \A h \in 1 .. top : at(h) \in Blocks /\ Prev[at(h)] = at(h - 1)
  BY LevelsAll, AncestorsClosed, Zenon DEF Levels
<1> DEFINE seen(k) == Seen(f[k].own, below)
           Ok(k) == /\ Good(f[k], below)
                    /\ \A t : Mix(u, UTXO[at(fork)], t) => Mix(seen(k), UTXO[at(fork + k)], t)
           S == { k \in 0 .. n : Ok(k) }
<1> HIDE DEF top, at
<1>5. /\ 0 \in 0 .. n /\ n \in 0 .. n /\ fork + 0 = fork /\ fork + n = top
      /\ \A k \in 1 .. n : k \in 0 .. n
      /\ \A k \in 1 .. n : fork + k \in 1 .. top /\ fork + k - 1 = fork + (k - 1)
  <2>1. fork \in 0 .. top
    BY Zenon DEF top
  <2> QED BY <1>0, <2>1
<1> HIDE DEF n
<1>6. 0 \in S
  <2>1. Good(f[0], below) /\ seen(0) = u
    BY <1>3, Zenon
  <2> HIDE DEF u, seen
  <2>2. Ok(0)
    BY <1>5, <2>1, Zenon
  <2> QED BY <1>5, <2>2, Zenon
<1>7. ASSUME NEW k \in 1 .. n, k - 1 \in S PROVE k \in S
  <2> DEFINE b == at(fork + k)
             x == f[k - 1]
             y == Seen(x.own, below)
             z == RollforwardBlock(x, b)
  <2>1. Ok(k - 1)
    BY <1>7, Zenon
  <2>2. b \in Blocks /\ Prev[b] = at(fork + (k - 1))
    <3> DEFINE h == fork + k
    <3>1. h \in 1 .. top /\ h - 1 = fork + (k - 1)
      BY <1>5
    <3> HIDE DEF h
    <3>2. at(h) \in Blocks /\ Prev[at(h)] = at(h - 1)
      BY <1>a, <3>1, Zenon
    <3> QED BY <3>1, <3>2, Zenon DEF h
  <2>3. Good(x, below) /\ \A t : Mix(u, UTXO[at(fork)], t) => Mix(y, UTXO[Prev[b]], t)
    BY <2>1, <2>2, Zenon
  <2>4. f[k] = z
    BY <1>3, Zenon
  <2> HIDE DEF b, x, u
  <2>5. Good(z, below)
    BY <2>2, <2>3, RollforwardGood, Zenon
  <2>6. \A t : Mix(y, UTXO[Prev[b]], t) => Mix(Seen(z.own, below), UTXO[b], t)
    BY <2>2, <2>3, RollforwardGood, Zenon
  <2> HIDE DEF y, z
  <2>7. \A t : Mix(u, UTXO[at(fork)], t) => Mix(seen(k), UTXO[b], t)
    BY <2>3, <2>4, <2>6, Zenon
  <2>8. Ok(k)
    BY <2>4, <2>5, <2>7, Zenon DEF b
  <2> QED BY <1>5, <2>8, Zenon
<1>8. n \in S
  <2> HIDE DEF S
  <2> QED BY <1>1, <1>5, <1>6, <1>7, Upto, Zenon
<1>9. Ok(n)
  BY <1>8, Zenon
<1> HIDE DEF u
<1>10. \A t : Mix(u, UTXO[at(fork)], t) => Mix(seen(n), UTXO[new], t)
  BY <1>4, <1>5, <1>9, Zenon
<1> QED BY <1>3, <1>9, <1>10, Zenon DEF u, at

\* ReplayBlocks, on a database that a crash has left with coins of the old tip
\* and of the new one in any mixture: no fault, flags that are right, and the
\* coins of the new tip.
THEOREM ReplayExact ==
  ASSUME db.coins \in Views, UndoRight, NEW old \in Nodes, NEW new \in Nodes,
         Ancestors(old) \subseteq DOMAIN undo, Mix(db.coins, UTXO[new], UTXO[old])
  PROVE  LET v == Replay(old, new)
         IN  /\ v.fault = "none" /\ v.own \in Caches
             /\ Sound(v.own, db.coins) /\ Seen(v.own, db.coins) = UTXO[new]
<1> DEFINE below == db.coins
           fork == ForkHeight(old, new)
           v0 == View(<<>>)
           v1 == Rollback(v0, old, fork)
           v2 == Rollforward(v1, new, fork)
           t == UTXO[new]
<1>1. fork \in 0 .. Height(old) /\ fork \in 0 .. Height(new) /\ BlockAt(old, fork) = BlockAt(new, fork)
  BY ForkCommon, Zenon
<1>2. Replay(old, new) = v2
  BY Zenon DEF Replay
<1>3. Good(v0, below) /\ Seen(v0.own, below) = below
  <2>1. Sound(<<>>, below) /\ Seen(<<>>, below) = below
    BY SeenEmpty, Zenon
  <2>2. <<>> \in Caches
    BY EmptyCache, Zenon
  <2>3. LET b == Seen(<<>>, below) IN Good(View(<<>>), b) /\ Seen(View(<<>>).own, b) = b
    BY <2>1, <2>2, ViewSound, Zenon
  <2> QED BY <2>1, <2>3, Zenon
<1>4. Mix(below, UTXO[old], t)
  BY Zenon DEF Mix
<1> HIDE DEF fork, v0, below, t
<1>5. below \in Views /\ t \in Views
  BY UTXODef, Zenon DEF below, t
<1>6. Good(v1, below)
  BY <1>1, <1>3, <1>5, RollbackGood, Zenon
<1>7. \A s : Mix(Seen(v0.own, below), UTXO[old], s)
              => Mix(Seen(v1.own, below), UTXO[BlockAt(old, fork)], s)
  BY <1>1, <1>3, <1>5, RollbackGood, Zenon
<1> HIDE DEF v1
<1>8. Good(v2, below)
  BY <1>1, <1>5, <1>6, RollforwardsGood, Zenon
<1>9. \A s : Mix(Seen(v1.own, below), UTXO[BlockAt(new, fork)], s)
              => Mix(Seen(v2.own, below), UTXO[new], s)
  BY <1>1, <1>5, <1>6, RollforwardsGood, Zenon
<1> HIDE DEF v2
<1>10. Mix(Seen(v2.own, below), t, t)
  BY <1>1, <1>3, <1>4, <1>7, <1>9, Zenon DEF t
<1>11. v2.own \in Caches /\ Seen(v2.own, below) \in Views
  BY <1>5, <1>8, ViewFields, SeenType, Zenon DEF Good
<1>12. Seen(v2.own, below) = t
  <2>1. \A o \in Outpoints : Seen(v2.own, below)[o] = t[o]
    BY <1>10, Zenon DEF Mix
  <2> QED BY <1>5, <1>11, <2>1, SameView, Zenon
<1> QED BY <1>2, <1>8, <1>11, <1>12, Zenon DEF Good, below, t

-----------------------------------------------------------------------------
(* The invariant *)

\* The chain of b is on disk, with what it takes to disconnect its blocks.
Kept(b) == Ancestors(b) \subseteq stored /\ Ancestors(b) \subseteq DOMAIN undo

\* The database is at block b.
AtBlock(b) ==
  /\ b \in Nodes /\ Kept(b)
  /\ db.best = b /\ db.heads = <<>> /\ db.coins = UTXO[b]

\* A flush that was to lead from block old to block new is not complete.
Between(new, old) ==
  /\ new \in Nodes /\ old \in Nodes /\ Kept(new) /\ Kept(old)
  /\ db.best = None /\ db.heads = <<new, old>>
  /\ Mix(db.coins, UTXO[new], UTXO[old])

DiskInv ==
  /\ db.coins \in Views
  /\ (\E b : AtBlock(b)) \/ (\E new, old : Between(new, old))

\* What is in memory: the cache, with the database below it, has the coins of
\* the tip.
MemoryInv ==
  IF mode = "down" THEN cache = <<>> /\ best = None
  ELSE /\ best \in Nodes /\ Ancestors(best) \subseteq DOMAIN undo
       /\ cache \in Caches /\ Sound(cache, db.coins) /\ Seen(cache, db.coins) = UTXO[best]

FileInv == UndoRight /\ Root \in stored /\ stored \subseteq Nodes

\* Who is at work.  Only a flush leaves the database between two blocks, and
\* the one that goes on leads to the tip.
ModeInv ==
  /\ fault = "none"
  /\ mode \in {"idle", "flush", "closing", "closed", "replay", "down"}
  /\ mode \in {"idle", "closed"} => db.heads = <<>>
  /\ mode = "replay" => db.heads # <<>>
  /\ Writing => Ancestors(best) \subseteq stored
  /\ mode # "down" /\ db.heads # <<>> => db.heads[1] = best

IInv == DiskInv /\ MemoryInv /\ FileInv /\ ModeInv

\* The initial states satisfy it.
LEMMA InitInv == Init => IInv
<1> SUFFICES ASSUME Init PROVE IInv
  BY Zenon
<1>1. /\ db.coins = UTXO[Root] /\ db.best = Root /\ db.heads = <<>>
      /\ cache = <<>> /\ best = Root /\ undo = <<>> /\ stored = {Root}
      /\ mode = "idle" /\ fault = "none"
  BY Zenon DEF Init
<1>2. Root \in Nodes /\ UTXO[Root] \in Views /\ Ancestors(Root) = {}
  BY UTXODef, AncestorsStep, Zenon DEF Nodes
<1>3. DiskInv
  <2>1. AtBlock(Root)
    BY <1>1, <1>2, Zenon DEF AtBlock, Kept
  <2> QED BY <1>1, <1>2, <2>1, Zenon DEF DiskInv
<1>4. MemoryInv
  <2>1. cache \in Caches /\ Sound(cache, db.coins) /\ Seen(cache, db.coins) = UTXO[best]
    BY <1>1, <1>2, EmptyCache, SeenEmpty, Zenon
  <2>2. best \in Nodes /\ Ancestors(best) \subseteq DOMAIN undo /\ mode # "down"
    BY <1>1, <1>2, Zenon
  <2> QED BY <2>1, <2>2, Zenon DEF MemoryInv
<1>5. FileInv
  <2>1. DOMAIN undo = {}
    BY <1>1, EmptyCache, Zenon
  <2> QED BY <1>1, <1>2, <2>1, Zenon DEF FileInv, UndoRight
<1>6. ModeInv
  BY <1>1, Zenon DEF ModeInv, Writing
<1> QED BY <1>3, <1>4, <1>5, <1>6, Zenon DEF IInv

\* A database that is not written to is as well kept as before, when blocks and
\* undo data are only added.
LEMMA DiskStays ==
  ASSUME DiskInv, db' = db, stored \subseteq stored', DOMAIN undo \subseteq DOMAIN undo'
  PROVE  DiskInv'
<1>1. \A b : Kept(b) => Kept(b)'
  BY Zenon DEF Kept
<1>2. \A b : AtBlock(b) => AtBlock(b)'
  BY <1>1, Zenon DEF AtBlock
<1>3. \A new, old : Between(new, old) => Between(new, old)'
  BY <1>1, Zenon DEF Between
<1> QED BY <1>2, <1>3, Zenon DEF DiskInv

\* The end of a handler that holds cs_main and does not write coins: it may go
\* on with a flush, and then the block index is written first.
Returns ==
  /\ db' = db /\ fault' = "none"
  /\ mode' \in {"idle", "flush", "closing"}
  /\ stored \subseteq stored' /\ stored' \subseteq stored \cup DOMAIN undo'
  /\ mode' # "idle" => DOMAIN undo' \subseteq stored'

\* FlushStateToDisk ends a handler like that.
LEMMA FlushStateReturns ==
  ASSUME FlushStateToDisk, db' = db, fault' = "none"
  PROVE  Returns
BY Zenon DEF FlushStateToDisk, WriteIndex, Returns

\* Such a handler keeps the invariant when it leaves the coins of the tip in
\* the cache, and undo data for the chain of the tip.
LEMMA ReturnInv ==
  ASSUME IInv, mode = "idle", Returns, UndoRight', DOMAIN undo \subseteq DOMAIN undo',
         best' \in Nodes, Ancestors(best') \subseteq DOMAIN undo', cache' \in Caches,
         Sound(cache', db.coins), Seen(cache', db.coins) = UTXO[best']
  PROVE  IInv'
<1>1. db.heads = <<>> /\ DiskInv /\ FileInv
  BY Zenon DEF IInv, ModeInv
<1>2. DiskInv'
  BY <1>1, DiskStays, Zenon DEF Returns
<1>3. MemoryInv'
  BY Zenon DEF MemoryInv, Returns
<1>4. FileInv'
  <2>1. DOMAIN undo' \subseteq Nodes
    BY Zenon DEF UndoRight, Nodes
  <2> QED BY <1>1, <2>1, Zenon DEF FileInv, Returns
<1>5. ModeInv'
  <2>1. db'.heads = <<>>
    BY <1>1, Zenon DEF Returns
  <2>2. mode' # "idle" => Ancestors(best') \subseteq stored'
    BY Zenon DEF Returns
  <2>3. fault' = "none" /\ mode' \in {"idle", "flush", "closing"}
    BY Zenon DEF Returns
  <2>4. Writing' => mode' # "idle"
    BY Zenon DEF Writing
  <2> QED BY <2>1, <2>2, <2>3, <2>4, Zenon DEF ModeInv
<1> QED BY <1>2, <1>3, <1>4, <1>5, Zenon DEF IInv

\* What is known while the node is idle.
LEMMA IdleFacts ==
  ASSUME IInv, mode = "idle"
  PROVE  /\ db.coins \in Views /\ cache \in Caches /\ Sound(cache, db.coins)
         /\ best \in Nodes /\ Seen(cache, db.coins) = UTXO[best]
         /\ Ancestors(best) \subseteq DOMAIN undo /\ UndoRight /\ fault = "none"
BY Zenon DEF IInv, DiskInv, MemoryInv, FileInv, ModeInv

\* Flush of a good view into pcoinsTip.
LEMMA FlushViewGood ==
  ASSUME db.coins \in Views, NEW v, NEW below \in Views, Good(v, below), FlushView(v, "none")
  PROVE  /\ cache' \in Caches /\ fault' = "none" /\ Sound(cache', db.coins)
         /\ Seen(cache', db.coins) = Seen(v.own, below)
<1>1. /\ v.own \in Caches /\ v.base \in Caches
      /\ Seen(v.base, db.coins) = below /\ Sound(v.base, db.coins) /\ Sound(v.own, below)
  BY ViewFields, Zenon DEF Good
<1>2. /\ ~BatchThrows(v.base, v.own)
      /\ BatchWrite(v.base, v.own) \in Caches
      /\ Sound(BatchWrite(v.base, v.own), db.coins)
      /\ Seen(BatchWrite(v.base, v.own), db.coins) = Seen(v.own, below)
  BY <1>1, BatchWriteSound, Zenon
<1> QED BY <1>2, Zenon DEF FlushView, FirstFault

\* ConnectTip keeps the invariant.
LEMMA ConnectInv ==
  ASSUME IInv, NEW b \in Blocks, ConnectTip(b)
  PROVE  IInv'
<1> DEFINE v == ConnectBlock(b)
           below == UTXO[Prev[b]]
<1>1. /\ mode = "idle" /\ Prev[b] = best /\ best' = b /\ db' = db
      /\ FlushView(v, v.fault) /\ FlushStateToDisk
      /\ undo' = [x \in DOMAIN undo \cup {b} |-> IF x \in DOMAIN undo THEN undo[x] ELSE v.undo]
  BY Zenon DEF ConnectTip
<1>2. /\ db.coins \in Views /\ cache \in Caches /\ Sound(cache, db.coins)
      /\ Seen(cache, db.coins) = UTXO[Prev[b]] /\ Ancestors(Prev[b]) \subseteq DOMAIN undo
      /\ UndoRight
  BY <1>1, IdleFacts, Zenon
<1>3. Good(v, below) /\ Seen(v.own, below) = UTXO[b] /\ v.undo = UndoOf(b)
  BY <1>2, ConnectGood, Zenon
<1>4. below \in Views /\ b \in Nodes
  BY UTXODef, HeightStep, BlockHeight, Zenon
<1> HIDE DEF v, below
<1>5. v.fault = "none"
  BY <1>3, Zenon DEF Good
<1>6. /\ cache' \in Caches /\ fault' = "none" /\ Sound(cache', db.coins)
      /\ Seen(cache', db.coins) = UTXO[b]
  BY <1>1, <1>2, <1>3, <1>4, <1>5, FlushViewGood, Zenon
<1>7. DOMAIN undo' = DOMAIN undo \cup {b} /\ UndoRight'
  <2>1. DOMAIN undo' = DOMAIN undo \cup {b}
    BY <1>1, Zenon
  <2>2. \A x \in DOMAIN undo' : x \in Blocks /\ undo'[x] = UndoOf(x)
    BY <1>1, <1>2, <1>3, Zenon DEF UndoRight
  <2> QED BY <2>1, <2>2, Zenon DEF UndoRight
<1>8. Ancestors(b) \subseteq DOMAIN undo'
  BY <1>2, <1>7, AncestorsStep, Zenon
<1>9. Returns
  BY <1>1, <1>6, FlushStateReturns, Zenon
<1> QED BY <1>1, <1>4, <1>6, <1>7, <1>8, <1>9, ReturnInv, Zenon

\* DisconnectTip keeps the invariant.
LEMMA DisconnectInv ==
  ASSUME IInv, DisconnectTip
  PROVE  IInv'
<1> DEFINE v == View(cache)
           w == DisconnectBlock(v, best)
           below == UTXO[best]
<1>1. /\ mode = "idle" /\ best \in Blocks /\ best' = Prev[best] /\ db' = db /\ undo' = undo
      /\ FlushView(w, FirstFault(w.fault, ~w.clean, "unclean")) /\ FlushStateToDisk
  BY Zenon DEF DisconnectTip
<1>2. /\ db.coins \in Views /\ cache \in Caches /\ Sound(cache, db.coins)
      /\ Seen(cache, db.coins) = below /\ Ancestors(best) \subseteq DOMAIN undo
      /\ UndoRight
  BY <1>1, IdleFacts, Zenon
<1>3. Ancestors(best) = Ancestors(Prev[best]) \cup {best}
  BY <1>1, AncestorsStep, Zenon
<1>4. best \in DOMAIN undo
  BY <1>2, <1>3, Zenon
<1>5. below \in Views /\ Prev[best] \in Nodes
  BY <1>1, UTXODef, HeightStep, BlockHeight, Zenon
<1>6. Good(v, below) /\ Seen(v.own, below) = below /\ v.clean
  BY <1>2, ViewSound, ViewGood, Zenon
<1> HIDE DEF v
<1>7. Good(w, below)
  BY <1>2, <1>4, <1>5, <1>6, DisconnectGood, Zenon
<1>8. Seen(v.own, below) = UTXO[best] /\ v.clean => w.clean /\ Seen(w.own, below) = UTXO[Prev[best]]
  BY <1>2, <1>4, <1>5, <1>6, DisconnectGood, Zenon
<1>9. w.clean /\ Seen(w.own, below) = UTXO[Prev[best]]
  BY <1>6, <1>8, Zenon
<1> HIDE DEF w, below
<1>10. FirstFault(w.fault, ~w.clean, "unclean") = "none"
  BY <1>7, <1>9, Zenon DEF Good, FirstFault
<1>11. /\ cache' \in Caches /\ fault' = "none" /\ Sound(cache', db.coins)
       /\ Seen(cache', db.coins) = UTXO[Prev[best]]
  BY <1>1, <1>2, <1>5, <1>7, <1>9, <1>10, FlushViewGood, Zenon
<1>12. UndoRight' /\ Ancestors(best') \subseteq DOMAIN undo'
  BY <1>1, <1>2, <1>3, Zenon DEF UndoRight
<1>13. Returns
  BY <1>1, <1>11, FlushStateReturns, Zenon
<1> QED BY <1>1, <1>5, <1>11, <1>12, <1>13, ReturnInv, Zenon

\* So do the readers of pcoinsTip,
LEMMA ReadersInv ==
  ASSUME IInv, NEW o \in Outpoints, Read(o) \/ Forget(o)
  PROVE  IInv'
<1>1. /\ mode = "idle" /\ db' = db /\ best' = best /\ undo' = undo /\ stored' = stored
      /\ mode' = mode /\ fault' = fault
  BY Zenon DEF Read, Forget
<1>2. /\ db.coins \in Views /\ cache \in Caches /\ Sound(cache, db.coins)
      /\ best \in Nodes /\ Seen(cache, db.coins) = UTXO[best]
      /\ Ancestors(best) \subseteq DOMAIN undo /\ UndoRight /\ fault = "none"
  BY <1>1, IdleFacts, Zenon
<1>3. /\ cache' \in Caches /\ Sound(cache', db.coins)
      /\ Seen(cache', db.coins) = Seen(cache, db.coins)
  <2>1. CASE Read(o)
    <3>1. cache' = FetchCoin(cache, db.coins, {o}) /\ {o} \in SUBSET Outpoints
      BY <2>1, Zenon DEF Read
    <3> QED BY <1>2, <3>1, FetchCoinSound, Zenon
  <2>2. CASE Forget(o)
    <3>1. cache' = Uncache(cache, o)
      BY <2>2, Zenon DEF Forget
    <3> QED BY <1>2, <3>1, UncacheSound, Zenon
  <2> QED BY <2>1, <2>2, Zenon
<1>4. UndoRight'
  BY <1>1, <1>2, Zenon DEF UndoRight
<1>5. Returns
  BY <1>1, <1>2, Zenon DEF Returns
<1> QED BY <1>1, <1>2, <1>3, <1>4, <1>5, ReturnInv, Zenon

\* and the flushes that begin on their own.
LEMMA PeriodicInv ==
  ASSUME IInv, Periodic \/ Close
  PROVE  IInv'
<1>1. /\ mode = "idle" /\ db' = db /\ best' = best /\ undo' = undo /\ cache' = cache
      /\ fault' = fault
  BY Zenon DEF Periodic, Close
<1>2. /\ db.coins \in Views /\ cache \in Caches /\ Sound(cache, db.coins)
      /\ best \in Nodes /\ Seen(cache, db.coins) = UTXO[best]
      /\ Ancestors(best) \subseteq DOMAIN undo /\ UndoRight /\ fault = "none"
  BY <1>1, IdleFacts, Zenon
<1>3. Returns
  <2>1. CASE Periodic
    BY <1>1, <1>2, <2>1, FlushStateReturns, Zenon DEF Periodic
  <2>2. CASE Close
    BY <1>1, <1>2, <2>2, Zenon DEF Close, WriteIndex, Returns
  <2> QED BY <2>1, <2>2, Zenon
<1>4. UndoRight'
  BY <1>1, <1>2, Zenon DEF UndoRight
<1> QED BY <1>1, <1>2, <1>3, <1>4, ReturnInv, Zenon

\* What is known while coins are written.
LEMMA WritingFacts ==
  ASSUME IInv, Writing
  PROVE  /\ db.coins \in Views /\ cache \in Caches /\ Sound(cache, db.coins)
         /\ best \in Nodes /\ Seen(cache, db.coins) = UTXO[best]
         /\ Kept(best) /\ FileInv /\ fault = "none" /\ mode # "down"
<1>1. mode # "down"
  BY Zenon DEF Writing
<1> QED BY <1>1, Zenon DEF IInv, DiskInv, MemoryInv, ModeInv, Kept

\* Two heads are not no heads.
LEMMA TwoHeads == \A new, old : <<new, old>> # <<>> /\ <<new, old>>[1] = new /\ <<new, old>>[2] = old
OBVIOUS

\* A partial batch keeps the invariant: with what was written, every coin is
\* still that of the new tip or of the one that the flush started from.
LEMMA WriteBatchInv ==
  ASSUME IInv, NEW S \in SUBSET DOMAIN cache, WriteBatch(S)
  PROVE  IInv'
<1> DEFINE w == WriteCoins(db.coins, cache, S)
<1>1. /\ Writing /\ best' = best /\ undo' = undo /\ stored' = stored /\ mode' = mode
      /\ db'.coins = w /\ db'.best = None /\ db'.heads = <<best, OldTip>>
      /\ cache' = Without(cache, S)
      /\ fault' = IF db.best = None /\ db.heads[1] # best THEN "other heads" ELSE fault
  BY Zenon DEF WriteBatch, Marked
<1>2. /\ db.coins \in Views /\ cache \in Caches /\ Sound(cache, db.coins)
      /\ best \in Nodes /\ Seen(cache, db.coins) = UTXO[best]
      /\ Kept(best) /\ FileInv /\ fault = "none" /\ mode # "down"
  BY <1>1, WritingFacts, Zenon
<1>3. w \in Views /\ Sound(cache', w) /\ Seen(cache', w) = UTXO[best]
  BY <1>1, <1>2, WriteCoinsSound, Zenon
<1>4. cache' \in Caches
  BY <1>1, <1>2, WithoutType, Zenon
<1>5. \A o \in Outpoints : w[o] = UTXO[best][o] \/ w[o] = db.coins[o]
  <2> SUFFICES ASSUME NEW o \in Outpoints, w[o] # db.coins[o] PROVE w[o] = UTXO[best][o]
    BY Zenon
  <2>1. o \in S /\ w[o] = cache[o].coin
    BY Zenon DEF WriteCoins
  <2>2. Seen(cache, db.coins)[o] = cache[o].coin
    BY <2>1, Zenon DEF Seen
  <2> QED BY <1>2, <2>1, <2>2, Zenon
<1> HIDE DEF w
<1>6. /\ OldTip \in Nodes /\ Kept(OldTip) /\ Mix(w, UTXO[best], UTXO[OldTip])
      /\ ~(db.best = None /\ db.heads[1] # best)
  <2>1. CASE \E b : AtBlock(b)
    <3>1. PICK b : AtBlock(b)
      BY <2>1, Zenon
    <3>2. b \in Nodes /\ Kept(b) /\ db.best = b /\ db.coins = UTXO[b]
      BY <3>1, Zenon DEF AtBlock
    <3>3. b # None
      BY <3>2, ChainConstants, Zenon DEF Nodes
    <3> QED BY <1>5, <3>2, <3>3, Zenon DEF OldTip, Mix
  <2>2. CASE \E new, old : Between(new, old)
    <3>1. PICK new, old : Between(new, old)
      BY <2>2, Zenon
    <3>2. /\ old \in Nodes /\ Kept(old) /\ db.best = None
          /\ db.heads = <<new, old>> /\ Mix(db.coins, UTXO[new], UTXO[old])
      BY <3>1, Zenon DEF Between
    <3>3. db.heads # <<>> /\ db.heads[1] = new /\ db.heads[2] = old
      BY <3>2, TwoHeads
    <3>4. new = best
      BY <1>2, <3>3, Zenon DEF IInv, ModeInv
    <3>5. OldTip = old
      BY <3>2, <3>3, Zenon DEF OldTip
    <3>6. Mix(w, UTXO[best], UTXO[old])
      BY <1>5, <3>2, <3>4, Zenon DEF Mix
    <3> QED BY <3>2, <3>3, <3>4, <3>5, <3>6, Zenon
  <2> QED BY <2>1, <2>2, Zenon DEF IInv, DiskInv
<1>7. DiskInv'
  <2>1. Kept(best)' /\ Kept(OldTip)
    BY <1>1, <1>2, <1>6, Zenon DEF Kept
  <2>2. PICK old : old = OldTip
    BY Zenon
  <2>3. Kept(old)'
    BY <1>1, <1>6, <2>2, Zenon DEF Kept
  <2>4. Between(best, old)'
    BY <1>1, <1>2, <1>6, <2>1, <2>2, <2>3, Zenon DEF Between
  <2> QED BY <1>1, <1>3, <2>4, Zenon DEF DiskInv
<1>8. MemoryInv'
  <2>1. best' \in Nodes /\ Ancestors(best') \subseteq DOMAIN undo' /\ mode' # "down"
    BY <1>1, <1>2, Zenon DEF Kept
  <2>2. Sound(cache', db'.coins) /\ Seen(cache', db'.coins) = UTXO[best']
    BY <1>1, <1>3, Zenon
  <2> QED BY <1>4, <2>1, <2>2, Zenon DEF MemoryInv
<1>9. FileInv'
  BY <1>1, <1>2, Zenon DEF FileInv, UndoRight
<1>10. ModeInv'
  <2>1. db'.heads # <<>> /\ db'.heads[1] = best'
    BY <1>1, TwoHeads, Zenon
  <2>2. fault' = "none"
    BY <1>1, <1>2, <1>6, Zenon
  <2>3. Ancestors(best') \subseteq stored'
    BY <1>1, <1>2, Zenon DEF Kept
  <2>4. /\ mode' \in {"idle", "flush", "closing", "closed", "replay", "down"}
        /\ mode' \notin {"idle", "closed"}
    BY <1>1, Zenon DEF Writing
  <2> QED BY <2>1, <2>2, <2>3, <2>4, Zenon DEF ModeInv
<1> QED BY <1>7, <1>8, <1>9, <1>10, Zenon DEF IInv

\* The last batch keeps the invariant: the database has the coins of the tip,
\* and says so.
LEMMA WriteLastInv ==
  ASSUME IInv, WriteLast
  PROVE  IInv'
<1>1. /\ Writing /\ best' = best /\ undo' = undo /\ stored' = stored /\ fault' = fault
      /\ db'.coins = WriteCoins(db.coins, cache, DOMAIN cache)
      /\ db'.best = best /\ db'.heads = <<>> /\ cache' = <<>>
      /\ mode' \in {"idle", "closed"}
  BY Zenon DEF WriteLast
<1>2. /\ db.coins \in Views /\ cache \in Caches /\ Sound(cache, db.coins)
      /\ best \in Nodes /\ Seen(cache, db.coins) = UTXO[best]
      /\ Kept(best) /\ FileInv /\ fault = "none" /\ mode # "down"
  BY <1>1, WritingFacts, Zenon
<1>3. db'.coins = UTXO[best] /\ UTXO[best] \in Views
  BY <1>1, <1>2, FlushExact, UTXODef, Zenon
<1>4. DiskInv'
  <2>1. Kept(best)'
    BY <1>1, <1>2, Zenon DEF Kept
  <2>2. AtBlock(best)'
    BY <1>1, <1>2, <1>3, <2>1, Zenon DEF AtBlock
  <2> QED BY <1>3, <2>2, Zenon DEF DiskInv
<1>5. MemoryInv'
  <2>1. cache' \in Caches /\ Sound(cache', db'.coins) /\ Seen(cache', db'.coins) = UTXO[best']
    BY <1>1, <1>3, EmptyCache, SeenEmpty, Zenon
  <2>2. best' \in Nodes /\ Ancestors(best') \subseteq DOMAIN undo' /\ mode' # "down"
    BY <1>1, <1>2, Zenon DEF Kept
  <2> QED BY <2>1, <2>2, Zenon DEF MemoryInv
<1>6. FileInv'
  BY <1>1, <1>2, Zenon DEF FileInv, UndoRight
<1>7. ModeInv'
  BY <1>1, <1>2, Zenon DEF ModeInv, Writing
<1> QED BY <1>4, <1>5, <1>6, <1>7, Zenon DEF IInv

\* The end of the process keeps the invariant: the blocks that the database
\* refers to, and their undo data, are among those on disk.
LEMMA EndInv ==
  ASSUME IInv, End
  PROVE  IInv'
<1>1. /\ mode' = "down" /\ cache' = <<>> /\ best' = None
      /\ undo' = Restrict(undo, stored \cap DOMAIN undo)
      /\ db' = db /\ stored' = stored /\ fault' = fault
  BY Zenon DEF End
<1>2. /\ DOMAIN undo' = stored \cap DOMAIN undo
      /\ \A b \in DOMAIN undo' : undo'[b] = undo[b]
  BY <1>1, Zenon DEF Restrict
<1>3. DiskInv'
  <2>1. \A b : Kept(b) => Kept(b)'
    BY <1>1, <1>2, Zenon DEF Kept
  <2>2. \A b : AtBlock(b) => AtBlock(b)'
    BY <1>1, <2>1, Zenon DEF AtBlock
  <2>3. \A new, old : Between(new, old) => Between(new, old)'
    BY <1>1, <2>1, Zenon DEF Between
  <2> QED BY <1>1, <2>2, <2>3, Zenon DEF IInv, DiskInv
<1>4. MemoryInv'
  BY <1>1, Zenon DEF MemoryInv
<1>5. FileInv'
  BY <1>1, <1>2, Zenon DEF IInv, FileInv, UndoRight
<1>6. ModeInv'
  BY <1>1, Zenon DEF IInv, ModeInv, Writing
<1> QED BY <1>3, <1>4, <1>5, <1>6, Zenon DEF IInv

\* A block whose chain is on disk is on disk, as Root is.
LEMMA KeptStored ==
  ASSUME NEW b \in Nodes, Kept(b), Root \in stored
  PROVE  b \in stored
<1>1. CASE b \in Blocks
  BY <1>1, AncestorsStep, Zenon DEF Kept
<1> QED BY <1>1, Zenon DEF Nodes

\* The start of a process keeps the invariant, with a replay or without one.
LEMMA StartInv ==
  ASSUME IInv, Start
  PROVE  IInv'
<1>1. mode = "down" /\ db' = db /\ undo' = undo /\ stored' = stored
  BY Zenon DEF Start
<1>2. /\ db.coins \in Views /\ DiskInv /\ FileInv /\ fault = "none" /\ cache = <<>>
  BY <1>1, Zenon DEF IInv, DiskInv, MemoryInv, ModeInv
<1>3. DiskInv' /\ FileInv'
  BY <1>1, <1>2, DiskStays, Zenon DEF FileInv, UndoRight
<1>4. CASE \E b : AtBlock(b)
  <2>1. PICK b : AtBlock(b)
    BY <1>4, Zenon
  <2>2. /\ b \in Nodes /\ Kept(b) /\ db.best = b /\ db.heads = <<>> /\ db.coins = UTXO[b]
    BY <2>1, Zenon DEF AtBlock
  <2>3. mode' = "idle" /\ best' = b /\ cache' = <<>> /\ fault' = "none"
    BY <1>2, <2>2, Zenon DEF Start
  <2>4. MemoryInv'
    <3>1. cache' \in Caches /\ Sound(cache', db'.coins) /\ Seen(cache', db'.coins) = UTXO[best']
      BY <1>1, <1>2, <2>2, <2>3, EmptyCache, SeenEmpty, Zenon
    <3>2. best' \in Nodes /\ Ancestors(best') \subseteq DOMAIN undo' /\ mode' # "down"
      BY <1>1, <2>2, <2>3, Zenon DEF Kept
    <3> QED BY <3>1, <3>2, Zenon DEF MemoryInv
  <2>5. ModeInv'
    BY <1>1, <2>2, <2>3, Zenon DEF ModeInv, Writing
  <2> QED BY <1>3, <2>4, <2>5, Zenon DEF IInv
<1>5. CASE \E new, old : Between(new, old)
  <2>1. PICK new, old : Between(new, old)
    BY <1>5, Zenon
  <2>2. /\ new \in Nodes /\ old \in Nodes /\ Kept(new) /\ Kept(old)
        /\ db.heads = <<new, old>> /\ Mix(db.coins, UTXO[new], UTXO[old])
    BY <2>1, Zenon DEF Between
  <2>3. db.heads # <<>> /\ db.heads[1] = new /\ db.heads[2] = old
    BY <2>2, TwoHeads
  <2> DEFINE v == Replay(old, new)
  <2>4. /\ v.fault = "none" /\ v.own \in Caches
        /\ Sound(v.own, db.coins) /\ Seen(v.own, db.coins) = UTXO[new]
    BY <1>2, <2>2, ReplayExact, Zenon DEF FileInv, Kept
  <2>5. /\ mode' = "replay" /\ best' = new /\ cache' = v.own
        /\ fault' = FirstFault(v.fault, ~Range(db.heads) \subseteq stored, "unknown block")
    BY <2>3, Zenon DEF Start
  <2> HIDE DEF v
  <2>6. Range(db.heads) \subseteq stored
    <3>1. new \in stored /\ old \in stored
      BY <1>2, <2>2, KeptStored, Zenon DEF FileInv
    <3>2. Range(<<new, old>>) = {new, old}
      BY DEF Range
    <3> QED BY <2>2, <3>1, <3>2, Zenon
  <2>7. fault' = "none"
    BY <2>4, <2>5, <2>6, Zenon DEF FirstFault
  <2>8. MemoryInv'
    <3>1. cache' \in Caches /\ Sound(cache', db'.coins) /\ Seen(cache', db'.coins) = UTXO[best']
      BY <1>1, <2>4, <2>5, Zenon
    <3>2. best' \in Nodes /\ Ancestors(best') \subseteq DOMAIN undo' /\ mode' # "down"
      BY <1>1, <2>2, <2>5, Zenon DEF Kept
    <3> QED BY <3>1, <3>2, Zenon DEF MemoryInv
  <2>9. ModeInv'
    <3>1. db'.heads # <<>> /\ db'.heads[1] = best'
      BY <1>1, <2>3, <2>5, Zenon
    <3>2. Ancestors(best') \subseteq stored'
      BY <1>1, <2>2, <2>5, Zenon DEF Kept
    <3> QED BY <2>5, <2>7, <3>1, <3>2, Zenon DEF ModeInv
  <2> QED BY <1>3, <2>8, <2>9, Zenon DEF IInv
<1> QED BY <1>2, <1>4, <1>5, Zenon DEF DiskInv

\* Every step keeps the invariant.
LEMMA StepInv == IInv /\ [Next]_vars => IInv'
<1> SUFFICES ASSUME IInv, [Next]_vars PROVE IInv'
  BY Zenon
<1>1. CASE \E b \in Blocks : ConnectTip(b)
  BY <1>1, ConnectInv, Zenon
<1>2. CASE DisconnectTip
  BY <1>2, DisconnectInv, Zenon
<1>3. CASE \E o \in Outpoints : Read(o) \/ Forget(o)
  BY <1>3, ReadersInv, Zenon
<1>4. CASE Periodic \/ Close
  BY <1>4, PeriodicInv, Zenon
<1>5. CASE \E S \in SUBSET DOMAIN cache \ {{}} : WriteBatch(S)
  BY <1>5, WriteBatchInv, Zenon
<1>6. CASE WriteLast
  BY <1>6, WriteLastInv, Zenon
<1>7. CASE End
  BY <1>7, EndInv, Zenon
<1>8. CASE Start
  BY <1>8, StartInv, Zenon
<1>9. CASE UNCHANGED vars
  <2>1. /\ db' = db /\ cache' = cache /\ best' = best /\ undo' = undo
        /\ stored' = stored /\ mode' = mode /\ fault' = fault
    BY <1>9, Zenon DEF vars
  <2>2. DiskInv'
    BY <2>1, DiskStays, Zenon DEF IInv
  <2>3. MemoryInv'
    BY <2>1, Zenon DEF IInv, MemoryInv
  <2>4. FileInv'
    BY <2>1, Zenon DEF IInv, FileInv, UndoRight
  <2>5. ModeInv'
    BY <2>1, Zenon DEF IInv, ModeInv, Writing
  <2> QED BY <2>2, <2>3, <2>4, <2>5, Zenon DEF IInv
<1> QED
  BY <1>1, <1>2, <1>3, <1>4, <1>5, <1>6, <1>7, <1>8, <1>9, Zenon DEF Next

\* The invariant holds of all reachable states.
THEOREM Invariance == Spec => []IInv
BY InitInv, StepInv, PTL DEF Spec

-----------------------------------------------------------------------------
(* What follows from it *)

\* The types of the database, of pcoinsTip, of the undo data and of what holds
\* cs_main.
THEOREM TypeCorrect == Spec => []TypeOK
<1>1. IInv => TypeOK
  <2> SUFFICES ASSUME IInv PROVE TypeOK
    BY Zenon
  <2>1. /\ db.coins \in [Outpoints -> Coins]
        /\ mode \in {"idle", "flush", "closing", "closed", "replay", "down"}
        /\ stored \subseteq Nodes /\ DOMAIN undo \subseteq Blocks
    BY Zenon DEF IInv, DiskInv, ModeInv, FileInv, UndoRight, Views
  <2>2. /\ db.best \in Nodes \cup {None}
        /\ db.heads = <<>> \/ db.heads \in Nodes \X Nodes
    <3>1. CASE \E b : AtBlock(b)
      BY <3>1, Zenon DEF AtBlock
    <3>2. CASE \E new, old : Between(new, old)
      <4>1. PICK new, old : Between(new, old)
        BY <3>2, Zenon
      <4>2. new \in Nodes /\ old \in Nodes /\ db.best = None /\ db.heads = <<new, old>>
        BY <4>1, Zenon DEF Between
      <4>3. <<new, old>> \in Nodes \X Nodes
        BY <4>2
      <4> QED BY <4>2, <4>3, Zenon
    <3> QED BY <3>1, <3>2, Zenon DEF IInv, DiskInv
  <2>3. cache \in Caches /\ best \in Nodes \cup {None}
    BY EmptyCache, Zenon DEF IInv, MemoryInv
  <2>4. DOMAIN cache \subseteq Outpoints /\ \A o \in DOMAIN cache : cache[o] \in Entries
    BY <2>3, CacheType, Zenon
  <2>5. Nodes = Blocks \cup {Root} /\ Nodes \cup {None} = Blocks \cup {Root, None}
    BY Zenon DEF Nodes
  <2> QED BY <2>1, <2>2, <2>3, <2>4, <2>5, Zenon DEF TypeOK
<1> QED BY <1>1, Invariance, PTL

\* No check of the code fails in ConnectTip, in DisconnectTip, in a flush or in
\* a replay, whatever the blocks, the order of the handlers and the crashes.
THEOREM NeverFaults == Spec => []NoFault
<1>1. IInv => NoFault
  BY Zenon DEF IInv, ModeInv, NoFault
<1> QED BY <1>1, Invariance, PTL

\* FRESH and DIRTY are right in pcoinsTip, at any time.
THEOREM FlagsAlwaysSound == Spec => []FlagsSound
<1>1. IInv => FlagsSound
  <2> SUFFICES ASSUME IInv PROVE FlagsSound
    BY Zenon
  <2>1. CASE mode = "down"
    BY <2>1, SeenEmpty, Zenon DEF IInv, MemoryInv, DiskInv, FlagsSound
  <2>2. CASE mode # "down"
    BY <2>2, Zenon DEF IInv, MemoryInv, FlagsSound
  <2> QED BY <2>1, <2>2, Zenon
<1> QED BY <1>1, Invariance, PTL

\* A database that has a best block has the coins of that block: the batches of
\* a flush cannot be mistaken for a complete one.
THEOREM DatabaseAlwaysConsistent == Spec => []DatabaseConsistent
<1>1. IInv => DatabaseConsistent
  BY Zenon DEF IInv, DiskInv, AtBlock, Between, DatabaseConsistent
<1> QED BY <1>1, Invariance, PTL

-----------------------------------------------------------------------------
(* The refinement *)

\* The variables of UTXOSet.
Tip   == IF Running THEN best ELSE None
Shown == IF Running THEN Seen(cache, db.coins) ELSE None
Saved == IF db.heads # <<>> THEN db.heads[1] ELSE db.best

\* What the actions of UTXOSet say of them.
LEMMA AbstractSteps ==
  /\ U!vars = <<Tip, Shown, Saved>>
  /\ (\E b \in Blocks : Prev[b] = Tip /\ Tip' = b /\ Shown' = UTXO[b])
       /\ Tip # None /\ Saved' = Saved => U!Next
  /\ Tip \in Blocks /\ Tip' = Prev[Tip] /\ Shown' = UTXO[Prev[Tip]] /\ Saved' = Saved => U!Next
  /\ Tip # None /\ Saved' = Tip /\ Tip' = Tip /\ Shown' = Shown => U!Next
  /\ Tip # None /\ Tip' = None /\ Shown' = None /\ Saved' = Saved => U!Next
  /\ Tip = None /\ Tip' = Saved /\ Shown' = UTXO[Saved] /\ Saved' = Saved => U!Next
BY Zenon DEF Tip, Shown, Saved, U!vars, U!At, U!Advance, U!Retreat, U!Save, U!Stop, U!Start, U!Next

\* Every step is a step of UTXOSet or none: ConnectTip and DisconnectTip move
\* the tip, a batch saves it, and a start that finds an interrupted flush has
\* started when the replay is written.
LEMMA StepImplements ==
  ASSUME IInv, IInv', [Next]_vars
  PROVE  [U!Next]_(U!vars)
<1>1. /\ Running => Tip = best /\ best \in Nodes /\ best # None /\ Shown = UTXO[best]
      /\ ~Running => Tip = None /\ Shown = None
  <2>1. Running => mode # "down"
    BY Zenon DEF Running
  <2>2. mode # "down" => best \in Nodes /\ Seen(cache, db.coins) = UTXO[best]
    BY Zenon DEF IInv, MemoryInv
  <2> QED BY <2>1, <2>2, ChainConstants, Zenon DEF Tip, Shown, Nodes
<1>2. /\ Running' => Tip' = best' /\ best' \in Nodes /\ best' # None /\ Shown' = UTXO[best']
      /\ ~Running' => Tip' = None /\ Shown' = None
  <2>1. Running' => mode' # "down"
    BY Zenon DEF Running
  <2>2. mode' # "down" => best' \in Nodes /\ Seen(cache', db'.coins) = UTXO[best']
    BY Zenon DEF IInv, MemoryInv
  <2> QED BY <2>1, <2>2, ChainConstants, Zenon DEF Tip, Shown, Nodes
<1>3. \/ U!Next
      \/ Tip' = Tip /\ Shown' = Shown /\ Saved' = Saved
  <2>1. CASE \E b \in Blocks : ConnectTip(b)
    <3>1. PICK b \in Blocks : ConnectTip(b)
      BY <2>1, Zenon
    <3>2. mode = "idle" /\ Prev[b] = best /\ best' = b /\ db' = db /\ mode' \in {"idle", "flush"}
      BY <3>1, Zenon DEF ConnectTip, FlushStateToDisk
    <3>3. Running /\ Running' /\ Saved' = Saved
      BY <3>2, Zenon DEF Running, Saved
    <3> QED BY <1>1, <1>2, <3>2, <3>3, AbstractSteps, Zenon
  <2>2. CASE DisconnectTip
    <3>1. /\ mode = "idle" /\ best \in Blocks /\ best' = Prev[best] /\ db' = db
          /\ mode' \in {"idle", "flush"}
      BY <2>2, Zenon DEF DisconnectTip, FlushStateToDisk
    <3>2. Running /\ Running' /\ Saved' = Saved
      BY <3>1, Zenon DEF Running, Saved
    <3> QED BY <1>1, <1>2, <3>1, <3>2, AbstractSteps, Zenon
  <2>3. CASE (\E o \in Outpoints : Read(o) \/ Forget(o)) \/ Periodic \/ Close
    <3>1. mode = "idle" /\ best' = best /\ db' = db /\ mode' \in {"idle", "flush", "closing"}
      BY <2>3, Zenon DEF Read, Forget, Periodic, Close, FlushStateToDisk
    <3>2. Running /\ Running' /\ Saved' = Saved
      BY <3>1, Zenon DEF Running, Saved
    <3> QED BY <1>1, <1>2, <3>1, <3>2, Zenon
  <2>4. ASSUME Writing, best' = best, Saved' = best,
               mode' = mode \/ mode' \in {"idle", "closed"}
        PROVE  U!Next \/ (Tip' = Tip /\ Shown' = Shown /\ Saved' = Saved)
    <3>1. CASE mode # "replay"
      <4>1. Running /\ Running'
        BY <2>4, <3>1, Zenon DEF Writing, Running
      <4> QED BY <1>1, <1>2, <2>4, <4>1, AbstractSteps, Zenon
    <3>2. CASE mode = "replay"
      <4>1. ~Running
        BY <3>2, Zenon DEF Running
      <4>2. Saved = best
        BY <3>2, Zenon DEF IInv, ModeInv, Saved
      <4>3. Running' \/ ~Running'
        BY Zenon
      <4> QED BY <1>1, <1>2, <2>4, <4>1, <4>2, <4>3, AbstractSteps, Zenon
    <3> QED BY <3>1, <3>2, Zenon
  <2>5. CASE \E S \in SUBSET DOMAIN cache \ {{}} : WriteBatch(S)
    <3>0. PICK S : WriteBatch(S)
      BY <2>5, Zenon
    <3>1. Writing /\ best' = best /\ mode' = mode /\ db'.heads = <<best, OldTip>>
      BY <3>0, Zenon DEF WriteBatch, Marked
    <3>2. Saved' = best
      BY <3>1, TwoHeads, Zenon DEF Saved
    <3> QED BY <2>4, <3>1, <3>2, Zenon
  <2>6. CASE WriteLast
    <3>1. /\ Writing /\ best' = best /\ mode' \in {"idle", "closed"}
          /\ db'.best = best /\ db'.heads = <<>>
      BY <2>6, Zenon DEF WriteLast
    <3>2. Saved' = best
      BY <3>1, Zenon DEF Saved
    <3> QED BY <2>4, <3>1, <3>2, Zenon
  <2>7. CASE End
    <3>1. mode' = "down" /\ db' = db
      BY <2>7, Zenon DEF End
    <3>2. ~Running' /\ Saved' = Saved
      BY <3>1, Zenon DEF Running, Saved
    <3> QED BY <1>1, <1>2, <3>2, AbstractSteps, Zenon
  <2>8. CASE Start
    <3>1. mode = "down" /\ db' = db
      BY <2>8, Zenon DEF Start
    <3>2. ~Running /\ Saved' = Saved
      BY <3>1, Zenon DEF Running, Saved
    <3>3. CASE db.heads = <<>>
      <4>1. mode' = "idle" /\ best' = Saved
        BY <2>8, <3>3, Zenon DEF Start, Saved
      <4>2. Running'
        BY <4>1, Zenon DEF Running
      <4> QED BY <1>1, <1>2, <3>2, <4>1, <4>2, AbstractSteps, Zenon
    <3>4. CASE db.heads # <<>>
      <4>1. mode' = "replay"
        BY <2>8, <3>4, Zenon DEF Start
      <4>2. ~Running'
        BY <4>1, Zenon DEF Running
      <4> QED BY <1>1, <1>2, <3>2, <4>2, Zenon
    <3> QED BY <3>3, <3>4, Zenon
  <2>9. CASE UNCHANGED vars
    <3>1. db' = db /\ cache' = cache /\ best' = best /\ mode' = mode
      BY <2>9, Zenon DEF vars
    <3> QED BY <3>1, Zenon DEF Tip, Shown, Saved, Running
  <2> QED
    BY <2>1, <2>2, <2>3, <2>5, <2>6, <2>7, <2>8, <2>9, Zenon DEF Next
<1>4. U!vars = <<Tip, Shown, Saved>> /\ U!vars' = <<Tip', Shown', Saved'>>
  BY Zenon DEF U!vars, Tip, Shown, Saved
<1> QED BY <1>3, <1>4, Zenon

\* For every tree of valid blocks, every interleaving of connected and
\* disconnected blocks with readers and flushes, and crashes at any moment: the
\* coins seen are those that the blocks up to the tip have left unspent, and a
\* node that starts has the coins of the tip that was saved last.
THEOREM Refinement == Spec => ImplementsUTXOSet
<1>1. Init => U!Init
  <2> SUFFICES ASSUME Init PROVE U!Init
    BY Zenon
  <2>1. Running /\ best = Root /\ cache = <<>> /\ db.coins = UTXO[Root]
    BY Zenon DEF Init, Running
  <2>2. Seen(cache, db.coins) = UTXO[Root]
    BY <2>1, UTXODef, SeenEmpty, Zenon DEF Nodes
  <2>3. db.heads = <<>> /\ db.best = Root
    BY Zenon DEF Init
  <2> QED BY <2>1, <2>2, <2>3, Zenon DEF U!Init
<1>2. IInv /\ IInv' /\ [Next]_vars => [U!Next]_(U!vars)
  BY StepImplements, Zenon
<1> QED BY <1>1, <1>2, Invariance, PTL DEF Spec, ImplementsUTXOSet, U!Spec

=============================================================================
