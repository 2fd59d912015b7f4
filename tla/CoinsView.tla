----------------------------- MODULE CoinsView ------------------------------
(***************************************************************************)
(* CCoinsViewCache (src/src/coins.cpp): a cache of coins over another view *)
(* of them, which is a cache in its turn or the coin database.  A cache is *)
(* a function on the outpoints it has an entry for; the view below it is a *)
(* function on all of them.                                                *)
(*                                                                         *)
(* An output's value and script are fixed by its outpoint; what differs    *)
(* between two coins of an outpoint is the height it was created at.       *)
(***************************************************************************)
EXTENDS Integers, Functions

CONSTANT Outpoints

Spent == -1                            \* Coin::IsSpent, or no coin at all
Coins == Nat \cup {Spent}

\* CCoinsCacheEntry.  DIRTY: may differ from the view below.  FRESH: the view
\* below has no unspent coin.
Entries == [coin : Coins, dirty : BOOLEAN, fresh : BOOLEAN]

Entry(coin, dirty, fresh) == [coin |-> coin, dirty |-> dirty, fresh |-> fresh]

Caches == UNION { [S -> Entries] : S \in SUBSET Outpoints }

Without(c, S) == Restrict(c, DOMAIN c \ S)

\* What a reader of cache c sees: GetCoin, HaveCoin, AccessCoin.
Seen(c, below) == [o \in Outpoints |-> IF o \in DOMAIN c THEN c[o].coin ELSE below[o]]

\* FetchCoin, AddCoin and SpendCoin touch one entry.  A transaction calls them
\* in loops over its inputs or over its outputs, which are different outpoints
\* (CheckTransaction, for inputs), so that a loop is one change of the entries
\* of a set of outpoints.

\* The entry is made when the view below has an unspent coin: GetCoin fails for
\* a spent one, so that the entry for it that the code marks FRESH never is.
FetchCoin(c, below, S) ==
  [o \in DOMAIN c \cup { p \in S : below[p] # Spent } |->
    IF o \in DOMAIN c THEN c[o] ELSE Entry(below[o], FALSE, FALSE)]

\* Mutant of AddCoin: a coin that replaces a spent one is always fresh.
AddCoin_AlwaysFresh(c, coins, possible_overwrite) ==
  [o \in DOMAIN c \cup DOMAIN coins |->
    IF o \in DOMAIN coins THEN Entry(coins[o], TRUE, o \notin possible_overwrite)
    ELSE c[o]]

\* The coins are added; those of possible_overwrite may be there already.  A
\* coin is fresh if it is new, unless the cache holds a spent coin that the
\* view below has not been told of.
AddCoin(c, coins, possible_overwrite) ==
  LET old(o) == IF o \in DOMAIN c THEN c[o] ELSE Entry(Spent, FALSE, FALSE)
  IN  [o \in DOMAIN c \cup DOMAIN coins |->
        IF o \in DOMAIN coins
        THEN Entry(coins[o], TRUE,
                   old(o).fresh \/ (o \notin possible_overwrite /\ ~old(o).dirty))
        ELSE c[o]]

\* "Adding new coin that replaces non-pruned entry".
AddThrows(c, coins, possible_overwrite) ==
  \E o \in DOMAIN coins \cap DOMAIN c : o \notin possible_overwrite /\ c[o].coin # Spent

\* SpendCoin, once the coins were fetched.
SpendCoin(c, S) ==
  [o \in DOMAIN c \ { p \in S \cap DOMAIN c : c[p].fresh } |->
    IF o \in S THEN Entry(Spent, TRUE, FALSE) ELSE c[o]]

\* Mutant of BatchWrite: the flag of the child is copied to the parent.
BatchWrite_CopiesFresh(c, child) ==
  LET dirty   == { o \in DOMAIN child : child[o].dirty }
      dropped == { o \in dirty : /\ child[o].coin = Spent
                                 /\ IF o \in DOMAIN c THEN c[o].fresh ELSE child[o].fresh }
  IN  [o \in (DOMAIN c \cup dirty) \ dropped |->
        IF o \in dirty THEN child[o] ELSE c[o]]

\* A child is flushed into c.
BatchWrite(c, child) ==
  LET dirty   == { o \in DOMAIN child : child[o].dirty }
      dropped == { o \in dirty : /\ child[o].coin = Spent
                                 /\ IF o \in DOMAIN c THEN c[o].fresh ELSE child[o].fresh }
  IN  [o \in (DOMAIN c \cup dirty) \ dropped |->
        IF o \in dirty
        THEN Entry(child[o].coin, TRUE,
                   IF o \in DOMAIN c THEN c[o].fresh ELSE child[o].fresh)
        ELSE c[o]]

\* "FRESH flag misapplied to cache entry for base transaction with spendable
\* outputs".
BatchThrows(c, child) ==
  \E o \in DOMAIN child \cap DOMAIN c :
    child[o].dirty /\ child[o].fresh /\ c[o].coin # Spent

\* Mutant of Uncache: spent and new coins are uncached as well.
Uncache_Any(c, o) == Without(c, {o})

Uncache(c, o) ==
  IF o \in DOMAIN c /\ ~c[o].dirty /\ ~c[o].fresh THEN Without(c, {o}) ELSE c

\* CCoinsViewDB::BatchWrite, the coins: entries S of c are written or erased.
WriteCoins(coins, c, S) ==
  [o \in Outpoints |-> IF o \in S /\ c[o].dirty THEN c[o].coin ELSE coins[o]]

-----------------------------------------------------------------------------

\* The flags of c are right for the view below it: an entry that is not dirty
\* is a copy, and under a fresh one there is no unspent coin.
Sound(c, below) ==
  \A o \in DOMAIN c : /\ ~c[o].dirty => c[o].coin = below[o]
                      /\ c[o].fresh => below[o] = Spent

=============================================================================
