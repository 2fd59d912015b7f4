-------------------------- MODULE CheckQueueProofs --------------------------
(***************************************************************************)
(* CheckQueue for every number of threads, every set of checks and every   *)
(* batch size: nTodo is exact, so that no check of a block is left when    *)
(* the master returns, and what it returns is right.  The sum in nTodo's   *)
(* invariant is a fold of the community modules, defined by recursion over *)
(* the subsets of a finite set: that this recursion has a solution is      *)
(* proved first.                                                           *)
(***************************************************************************)
EXTENDS CheckQueue, FiniteSetTheorems, WellFoundedInduction, TLAPS

USE SMTT(30)

-----------------------------------------------------------------------------

\* Induction over the subsets of a finite set, as a smallest element of a set
\* of counterexamples.
LEMMA SmallestSubset ==
  ASSUME NEW S, IsFiniteSet(S), NEW T, T \subseteq SUBSET S, T # {}
  PROVE  \E s \in T : \A u \in T : u \subseteq s => u = s
<1> DEFINE R == StrictSubsetOrdering(S)
<1>1. IsWellFoundedOn(R, SUBSET S)
  BY FS_StrictSubsetOrderingWellFounded, FS_FiniteSubsetsOfFinite, Zenon
<1>2. \A u, s \in SUBSET S : u \subseteq s /\ u # s => <<u, s>> \in R
  BY Zenon DEF StrictSubsetOrdering
<1> HIDE DEF R
<1>3. \E s \in T : \A u \in T : ~ (<<u, s>> \in R)
  BY <1>1, WFMin, Zenon
<1> QED BY <1>2, <1>3, Zenon

\* The equation of a fold that takes pick[s] from a set s, for a function F on
\* a family D of sets that has what is left of each.
IsFoldOn(F, D, S, pick, op, base) ==
  /\ D \subseteq SUBSET S /\ {} \in D
  /\ \A s \in D : s # {} => s \ {pick[s]} \in D
  /\ \A s \in D : F[s] = IF s = {} THEN base ELSE op[<<pick[s], F[s \ {pick[s]}]>>]

\* Two solutions of the equation agree where both are defined.
LEMMA FoldOnUnique ==
  ASSUME NEW S, IsFiniteSet(S), NEW pick, NEW op, NEW base,
         \A s \in SUBSET S : s # {} => pick[s] \in s,
         NEW F, NEW D, IsFoldOn(F, D, S, pick, op, base),
         NEW G, NEW E, IsFoldOn(G, E, S, pick, op, base),
         NEW x \in D \cap E
  PROVE  F[x] = G[x]
<1> DEFINE T == { s \in D \cap E : F[s] # G[s] }
<1>1. T \subseteq SUBSET S
  BY Zenon DEF IsFoldOn
<1>2. ASSUME T # {} PROVE FALSE
  <2>1. PICK s \in T : \A u \in T : u \subseteq s => u = s
    <3> HIDE DEF T
    <3> QED BY <1>1, <1>2, SmallestSubset
  <2>2. s \in D /\ s \in E /\ F[s] # G[s] /\ s \in SUBSET S
    BY <1>1, Zenon
  <2>3. s # {}
    BY <2>2, Zenon DEF IsFoldOn
  <2> DEFINE u == s \ {pick[s]}
  <2>4. u \in D /\ u \in E
    BY <2>2, <2>3, Zenon DEF IsFoldOn
  <2>5. u \subseteq s /\ u # s
    BY <2>2, <2>3, Zenon
  <2>6. F[u] = G[u]
    BY <2>1, <2>4, <2>5, Zenon
  <2>7. F[s] = op[<<pick[s], F[u]>>] /\ G[s] = op[<<pick[s], G[u]>>]
    BY <2>2, <2>3, Zenon DEF IsFoldOn
  <2> QED BY <2>2, <2>6, <2>7, Zenon
<1> QED BY <1>2, Zenon

\* Every subset is in the domain of a solution.
LEMMA FoldOnExists ==
  ASSUME NEW S, IsFiniteSet(S), NEW pick, NEW op, NEW base,
         \A s \in SUBSET S : s # {} => pick[s] \in s,
         NEW x \in SUBSET S
  PROVE  \E F, D : IsFoldOn(F, D, S, pick, op, base) /\ x \in D
<1> DEFINE T == { s \in SUBSET S : ~ \E F, D : IsFoldOn(F, D, S, pick, op, base) /\ s \in D }
<1>1. T \subseteq SUBSET S
  BY Zenon
<1>2. ASSUME T # {} PROVE FALSE
  <2>1. PICK s \in T : \A u \in T : u \subseteq s => u = s
    <3> HIDE DEF T
    <3> QED BY <1>1, <1>2, SmallestSubset
  <2>2. s \in SUBSET S /\ ~ \E F, D : IsFoldOn(F, D, S, pick, op, base) /\ s \in D
    BY Zenon
  <2>3. CASE s = {}
    <3> DEFINE F == [u \in {{}} |-> base]
    <3>1. IsFoldOn(F, {{}}, S, pick, op, base)
      BY Zenon DEF IsFoldOn
    <3> QED BY <2>2, <2>3, <3>1, Zenon
  <2>4. CASE s # {}
    <3> DEFINE u == s \ {pick[s]}
    <3>1. u \subseteq s /\ u # s /\ u \in SUBSET S
      BY <2>2, <2>4, Zenon
    <3>2. PICK F, D : IsFoldOn(F, D, S, pick, op, base) /\ u \in D
      BY <2>1, <3>1, Zenon
    <3>3. s \notin D
      BY <2>2, <3>2, Zenon
    <3> DEFINE G == [t \in D \cup {s} |-> IF t = s THEN op[<<pick[s], F[u]>>] ELSE F[t]]
    <3>4. /\ D \subseteq SUBSET S /\ {} \in D
          /\ \A t \in D : t # {} => t \ {pick[t]} \in D
          /\ \A t \in D : F[t] = IF t = {} THEN base ELSE op[<<pick[t], F[t \ {pick[t]}]>>]
      BY <3>2, Zenon DEF IsFoldOn
    <3>5. G[s] = op[<<pick[s], F[u]>>] /\ \A t \in D : G[t] = F[t]
      BY <3>3, Zenon
    <3> HIDE DEF G
    <3>6. ASSUME NEW t \in D \cup {s}
          PROVE  G[t] = IF t = {} THEN base ELSE op[<<pick[t], G[t \ {pick[t]}]>>]
      <4>1. CASE t = s
        <5>1. G[u] = F[u]
          BY <3>2, <3>5, Zenon
        <5> QED BY <2>4, <3>5, <4>1, <5>1, Zenon
      <4>2. CASE t \in D /\ t = {}
        BY <3>4, <3>5, <4>2, Zenon
      <4>3. CASE t \in D /\ t # {}
        <5>1. G[t] = F[t] /\ t \ {pick[t]} \in D
          BY <3>4, <3>5, <4>3, Zenon
        <5>2. G[t \ {pick[t]}] = F[t \ {pick[t]}]
          BY <3>5, <5>1, Zenon
        <5> QED BY <3>4, <4>3, <5>1, <5>2, Zenon
      <4> QED BY <4>1, <4>2, <4>3, Zenon
    <3>7. \A t \in D \cup {s} : t # {} => t \ {pick[t]} \in D \cup {s}
      BY <3>2, <3>4, Zenon
    <3>8. D \cup {s} \subseteq SUBSET S /\ {} \in D \cup {s} /\ s \in D \cup {s}
      BY <2>2, <3>4, Zenon
    <3> DEFINE E == D \cup {s}
    <3> HIDE DEF E
    <3>9. IsFoldOn(G, E, S, pick, op, base)
      <4>1. \A t \in E : G[t] = IF t = {} THEN base ELSE op[<<pick[t], G[t \ {pick[t]}]>>]
        BY <3>6, Zenon DEF E
      <4> QED BY <3>7, <3>8, <4>1, Zenon DEF IsFoldOn, E
    <3> QED BY <2>2, <3>8, <3>9, Zenon DEF E
  <2> QED BY <2>3, <2>4, Zenon
<1> QED BY <1>2, Zenon

\* The equation on all subsets.
IsFold(F, S, pick, op, base) ==
  /\ F = [s \in SUBSET S |-> F[s]]
  /\ \A s \in SUBSET S :
       F[s] = IF s = {} THEN base ELSE op[<<pick[s], F[s \ {pick[s]}]>>]

\* The recursion of a fold has a solution on all subsets.
LEMMA FoldDefined ==
  ASSUME NEW S, IsFiniteSet(S), NEW pick, NEW op, NEW base,
         \A s \in SUBSET S : s # {} => pick[s] \in s
  PROVE  \E F : IsFold(F, S, pick, op, base)
<1> DEFINE On(F, D) == IsFoldOn(F, D, S, pick, op, base)
           sol(x) == CHOOSE p : On(p[1], p[2]) /\ x \in p[2]
           F == [x \in SUBSET S |-> sol(x)[1][x]]
<1>1. ASSUME NEW x \in SUBSET S PROVE On(sol(x)[1], sol(x)[2]) /\ x \in sol(x)[2]
  <2>1. PICK G, D : On(G, D) /\ x \in D
    BY FoldOnExists, Zenon
  <2> HIDE DEF On
  <2>2. On(<<G, D>>[1], <<G, D>>[2]) /\ x \in <<G, D>>[2]
    BY <2>1, Zenon
  <2> QED BY <2>2, Zenon
<1>2. ASSUME NEW x \in SUBSET S
      PROVE  F[x] = IF x = {} THEN base ELSE op[<<pick[x], F[x \ {pick[x]}]>>]
  <2> DEFINE G == sol(x)[1]
             D == sol(x)[2]
             y == x \ {pick[x]}
  <2>1. On(G, D) /\ x \in D
    BY <1>1, Zenon
  <2>2. F[x] = G[x]
    BY Zenon
  <2>3. y \in SUBSET S /\ F[y] = sol(y)[1][y]
    BY Zenon
  <2>4. On(sol(y)[1], sol(y)[2]) /\ y \in sol(y)[2]
    BY <1>1, <2>3, Zenon
  <2> HIDE DEF F, G, D, sol
  <2>5. CASE x = {}
    BY <2>1, <2>2, <2>5, Zenon DEF IsFoldOn
  <2>6. CASE x # {}
    <3>1. y \in D /\ G[x] = op[<<pick[x], G[y]>>]
      BY <2>1, <2>6, Zenon DEF IsFoldOn
    <3>2. sol(y)[1][y] = G[y]
      BY <2>1, <2>4, <3>1, FoldOnUnique
    <3> QED BY <2>2, <2>3, <2>6, <3>1, <3>2, Zenon
  <2> QED BY <2>5, <2>6, Zenon
<1>3. F = [x \in SUBSET S |-> F[x]]
  OBVIOUS
<1> HIDE DEF F
<1>4. IsFold(F, S, pick, op, base)
  BY <1>2, <1>3, Zenon DEF IsFold
<1> QED BY <1>4, Zenon


-----------------------------------------------------------------------------
(* The sum of the lengths of the batches *)

Pick(s) == CHOOSE x \in s : TRUE

\* The checks in some thread's batch, when th is what thread is.
SumLen(th) == MapThenSumSet(LAMBDA t : Len(th[t].vChecks), Threads)

IsSum(F, th) ==
  \A s \in SUBSET Threads :
    F[s] = IF s = {} THEN 0 ELSE Len(th[Pick(s)].vChecks) + F[s \ {Pick(s)}]

HasLens(th) == \A t \in Threads : Len(th[t].vChecks) \in Nat

\* There are finitely many threads.
LEMMA ThreadsFinite == IsFiniteSet(Threads)
BY QueueConstants, FS_AddElement, Zenon DEF Threads

\* The sum over the threads is defined by its recursion.
LEMMA SumDefined ==
  ASSUME NEW th, HasLens(th)
  PROVE  \E F : IsSum(F, th) /\ SumLen(th) = F[Threads]
<1> DEFINE S == Threads
           pick == [s \in SUBSET S |-> Pick(s)]
           op == [p \in S \X Int |-> Len(th[p[1]].vChecks) + p[2]]
           Eq(F) == F = [s \in SUBSET S |->
                           IF s = {} THEN 0 ELSE Len(th[Pick(s)].vChecks) + F[s \ {Pick(s)}]]
<1>1. \A s \in SUBSET S : s # {} => Pick(s) \in s
  BY Zenon DEF Pick
<1>2. \A s \in SUBSET S : pick[s] = Pick(s)
  BY Zenon
<1>3. PICK F : IsFold(F, S, pick, op, 0)
  <2>1. \A s \in SUBSET S : s # {} => pick[s] \in s
    BY <1>1, <1>2, Zenon
  <2> HIDE DEF pick, op
  <2> QED BY <2>1, FoldDefined, ThreadsFinite, Zenon
<1>4. \A s \in SUBSET S : F[s] \in Int
  <2> DEFINE T == { s \in SUBSET S : F[s] \notin Int }
  <2>1. T \subseteq SUBSET S
    BY Zenon
  <2>2. ASSUME T # {} PROVE FALSE
    <3>1. PICK s \in T : \A u \in T : u \subseteq s => u = s
      <4> HIDE DEF T
      <4> QED BY <2>1, <2>2, ThreadsFinite, SmallestSubset
    <3>2. s # {}
      <4>1. {} \in SUBSET S /\ F[{}] = 0
        BY <1>3, Zenon DEF IsFold
      <4> QED BY <4>1
    <3> DEFINE u == s \ {Pick(s)}
    <3>3. u \in SUBSET S /\ u \subseteq s /\ u # s /\ Pick(s) \in S
      BY <1>1, <3>2, Zenon
    <3>4. F[u] \in Int
      BY <3>1, <3>3, Zenon
    <3>5. F[s] = op[<<Pick(s), F[u]>>]
      BY <1>2, <1>3, <3>2, Zenon DEF IsFold
    <3>6. F[s] = Len(th[Pick(s)].vChecks) + F[u]
      BY <3>3, <3>4, <3>5, Zenon
    <3>7. F[s] \in Int
      BY <3>3, <3>4, <3>6 DEF HasLens
    <3> QED BY <3>7, Zenon
  <2> QED BY <2>2, Zenon
<1>5. ASSUME NEW s \in SUBSET S
      PROVE  F[s] = IF s = {} THEN 0 ELSE Len(th[Pick(s)].vChecks) + F[s \ {Pick(s)}]
  <2>1. CASE s = {}
    BY <1>3, <2>1, Zenon DEF IsFold
  <2>2. CASE s # {}
    <3> DEFINE u == s \ {Pick(s)}
    <3>1. u \in SUBSET S /\ Pick(s) \in S /\ F[u] \in Int
      BY <1>1, <1>4, <2>2, Zenon
    <3>2. F[s] = op[<<Pick(s), F[u]>>]
      BY <1>2, <1>3, <2>2, Zenon DEF IsFold
    <3> QED BY <2>2, <3>1, <3>2, Zenon
  <2> QED BY <2>1, <2>2, Zenon
<1>6. Eq(F)
  <2> DEFINE rhs(s) == IF s = {} THEN 0 ELSE Len(th[Pick(s)].vChecks) + F[s \ {Pick(s)}]
  <2>1. \A s \in SUBSET S : F[s] = rhs(s)
    BY <1>5, Zenon
  <2> HIDE DEF rhs
  <2>2. F = [s \in SUBSET S |-> rhs(s)]
    BY <1>3, <2>1, Zenon DEF IsFold
  <2> QED BY <2>2, Zenon DEF rhs
<1>7. \E G : Eq(G)
  <2> HIDE DEF Eq
  <2> QED BY <1>6, Zenon
<1>8. Eq(CHOOSE G : Eq(G))
  <2> HIDE DEF Eq
  <2> QED BY <1>7, Zenon
<1>9. SumLen(th) = (CHOOSE G : Eq(G))[Threads]
  BY Zenon DEF SumLen, MapThenSumSet, MapThenFoldSet, Pick
<1> DEFINE C == CHOOSE G : Eq(G)
<1>10. C = [s \in SUBSET S |-> IF s = {} THEN 0 ELSE Len(th[Pick(s)].vChecks) + C[s \ {Pick(s)}]]
  BY <1>8, Zenon
<1> HIDE DEF C
<1>11. IsSum(C, th)
  BY <1>10, Zenon DEF IsSum
<1> QED BY <1>9, <1>11, Zenon DEF C

\* A step of the recursion takes one thread from the set.
LEMMA SumStep ==
  ASSUME NEW F, NEW th, IsSum(F, th), NEW s \in SUBSET Threads, s # {}
  PROVE  LET u == s \ {Pick(s)}
         IN  /\ Pick(s) \in s /\ u \in SUBSET Threads /\ u \subseteq s /\ u # s
             /\ F[s] = Len(th[Pick(s)].vChecks) + F[u]
<1>1. Pick(s) \in s
  BY Zenon DEF Pick
<1>2. F[s] = Len(th[Pick(s)].vChecks) + F[s \ {Pick(s)}]
  BY Zenon DEF IsSum
<1> QED BY <1>1, <1>2, Zenon

\* A sum of lengths is at least each of them.
LEMMA SumBound ==
  ASSUME NEW F, NEW th, IsSum(F, th), HasLens(th), NEW s \in SUBSET Threads
  PROVE  F[s] \in Nat /\ \A t \in s : Len(th[t].vChecks) <= F[s]
<1> DEFINE Ok(x) == F[x] \in Nat /\ \A t \in x : Len(th[t].vChecks) <= F[x]
           T == { x \in SUBSET Threads : ~Ok(x) }
<1>1. T \subseteq SUBSET Threads
  BY Zenon
<1>2. ASSUME T # {} PROVE FALSE
  <2>1. PICK x \in T : \A u \in T : u \subseteq x => u = x
    <3> HIDE DEF T
    <3> QED BY <1>1, <1>2, ThreadsFinite, SmallestSubset
  <2>2. x \in SUBSET Threads /\ ~Ok(x)
    BY Zenon
  <2>3. x # {}
    <3>1. {} \in SUBSET Threads /\ F[{}] = 0
      BY Zenon DEF IsSum
    <3> QED BY <2>2, <3>1
  <2> DEFINE u == x \ {Pick(x)}
  <2>4. /\ Pick(x) \in x /\ u \in SUBSET Threads /\ u \subseteq x /\ u # x
        /\ F[x] = Len(th[Pick(x)].vChecks) + F[u]
    BY <2>2, <2>3, SumStep, Zenon
  <2>5. Ok(u)
    <3> HIDE DEF Ok, u
    <3> QED BY <2>1, <2>4, Zenon
  <2>6. \A t \in x : Len(th[t].vChecks) \in Nat
    BY <2>2, Zenon DEF HasLens
  <2>7. \A t \in x : t = Pick(x) \/ t \in u
    BY Zenon
  <2> HIDE DEF u
  <2>8. Ok(x)
    BY <2>4, <2>5, <2>6, <2>7
  <2> QED BY <2>2, <2>8, Zenon
<1>3. Ok(s)
  <2> HIDE DEF Ok
  <2> QED BY <1>2, Zenon
<1> QED BY <1>3, Zenon

\* If one thread's batch changes, the sum changes by as much.
LEMMA SumChange ==
  ASSUME NEW th, HasLens(th), NEW ph, HasLens(ph), NEW t \in Threads,
         \A x \in Threads \ {t} : Len(ph[x].vChecks) = Len(th[x].vChecks)
  PROVE  /\ SumLen(th) \in Nat /\ SumLen(ph) \in Nat
         /\ Len(th[t].vChecks) <= SumLen(th)
         /\ SumLen(ph) = (SumLen(th) + Len(ph[t].vChecks)) - Len(th[t].vChecks)
<1>1. PICK F : IsSum(F, th) /\ SumLen(th) = F[Threads]
  BY SumDefined, Zenon
<1>2. PICK G : IsSum(G, ph) /\ SumLen(ph) = G[Threads]
  BY SumDefined, Zenon
<1> DEFINE a == Len(th[t].vChecks)
           c == Len(ph[t].vChecks)
           Ok(x) == G[x] = IF t \in x THEN (F[x] + c) - a ELSE F[x]
           T == { x \in SUBSET Threads : ~Ok(x) }
<1> HIDE DEF Ok
<1>3. T \subseteq SUBSET Threads /\ Threads \in SUBSET Threads
  BY Zenon
<1>4. \A x \in SUBSET Threads : F[x] \in Nat /\ G[x] \in Nat
  BY <1>1, <1>2, SumBound, Zenon
<1>5. \A x \in Threads : Len(th[x].vChecks) \in Nat /\ Len(ph[x].vChecks) \in Nat
  BY Zenon DEF HasLens
<1>6. ASSUME T # {} PROVE FALSE
  <2>1. PICK x \in T : \A u \in T : u \subseteq x => u = x
    <3> HIDE DEF T
    <3> QED BY <1>3, <1>6, ThreadsFinite, SmallestSubset
  <2>2. x \in SUBSET Threads /\ ~Ok(x)
    BY Zenon
  <2>3. x # {}
    <3>1. {} \in SUBSET Threads /\ F[{}] = 0 /\ G[{}] = 0
      BY <1>1, <1>2, Zenon DEF IsSum
    <3>2. Ok({})
      BY <3>1, Zenon DEF Ok
    <3> QED BY <2>2, <3>2, Zenon
  <2> DEFINE p == Pick(x)
             u == x \ {p}
  <2>4. /\ p \in x /\ u \in SUBSET Threads /\ u \subseteq x /\ u # x
        /\ F[x] = Len(th[p].vChecks) + F[u] /\ G[x] = Len(ph[p].vChecks) + G[u]
    BY <1>1, <1>2, <2>2, <2>3, SumStep, Zenon
  <2>5. Ok(u)
    <3> HIDE DEF u
    <3> QED BY <2>1, <2>4, Zenon
  <2>6. t \in x <=> t = p \/ t \in u
    BY <2>4, Zenon
  <2>7. p = t => t \notin u
    BY Zenon
  <2>8. F[u] \in Nat /\ G[u] \in Nat /\ p \in Threads
    BY <1>4, <2>2, <2>4, Zenon
  <2>9. a \in Nat /\ c \in Nat
    BY <1>5, Zenon
  <2> HIDE DEF u, p
  <2>10. CASE p = t
    <3>1. G[u] = F[u]
      BY <2>5, <2>7, <2>10, Zenon DEF Ok
    <3>2. F[x] = a + F[u] /\ G[x] = c + F[u]
      BY <2>4, <2>10, <3>1, Zenon
    <3> HIDE DEF a, c
    <3>3. Ok(x)
      BY <2>6, <2>8, <2>9, <2>10, <3>2 DEF Ok
    <3> QED BY <2>2, <3>3, Zenon
  <2>11. CASE p # t
    <3>1. Len(ph[p].vChecks) = Len(th[p].vChecks) /\ Len(th[p].vChecks) \in Nat
      BY <1>5, <2>8, <2>11, Zenon
    <3> HIDE DEF a, c
    <3>2. Ok(x)
      BY <2>4, <2>5, <2>6, <2>8, <2>9, <2>11, <3>1 DEF Ok
    <3> QED BY <2>2, <3>2, Zenon
  <2> QED BY <2>10, <2>11, Zenon
<1>7. Ok(Threads)
  BY <1>3, <1>6, Zenon
<1>8. SumLen(ph) = (SumLen(th) + c) - a
  BY <1>1, <1>2, <1>7, Zenon DEF Ok
<1>9. SumLen(th) \in Nat /\ SumLen(ph) \in Nat
  BY <1>1, <1>2, <1>3, <1>4, Zenon
<1>10. a <= SumLen(th)
  BY <1>1, <1>3, SumBound, Zenon
<1> QED BY <1>8, <1>9, <1>10, Zenon

\* Without batches the sum is 0, and the other way round.
LEMMA SumZero ==
  ASSUME NEW th, HasLens(th)
  PROVE  /\ SumLen(th) \in Nat
         /\ SumLen(th) = 0 <=> \A t \in Threads : Len(th[t].vChecks) = 0
<1>1. PICK F : IsSum(F, th) /\ SumLen(th) = F[Threads]
  BY SumDefined, Zenon
<1>2. Threads \in SUBSET Threads
  BY Zenon
<1>3. SumLen(th) \in Nat /\ \A t \in Threads : Len(th[t].vChecks) <= SumLen(th)
  BY <1>1, <1>2, SumBound, Zenon
<1>4. ASSUME SumLen(th) = 0, NEW t \in Threads PROVE Len(th[t].vChecks) = 0
  BY <1>3, <1>4 DEF HasLens
<1>5. ASSUME \A t \in Threads : Len(th[t].vChecks) = 0 PROVE SumLen(th) = 0
  <2> DEFINE T == { s \in SUBSET Threads : F[s] # 0 }
  <2>1. T \subseteq SUBSET Threads
    BY Zenon
  <2>2. ASSUME T # {} PROVE FALSE
    <3>1. PICK s \in T : \A u \in T : u \subseteq s => u = s
      <4> HIDE DEF T
      <4> QED BY <2>1, <2>2, ThreadsFinite, SmallestSubset
    <3>2. s \in SUBSET Threads /\ F[s] # 0
      BY Zenon
    <3>3. s # {}
      <4>1. {} \in SUBSET Threads /\ F[{}] = 0
        BY <1>1, Zenon DEF IsSum
      <4> QED BY <3>2, <4>1, Zenon
    <3> DEFINE u == s \ {Pick(s)}
    <3>4. /\ Pick(s) \in s /\ u \in SUBSET Threads /\ u \subseteq s /\ u # s
          /\ F[s] = Len(th[Pick(s)].vChecks) + F[u]
      <4>1. IsSum(F, th)
        BY <1>1, Zenon
      <4> HIDE DEF T
      <4> QED BY <3>2, <3>3, <4>1, SumStep, Zenon
    <3>5. F[u] = 0
      BY <3>1, <3>4, Zenon
    <3>6. Len(th[Pick(s)].vChecks) = 0
      BY <1>5, <3>2, <3>4, Zenon
    <3> QED BY <3>2, <3>4, <3>5, <3>6
  <2> QED BY <1>1, <1>2, <2>2, Zenon
<1> QED BY <1>3, <1>4, <1>5, Zenon

-----------------------------------------------------------------------------
(* Batches *)

\* The greater of two numbers, std::max.
LEMMA MaxOfTwo ==
  ASSUME NEW n \in Nat, NEW d \in Nat
  PROVE  Max({n, d}) \in {n, d} /\ Max({n, d}) >= n /\ Max({n, d}) >= d
<1>1. \E x \in {n, d} : \A y \in {n, d} : x >= y
  BY n >= d \/ d >= n
<1> QED BY <1>1, Zenon DEF Max

\* The smaller of two numbers, std::min.
LEMMA MinOfTwo ==
  ASSUME NEW n \in Nat, NEW d \in Nat
  PROVE  Min({n, d}) \in {n, d} /\ Min({n, d}) <= n /\ Min({n, d}) <= d
<1>1. \E x \in {n, d} : \A y \in {n, d} : x <= y
  BY n <= d \/ d <= n
<1> QED BY <1>1, Zenon DEF Min

\* A thread takes at least one check of those that are queued, and no more.
LEMMA ShareBound ==
  ASSUME NEW s, s.queue \in Seq(Checks), s.queue # <<>>, s.nTotal \in Nat, s.nIdle \in Nat
  PROVE  Share(s) \in 1 .. Len(s.queue)
<1> DEFINE n == Len(s.queue)
           k == n \div (s.nTotal + s.nIdle + 1)
<1>1. n \in Nat \ {0}
  OBVIOUS
<1>2. s.nTotal + s.nIdle + 1 \in Nat \ {0}
  OBVIOUS
<1>3. \A d \in Nat \ {0} : n \div d \in Nat /\ n \div d <= n
  <2> HIDE DEF n
  <2> QED BY <1>1
<1>4. k \in Nat /\ k <= n
  <2> HIDE DEF n
  <2> QED BY <1>2, <1>3, Zenon
<1>5. Share(s) = Max({1, Min({nBatchSize, k})})
  BY Zenon DEF Share
<1>6. nBatchSize \in Nat
  BY QueueConstants, Zenon
<1> HIDE DEF k, n
<1>7. Min({nBatchSize, k}) \in Nat /\ Min({nBatchSize, k}) <= k
  BY <1>4, <1>6, MinOfTwo, Zenon
<1> DEFINE m == Min({nBatchSize, k})
<1>9. m \in Nat
  BY <1>7, Zenon
<1> HIDE DEF m
<1>8. Max({1, m}) \in Nat /\ Max({1, m}) >= 1 /\ (Max({1, m}) = 1 \/ Max({1, m}) = m)
  BY <1>9, MaxOfTwo
<1> QED BY <1>1, <1>4, <1>5, <1>7, <1>8 DEF m, n

\* What is left of the queue and the batch are the queue.
LEMMA TakeSound ==
  ASSUME NEW s \in Seq(Checks), NEW k \in 1 .. Len(s)
  PROVE  LET left == Len(s) - k
             rest == SubSeq(s, 1, left)
             batch == [i \in 1 .. k |-> s[Len(s) + 1 - i]]
         IN  /\ rest \in Seq(Checks) /\ Len(rest) = left
             /\ batch \in Seq(Checks) /\ Len(batch) = k
             /\ Range(s) = Range(rest) \cup Range(batch)
<1> DEFINE left == Len(s) - k
           rest == SubSeq(s, 1, left)
           batch == [i \in 1 .. k |-> s[Len(s) + 1 - i]]
<1>1. left \in Nat /\ left + k = Len(s) /\ k \in Nat
  OBVIOUS
<1> HIDE DEF left
<1>2. rest \in Seq(Checks) /\ Len(rest) = left /\ \A i \in 1 .. left : rest[i] = s[i]
  BY <1>1
<1> HIDE DEF rest
<1>3. \A i \in 1 .. k : s[Len(s) + 1 - i] \in Checks
  BY <1>1
<1>4. batch \in Seq(Checks) /\ Len(batch) = k
  BY <1>1, <1>3
<1>5. \A i \in 1 .. k : batch[i] = s[Len(s) + 1 - i]
  BY Zenon
<1> HIDE DEF batch
<1>6. Range(s) = { s[i] : i \in 1 .. Len(s) }
  BY DEF Range
<1>7. Range(rest) = { s[i] : i \in 1 .. left }
  BY <1>2 DEF Range
<1>8. Range(batch) = { s[i] : i \in left + 1 .. Len(s) }
  <2>1. ASSUME NEW x \in Range(batch) PROVE \E i \in left + 1 .. Len(s) : x = s[i]
    <3>1. PICK i \in 1 .. k : x = batch[i]
      BY <1>4 DEF Range
    <3> QED BY <1>1, <1>5, <3>1
  <2>2. ASSUME NEW i \in left + 1 .. Len(s) PROVE s[i] \in Range(batch)
    <3>1. Len(s) + 1 - i \in 1 .. k /\ batch[Len(s) + 1 - i] = s[i]
      BY <1>1, <1>5
    <3> QED BY <1>4, <3>1 DEF Range
  <2> QED BY <2>1, <2>2, Zenon
<1>9. 1 .. Len(s) = (1 .. left) \cup (left + 1 .. Len(s))
  BY <1>1
<1>10. Range(s) = Range(rest) \cup Range(batch)
  BY <1>6, <1>7, <1>8, <1>9, Zenon
<1> QED BY <1>2, <1>4, <1>10, Zenon DEF left, rest, batch

\* Adding checks to the queue.
LEMMA AddSound ==
  ASSUME NEW s \in Seq(Checks), NEW S \in SUBSET Checks
  PROVE  LET r == s \o Listed(S)
         IN  /\ r \in Seq(Checks) /\ Cardinality(S) \in Nat
             /\ Len(r) = Len(s) + Cardinality(S)
             /\ Range(r) = Range(s) \cup S
<1> DEFINE n == Cardinality(S)
           t == Listed(S)
           r == s \o t
<1>1. IsFiniteSet(S)
  BY QueueConstants, FS_Subset, Zenon
<1>2. n \in Nat /\ ExistsBijection(1 .. n, S)
  BY <1>1, FS_CardinalityType, Zenon
<1>3. t \in Bijection(1 .. n, S)
  BY <1>2, Zenon DEF ExistsBijection, Listed
<1>5. t \in [1 .. n -> S]
  BY <1>3, Zenon DEF Bijection, Injection
<1>8. t \in Surjection(1 .. n, S)
  BY <1>3, Zenon DEF Bijection
<1> HIDE DEF t, n
<1>9. \A x \in S : \E i \in 1 .. n : t[i] = x
  BY <1>8, Zenon DEF Surjection
<1>10. t \in Seq(Checks) /\ Len(t) = n
  BY <1>2, <1>5
<1>11. Range(t) = S
  BY <1>5, <1>9, <1>10, Zenon DEF Range
<1>12. /\ r \in Seq(Checks) /\ Len(r) = Len(s) + n
       /\ \A i \in 1 .. Len(s) : r[i] = s[i]
       /\ \A i \in 1 .. n : r[Len(s) + i] = t[i]
  BY <1>10
<1> HIDE DEF r
<1>13. Range(r) \subseteq Range(s) \cup Range(t)
  <2> SUFFICES ASSUME NEW i \in 1 .. Len(r) PROVE r[i] \in Range(s) \cup Range(t)
    BY <1>12 DEF Range
  <2>1. CASE i <= Len(s)
    BY <1>12, <2>1 DEF Range
  <2>2. CASE i > Len(s)
    <3>1. i - Len(s) \in 1 .. n /\ i = Len(s) + (i - Len(s))
      BY <1>2, <1>12, <2>2
    <3>2. r[i] = t[i - Len(s)]
      BY <1>12, <3>1, Zenon
    <3> QED BY <1>10, <3>1, <3>2 DEF Range
  <2> QED BY <2>1, <2>2
<1>14. Range(s) \subseteq Range(r)
  BY <1>12, <1>2 DEF Range
<1>15. Range(t) \subseteq Range(r)
  <2> SUFFICES ASSUME NEW i \in 1 .. n PROVE t[i] \in Range(r)
    BY <1>10 DEF Range
  <2>1. Len(s) + i \in 1 .. Len(r) /\ r[Len(s) + i] = t[i]
    BY <1>2, <1>12
  <2> QED BY <1>12, <2>1 DEF Range
<1> QED BY <1>2, <1>11, <1>12, <1>13, <1>14, <1>15, Zenon DEF n, r, t

-----------------------------------------------------------------------------
(* The invariant *)

Shared == [queue : Seq(Checks), nIdle : Nat, nTotal : Nat, fAllOk : BOOLEAN, nTodo : Nat]
Local  == [at : Place, vChecks : Seq(Checks), fOk : BOOLEAN]

\* The types, and where a thread holds a batch.
TypeInv ==
  /\ q \in Shared
  /\ thread \in [Threads -> Local]
  /\ woken \subseteq Waiting /\ added \subseteq Checks
  /\ verdict \in {"none", "valid", "invalid"} /\ rounds \in 0 .. MaxRounds
  /\ \A t \in Workers : thread[t].at \notin {"outside", "adding"}
  /\ thread[Master].at # "gone"
  /\ \A t \in Threads : /\ thread[t].at = "run" => thread[t].vChecks # <<>>
                        /\ thread[t].at \notin {"run", "enter"} => thread[t].vChecks = <<>>

\* A worker that was interrupted while it waited still counts as idle.
Idles == { t \in Threads : thread[t].at \in {"wait", "gone"} }

\* The threads that are in the loop, past its top.
Counted == { t \in Threads : \/ thread[t].at \in {"wait", "run", "gone"}
                             \/ thread[t].vChecks # <<>> }

\* The three counters.
CountInv ==
  /\ q.nIdle = Cardinality(Idles)
  /\ q.nTotal = Cardinality(Counted)
  /\ q.nTodo = Len(q.queue) + SumLen(thread)

Failed == added \cap Bad # {}

\* Thread t will report that a check failed: c, or an earlier one.
Reports(t, c) == /\ c \in Range(thread[t].vChecks)
                 /\ thread[t].at = "run" \/ ~thread[t].fOk

\* Nothing is left of the last block when there is no control; the checks that
\* are left belong to this one; a failure is only ever recorded for a check of
\* this block that fails, and such a check is queued, in hand or recorded.
StatusInv ==
  /\ thread[Master].at = "outside" => q.fAllOk /\ NoneLeft
  /\ Range(q.queue) \subseteq added
  /\ \A t \in Threads : Range(thread[t].vChecks) \subseteq added
  /\ ~q.fAllOk => Failed
  /\ \A t \in Threads : thread[t].vChecks # <<>> /\ ~thread[t].fOk => Failed
  /\ thread[Master].at # "outside" =>
       \A c \in added \cap Bad : \/ ~q.fAllOk \/ c \in Range(q.queue)
                                 \/ \E t \in Threads : Reports(t, c)

IInv == TypeInv /\ CountInv /\ StatusInv

-----------------------------------------------------------------------------
(* One thread moves *)

\* What a step that changes the local state of thread t to l does to the sets
\* and the sum that the counters stand for.
Moved(t, l) ==
  /\ thread' \in [Threads -> Local]
  /\ thread'[t] = l
  /\ \A u \in Threads \ {t} : thread'[u] = thread[u]
  /\ Idles' = IF l.at \in {"wait", "gone"} THEN Idles \cup {t} ELSE Idles \ {t}
  /\ Counted' = IF l.at \in {"wait", "run", "gone"} \/ l.vChecks # <<>>
                THEN Counted \cup {t} ELSE Counted \ {t}
  /\ Waiting' = IF l.at = "wait" THEN Waiting \cup {t} ELSE Waiting \ {t}
  /\ SumLen(thread) \in Nat /\ SumLen(thread') \in Nat
  /\ Len(thread[t].vChecks) <= SumLen(thread)
  /\ SumLen(thread') = (SumLen(thread) + Len(l.vChecks)) - Len(thread[t].vChecks)

\* A step in which only thread t moves is of that kind.
LEMMA MovedSound ==
  ASSUME thread \in [Threads -> Local], NEW t \in Threads, NEW l \in Local,
         thread' \in [Threads -> Local], thread'[t] = l,
         \A u \in Threads \ {t} : thread'[u] = thread[u]
  PROVE  Moved(t, l)
<1>1. /\ thread' \in [Threads -> Local]
      /\ thread'[t] = l
      /\ \A u \in Threads \ {t} : thread'[u] = thread[u]
  BY Zenon
<1>2. Idles' = IF l.at \in {"wait", "gone"} THEN Idles \cup {t} ELSE Idles \ {t}
  BY <1>1, Zenon DEF Idles
<1>3. Counted' = IF l.at \in {"wait", "run", "gone"} \/ l.vChecks # <<>>
                 THEN Counted \cup {t} ELSE Counted \ {t}
  BY <1>1, Zenon DEF Counted
<1>4. Waiting' = IF l.at = "wait" THEN Waiting \cup {t} ELSE Waiting \ {t}
  BY <1>1, Zenon DEF Waiting
<1>5. HasLens(thread) /\ HasLens(thread')
  BY <1>1 DEF HasLens, Local
<1>6. \A u \in Threads \ {t} : Len(thread'[u].vChecks) = Len(thread[u].vChecks)
  BY <1>1, Zenon
<1>7. /\ SumLen(thread) \in Nat /\ SumLen(thread') \in Nat
      /\ Len(thread[t].vChecks) <= SumLen(thread)
      /\ SumLen(thread') = (SumLen(thread) + Len(thread'[t].vChecks)) - Len(thread[t].vChecks)
  BY <1>5, <1>6, SumChange, Zenon
<1> QED BY <1>1, <1>2, <1>3, <1>4, <1>7, Zenon DEF Moved

\* The effect of At.
LEMMA AtMoves ==
  ASSUME thread \in [Threads -> Local], NEW t \in Threads, NEW place \in Place, At(t, place)
  PROVE  Moved(t, [at |-> place, vChecks |-> <<>>, fOk |-> thread[t].fOk])
<1> DEFINE l == [at |-> place, vChecks |-> <<>>, fOk |-> thread[t].fOk]
<1>1. l \in Local
  BY DEF Local
<1>2. thread[t] \in Local
  BY Zenon
<1>4. thread'[t] = [[thread[t] EXCEPT !.at = place] EXCEPT !.vChecks = <<>>]
  BY Zenon DEF At
<1>5. thread'[t] = l
  <2> DEFINE r == [at |-> place, vChecks |-> thread[t].vChecks, fOk |-> thread[t].fOk]
  <2>1. [thread[t] EXCEPT !.at = place] = r
    BY <1>2 DEF Local
  <2>2. [r EXCEPT !.vChecks = <<>>] = l
    OBVIOUS
  <2> QED BY <1>4, <2>1, <2>2, Zenon
<1>6. \A u \in Threads \ {t} : thread'[u] = thread[u]
  BY Zenon DEF At
<1> HIDE DEF l
<1>7. thread' \in [Threads -> Local]
  BY <1>1, <1>5, <1>6, Zenon DEF At
<1>3. Moved(t, l)
  BY <1>1, <1>5, <1>6, <1>7, MovedSound, Zenon
<1> QED BY <1>3, Zenon DEF l

\* Adding a thread to a set of threads and removing one.
LEMMA CountOneMore ==
  ASSUME NEW S \in SUBSET Threads, NEW t \in Threads
  PROVE  /\ Cardinality(S) \in Nat /\ Cardinality(S \ {t}) \in Nat
         /\ Cardinality(S \cup {t}) = Cardinality(S \ {t}) + 1
<1>1. IsFiniteSet(S \ {t}) /\ IsFiniteSet(S)
  BY ThreadsFinite, FS_Subset, Zenon
<1>2. t \notin S \ {t} /\ (S \ {t}) \cup {t} = S \cup {t}
  BY Zenon
<1>3. Cardinality((S \ {t}) \cup {t}) = Cardinality(S \ {t}) + 1
  BY <1>1, <1>2, FS_AddElement, Zenon
<1>4. Cardinality(S) \in Nat /\ Cardinality(S \ {t}) \in Nat
  BY <1>1, FS_CardinalityType, Zenon
<1> QED BY <1>2, <1>3, <1>4, Zenon

-----------------------------------------------------------------------------
(* The test of the queue *)

\* Thread t holds the mutex and tests the queue, with the shared state s: its
\* results are in s, it is not idle and it is counted.
MidInv(t, s) ==
  /\ s \in Shared
  /\ thread[t].at \in {"enter", "wait"}
  /\ s.nIdle = Cardinality(Idles \ {t})
  /\ s.nTotal = Cardinality(Counted \cup {t})
  /\ s.nTodo + Len(thread[t].vChecks) = Len(s.queue) + SumLen(thread)
  /\ Range(s.queue) \subseteq added
  /\ ~s.fAllOk => Failed
  /\ thread[Master].at = "outside" => s.queue = <<>> /\ s.fAllOk
  /\ thread[Master].at # "outside" =>
       \A c \in added \cap Bad : \/ ~s.fAllOk \/ c \in Range(s.queue)
                                 \/ \E u \in Threads \ {t} : Reports(u, c)

\* A batch is part of what the sum counts.
LEMMA SumParts ==
  ASSUME thread \in [Threads -> Local], NEW t \in Threads
  PROVE  /\ SumLen(thread) \in Nat /\ Len(thread[t].vChecks) \in Nat
         /\ Len(thread[t].vChecks) <= SumLen(thread)
<1>1. HasLens(thread)
  BY DEF HasLens, Local
<1>2. SumLen(thread) \in Nat /\ Len(thread[t].vChecks) <= SumLen(thread)
  BY <1>1, SumChange, Zenon
<1> QED BY <1>1, <1>2, Zenon DEF HasLens

\* At the top of the loop the clean-up accounts for the last batch, or counts
\* a thread that comes in.
LEMMA EnterMid ==
  ASSUME IInv, NEW t \in Threads, thread[t].at = "enter"
  PROVE  MidInv(t, Clean(t))
<1> USE DEF IInv
<1> DEFINE s == Clean(t)
           v == thread[t].vChecks
<1>1. /\ q \in Shared /\ thread \in [Threads -> Local] /\ thread[t] \in Local
      /\ q.queue \in Seq(Checks) /\ q.nIdle \in Nat /\ q.nTotal \in Nat
      /\ q.fAllOk \in BOOLEAN /\ q.nTodo \in Nat
  BY Zenon DEF TypeInv, Shared
<1>2. SumLen(thread) \in Nat /\ Len(v) \in Nat /\ Len(v) <= SumLen(thread)
  BY <1>1, SumParts, Zenon
<1>3. Idles \ {t} = Idles
  BY Zenon DEF Idles
<1>4. Counted \in SUBSET Threads
  BY Zenon DEF Counted
<1>5. q.nTodo = Len(q.queue) + SumLen(thread) /\ Len(q.queue) \in Nat
  BY <1>1 DEF CountInv
<1>6. CASE v = <<>>
  <2>1. s = [q EXCEPT !.nTotal = @ + 1]
    BY <1>6, Zenon DEF Clean
  <2>2. /\ s \in Shared /\ s.queue = q.queue /\ s.nIdle = q.nIdle
        /\ s.nTotal = q.nTotal + 1 /\ s.fAllOk = q.fAllOk /\ s.nTodo = q.nTodo
    BY <1>1, <2>1 DEF Shared
  <2> HIDE DEF s
  <2>3. t \notin Counted
    BY <1>6, Zenon DEF Counted
  <2>4. s.nTotal = Cardinality(Counted \cup {t})
    <3>1. Cardinality(Counted \ {t}) = Cardinality(Counted)
      <4>1. Counted \ {t} = Counted
        BY <2>3, Zenon
      <4> QED BY <4>1, Zenon
    <3>2. Cardinality(Counted \cup {t}) = Cardinality(Counted \ {t}) + 1
      BY <1>4, CountOneMore, Zenon
    <3> QED BY <2>2, <3>1, <3>2, Zenon DEF CountInv
  <2>5. Len(v) = 0
    BY <1>6
  <2>6. \A c \in Checks : ~Reports(t, c)
    BY <1>6 DEF Reports, Range
  <2>7. s.nTodo + Len(v) = Len(s.queue) + SumLen(thread)
    BY <1>2, <1>5, <2>2, <2>5
  <2>8. thread[Master].at = "outside" => s.queue = <<>> /\ s.fAllOk
    BY <2>2, Zenon DEF StatusInv, NoneLeft
  <2>9. added \subseteq Checks
    BY Zenon DEF TypeInv
  <2>10. thread[Master].at # "outside" =>
           \A c \in added \cap Bad : \/ ~s.fAllOk \/ c \in Range(s.queue)
                                     \/ \E u \in Threads \ {t} : Reports(u, c)
    BY <2>2, <2>6, <2>9, Zenon DEF StatusInv
  <2>11. s.nIdle = Cardinality(Idles \ {t})
    BY <1>3, <2>2, Zenon DEF CountInv
  <2>12. Range(s.queue) \subseteq added /\ (~s.fAllOk => Failed)
    BY <2>2, Zenon DEF StatusInv
  <2> QED BY <2>2, <2>4, <2>7, <2>8, <2>10, <2>11, <2>12, Zenon DEF MidInv, s
<1>7. CASE v # <<>>
  <2>1. s = [q EXCEPT !.fAllOk = @ /\ thread[t].fOk, !.nTodo = @ - Len(v)]
    BY <1>7, Zenon DEF Clean
  <2>2. q.nTodo - Len(v) \in Nat /\ (q.nTodo - Len(v)) + Len(v) = Len(q.queue) + SumLen(thread)
    <3> DEFINE a == Len(v)
               b == Len(q.queue)
               c == SumLen(thread)
    <3>1. a \in Nat /\ b \in Nat /\ c \in Nat /\ a <= c /\ q.nTodo = b + c
      BY <1>2, <1>5, Zenon
    <3> HIDE DEF a, b, c
    <3>2. q.nTodo - a \in Nat /\ (q.nTodo - a) + a = b + c
      BY <3>1
    <3> QED BY <3>2, Zenon DEF a, b, c
  <2>3. thread[t].fOk \in BOOLEAN
    BY <1>1, Zenon DEF Local
  <2>4. /\ s.queue = q.queue /\ s.nIdle = q.nIdle /\ s.nTotal = q.nTotal
        /\ s.fAllOk = (q.fAllOk /\ thread[t].fOk) /\ s.nTodo = q.nTodo - Len(v)
    BY <1>1, <2>1, Zenon DEF Shared
  <2>5. s \in Shared
    <3> DEFINE ok == q.fAllOk /\ thread[t].fOk
               n == q.nTodo - Len(v)
    <3>1. ok \in BOOLEAN /\ n \in Nat
      BY <1>1, <2>2, <2>3, Zenon
    <3>2. s = [[q EXCEPT !.fAllOk = ok] EXCEPT !.nTodo = n]
      BY <2>1, Zenon
    <3> DEFINE r == [q EXCEPT !.fAllOk = ok]
    <3> HIDE DEF ok, n
    <3>3. r \in Shared
      BY <1>1, <3>1, Zenon DEF Shared
    <3>4. s = [r EXCEPT !.nTodo = n]
      BY <3>2, Zenon
    <3> HIDE DEF r, s
    <3> QED BY <3>1, <3>3, <3>4, Zenon DEF Shared
  <2> HIDE DEF s
  <2>6. Counted \cup {t} = Counted
    BY <1>7, Zenon DEF Counted
  <2>7. s.nIdle = Cardinality(Idles \ {t}) /\ s.nTotal = Cardinality(Counted \cup {t})
    BY <1>3, <2>4, <2>6, Zenon DEF CountInv
  <2>8. s.nTodo + Len(v) = Len(s.queue) + SumLen(thread)
    BY <2>2, <2>4, Zenon
  <2>9. thread[Master].at # "outside"
    BY <1>7, Zenon DEF StatusInv, NoneLeft
  <2>10. Range(s.queue) \subseteq added /\ (~s.fAllOk => Failed)
    BY <1>7, <2>4, Zenon DEF StatusInv
  <2>11. ASSUME NEW c \in added \cap Bad
         PROVE  \/ ~s.fAllOk \/ c \in Range(s.queue)
                \/ \E u \in Threads \ {t} : Reports(u, c)
    <3>1. \/ ~q.fAllOk \/ c \in Range(q.queue) \/ \E u \in Threads : Reports(u, c)
      BY <2>9, Zenon DEF StatusInv
    <3>2. Reports(t, c) => ~s.fAllOk
      BY <2>4, Zenon DEF Reports
    <3> QED BY <2>4, <3>1, <3>2, Zenon
  <2> QED BY <2>5, <2>7, <2>8, <2>9, <2>10, <2>11, Zenon DEF MidInv, s
<1> QED BY <1>6, <1>7, Zenon

\* cond.wait returns: the thread is no longer idle.
LEMMA WakeMid ==
  ASSUME IInv, NEW t \in Threads, t \in woken
  PROVE  MidInv(t, [q EXCEPT !.nIdle = @ - 1]) /\ thread[t].at = "wait"
<1> USE DEF IInv
<1> DEFINE s == [q EXCEPT !.nIdle = @ - 1]
<1>1. thread[t].at = "wait" /\ thread[t].vChecks = <<>>
  BY Zenon DEF TypeInv, Waiting
<1>2. /\ q \in Shared /\ thread \in [Threads -> Local]
      /\ q.queue \in Seq(Checks) /\ q.nIdle \in Nat /\ q.nTotal \in Nat
      /\ q.fAllOk \in BOOLEAN /\ q.nTodo \in Nat
  BY Zenon DEF TypeInv, Shared
<1>3. Idles \in SUBSET Threads /\ Idles \cup {t} = Idles /\ Counted \cup {t} = Counted
  BY <1>1, Zenon DEF Idles, Counted
<1>4. /\ Cardinality(Idles \ {t}) \in Nat /\ q.nIdle = Cardinality(Idles \cup {t})
      /\ Cardinality(Idles \cup {t}) = Cardinality(Idles \ {t}) + 1
  <2>1. q.nIdle = Cardinality(Idles \cup {t})
    BY <1>3, Zenon DEF CountInv
  <2> QED BY <1>3, <2>1, CountOneMore, Zenon
<1>5. q.nIdle - 1 = Cardinality(Idles \ {t}) /\ q.nIdle - 1 \in Nat
  BY <1>4
<1>6. /\ s.queue = q.queue /\ s.nIdle = q.nIdle - 1 /\ s.nTotal = q.nTotal
      /\ s.fAllOk = q.fAllOk /\ s.nTodo = q.nTodo
  BY <1>2, Zenon DEF Shared
<1>7. s \in Shared
  BY <1>2, <1>5, Zenon DEF Shared
<1> HIDE DEF s
<1>8. s.nIdle = Cardinality(Idles \ {t}) /\ s.nTotal = Cardinality(Counted \cup {t})
  BY <1>3, <1>5, <1>6, Zenon DEF CountInv
<1>9. s.nTodo + Len(thread[t].vChecks) = Len(s.queue) + SumLen(thread)
  <2>1. Len(thread[t].vChecks) = 0
    BY <1>1
  <2> QED BY <1>2, <1>6, <2>1 DEF CountInv
<1>10. thread[Master].at = "outside" => s.queue = <<>> /\ s.fAllOk
  BY <1>6, Zenon DEF StatusInv, NoneLeft
<1>11. Range(s.queue) \subseteq added /\ (~s.fAllOk => Failed)
  BY <1>6, Zenon DEF StatusInv
<1>12. thread[Master].at # "outside" =>
         \A c \in added \cap Bad : \/ ~s.fAllOk \/ c \in Range(s.queue)
                                   \/ \E u \in Threads \ {t} : Reports(u, c)
  <2>1. \A c : ~Reports(t, c)
    BY <1>1 DEF Reports, Range
  <2> QED BY <1>6, <2>1, Zenon DEF StatusInv
<1>13. MidInv(t, s)
  BY <1>1, <1>7, <1>8, <1>9, <1>10, <1>11, <1>12, Zenon DEF MidInv
<1> QED BY <1>1, <1>13, Zenon DEF s

\* The types after a step of one thread.
LEMMA MovedType ==
  ASSUME TypeInv, NEW t \in Threads, NEW l \in Local, Moved(t, l),
         q' \in Shared, woken' \subseteq Waiting \ {t}, added' \subseteq Checks,
         verdict' \in {"none", "valid", "invalid"}, rounds' \in 0 .. MaxRounds,
         t \in Workers => l.at \notin {"outside", "adding"},
         t = Master => l.at # "gone",
         l.at = "run" => l.vChecks # <<>>,
         l.at \notin {"run", "enter"} => l.vChecks = <<>>
  PROVE  TypeInv'
<1>1. thread' \in [Threads -> Local] /\ thread'[t] = l
      /\ \A u \in Threads \ {t} : thread'[u] = thread[u]
  BY Zenon DEF Moved
<1>2. woken' \subseteq Waiting'
  BY Zenon DEF Moved
<1>3. Master \in Threads /\ Workers \subseteq Threads
  BY Zenon DEF Threads
<1>4. \A u \in Workers : thread'[u].at \notin {"outside", "adding"}
  BY <1>1, <1>3, Zenon DEF TypeInv
<1>5. thread'[Master].at # "gone"
  BY <1>1, <1>3, Zenon DEF TypeInv
<1>6. \A u \in Threads :
        /\ thread'[u].at = "run" => thread'[u].vChecks # <<>>
        /\ thread'[u].at \notin {"run", "enter"} => thread'[u].vChecks = <<>>
  BY <1>1, Zenon DEF TypeInv
<1> QED BY <1>1, <1>2, <1>4, <1>5, <1>6, Zenon DEF TypeInv

\* The master returns: all batches are done, and the verdict is exact.
LEMMA LeaveInv ==
  ASSUME IInv, NEW t \in Threads, NEW s, MidInv(t, s), Leave(t, s),
         woken' \subseteq Waiting \ {t}, UNCHANGED <<added, rounds>>
  PROVE  IInv' /\ verdict' = IF added \cap Bad = {} THEN "valid" ELSE "invalid"
<1> USE DEF IInv
<1> DEFINE l == [at |-> "outside", vChecks |-> <<>>, fOk |-> thread[t].fOk]
<1>1. thread \in [Threads -> Local] /\ thread[t] \in Local /\ thread[t].fOk \in BOOLEAN
  BY Zenon DEF TypeInv, Local
<1>2. Moved(t, l) /\ l \in Local
  <2>1. At(t, "outside") /\ "outside" \in Place
    BY Zenon DEF Leave, Place
  <2>2. Moved(t, l)
    BY <1>1, <2>1, AtMoves, Zenon
  <2> QED BY <1>1, <2>2 DEF Place, Local
<1>3. l.at = "outside" /\ l.vChecks = <<>> /\ Len(l.vChecks) = 0
  BY Zenon
<1> HIDE DEF l
<1>4. t = Master /\ s.queue = <<>> /\ Len(s.queue) = 0 /\ s.nTodo = 0
  BY Zenon DEF Leave
<1>5. /\ s \in Shared /\ s.queue \in Seq(Checks) /\ s.nTotal \in Nat /\ s.nIdle \in Nat
      /\ s.fAllOk \in BOOLEAN
  BY Zenon DEF MidInv, Shared
<1>6. Counted \in SUBSET Threads
  BY Zenon DEF Counted
<1>7. s.nTotal - 1 = Cardinality(Counted \ {t}) /\ s.nTotal - 1 \in Nat
  BY <1>6, CountOneMore DEF MidInv
<1>8. /\ q'.queue = <<>> /\ q'.nIdle = s.nIdle /\ q'.nTotal = s.nTotal - 1
      /\ q'.fAllOk = TRUE /\ q'.nTodo = 0
  BY <1>4, <1>5, Zenon DEF Leave, Shared
<1>9. q' \in Shared
  <2> DEFINE r == [s EXCEPT !.nTotal = @ - 1]
             ok == TRUE
  <2>1. r \in Shared /\ ok \in BOOLEAN
    BY <1>5, <1>7, Zenon DEF Shared
  <2>2. q' = [r EXCEPT !.fAllOk = ok]
    BY Zenon DEF Leave
  <2> HIDE DEF r, ok
  <2> QED BY <2>1, <2>2, Zenon DEF Shared
<1>10. TypeInv'
  <2>1. verdict' \in {"none", "valid", "invalid"} /\ added' \subseteq Checks /\ rounds' \in 0 .. MaxRounds
    BY Zenon DEF Leave, TypeInv
  <2>2. t \notin Workers
    BY <1>4, QueueConstants, Zenon
  <2> QED BY <1>2, <1>3, <1>9, <2>1, <2>2, MovedType, Zenon
<1>11. SumLen(thread') = 0
  <2>1. SumLen(thread) \in Nat /\ Len(thread[t].vChecks) \in Nat
    BY <1>1, SumParts, Zenon
  <2> QED BY <1>2, <1>3, <1>4, <2>1 DEF Moved, MidInv
<1>12. \A u \in Threads : thread'[u].vChecks = <<>>
  <2>1. thread' \in [Threads -> Local]
    BY <1>2, Zenon DEF Moved
  <2>2. HasLens(thread')
    BY <2>1 DEF HasLens, Local
  <2>3. \A u \in Threads : Len(thread'[u].vChecks) = 0
    BY <1>11, <2>2, SumZero, Zenon
  <2>4. \A u \in Threads : thread'[u].vChecks \in Seq(Checks)
    BY <2>1, Zenon DEF Local
  <2> QED BY <2>3, <2>4
<1>13. CountInv'
  <2>1. Idles' = Idles \ {t} /\ Counted' = Counted \ {t}
    BY <1>2, <1>3, Zenon DEF Moved
  <2>2. q'.nIdle = Cardinality(Idles') /\ q'.nTotal = Cardinality(Counted')
    BY <1>7, <1>8, <2>1, Zenon DEF MidInv
  <2>3. q'.nTodo = Len(q'.queue) + SumLen(thread')
    BY <1>8, <1>11
  <2> QED BY <2>2, <2>3, Zenon DEF CountInv
<1>14. thread'[Master].at = "outside"
  BY <1>2, <1>3, <1>4, Zenon DEF Moved
<1>15. StatusInv'
  <2>1. Range(<<>>) = {}
    BY DEF Range
  <2>2. NoneLeft'
    BY <1>8, <1>12, Zenon DEF NoneLeft
  <2>3. Range(q'.queue) \subseteq added' /\ \A u \in Threads : Range(thread'[u].vChecks) \subseteq added'
    BY <1>8, <1>12, <2>1, Zenon
  <2> QED BY <1>8, <1>12, <1>14, <2>2, <2>3, Zenon DEF StatusInv
<1>16. s.fAllOk <=> added \cap Bad = {}
  <2>1. ASSUME NEW c \in added \cap Bad PROVE ~s.fAllOk
    <3>1. thread[Master].at # "outside"
      BY <1>4, Zenon DEF MidInv
    <3>2. \A u \in Threads \ {t} : thread[u].vChecks = <<>>
      BY <1>2, <1>12, Zenon DEF Moved
    <3>3. c \notin Range(s.queue) /\ \A u \in Threads \ {t} : ~Reports(u, c)
      BY <1>4, <3>2 DEF Range, Reports
    <3> QED BY <3>1, <3>3, Zenon DEF MidInv
  <2> QED BY <2>1, Zenon DEF MidInv, Failed
<1> QED BY <1>10, <1>13, <1>15, <1>16, Zenon DEF Leave

\* A thread finds nothing queued and waits.
LEMMA SleepInv ==
  ASSUME IInv, NEW t \in Threads, NEW s, MidInv(t, s), Sleep(t, s),
         woken' \subseteq Waiting \ {t}, UNCHANGED <<added, rounds>>
  PROVE  IInv'
<1> USE DEF IInv
<1> DEFINE l == [at |-> "wait", vChecks |-> <<>>, fOk |-> thread[t].fOk]
<1>1. thread \in [Threads -> Local] /\ thread[t] \in Local /\ thread[t].fOk \in BOOLEAN
  BY Zenon DEF TypeInv, Local
<1>2. Moved(t, l) /\ l \in Local
  <2>1. At(t, "wait") /\ "wait" \in Place
    BY Zenon DEF Sleep, Place
  <2>2. Moved(t, l)
    BY <1>1, <2>1, AtMoves, Zenon
  <2> QED BY <1>1, <2>2 DEF Place, Local
<1>3. l.at = "wait" /\ l.vChecks = <<>> /\ Len(l.vChecks) = 0
  BY Zenon
<1> HIDE DEF l
<1>4. s.queue = <<>> /\ Len(s.queue) = 0
  BY Zenon DEF Sleep
<1>5. /\ s \in Shared /\ s.nTotal \in Nat /\ s.nIdle \in Nat /\ s.nTodo \in Nat
      /\ s.fAllOk \in BOOLEAN
  BY Zenon DEF MidInv, Shared
<1>6. Idles \in SUBSET Threads
  BY Zenon DEF Idles
<1>7. s.nIdle + 1 = Cardinality(Idles \cup {t})
  BY <1>6, CountOneMore, Zenon DEF MidInv
<1>8. /\ q'.queue = <<>> /\ q'.nIdle = s.nIdle + 1 /\ q'.nTotal = s.nTotal
      /\ q'.fAllOk = s.fAllOk /\ q'.nTodo = s.nTodo
  BY <1>4, <1>5, Zenon DEF Sleep, Shared
<1>9. q' \in Shared
  BY <1>5 DEF Sleep, Shared
<1>10. TypeInv'
  <2>1. /\ verdict' \in {"none", "valid", "invalid"} /\ added' \subseteq Checks
        /\ rounds' \in 0 .. MaxRounds
    BY Zenon DEF Sleep, TypeInv
  <2> QED BY <1>2, <1>3, <1>9, <2>1, MovedType, Zenon
<1>11. CountInv'
  <2>1. Idles' = Idles \cup {t} /\ Counted' = Counted \cup {t}
    BY <1>2, <1>3, Zenon DEF Moved
  <2>2. q'.nIdle = Cardinality(Idles') /\ q'.nTotal = Cardinality(Counted')
    BY <1>7, <1>8, <2>1, Zenon DEF MidInv
  <2>3. SumLen(thread) \in Nat /\ Len(thread[t].vChecks) \in Nat
    BY <1>1, SumParts, Zenon
  <2>4. q'.nTodo = SumLen(thread')
    BY <1>2, <1>3, <1>4, <1>5, <1>8, <2>3 DEF Moved, MidInv
  <2>5. q'.nTodo = Len(q'.queue) + SumLen(thread')
    BY <1>5, <1>8, <2>4
  <2> QED BY <2>2, <2>5, Zenon DEF CountInv
<1>12. /\ thread'[t].at = "wait" /\ thread'[t].vChecks = <<>>
       /\ \A u \in Threads \ {t} : thread'[u] = thread[u]
  BY <1>2, <1>3, Zenon DEF Moved
<1>13. Master \in Threads /\ (thread'[Master].at = "outside" <=> thread[Master].at = "outside")
  BY <1>12, Zenon DEF MidInv, Threads
<1>14. StatusInv'
  <2>1. Range(<<>>) = {}
    BY DEF Range
  <2>2. ASSUME thread'[Master].at = "outside" PROVE q'.fAllOk /\ NoneLeft'
    <3>1. s.fAllOk /\ \A u \in Threads : thread[u].vChecks = <<>>
      BY <1>13, <2>2, Zenon DEF StatusInv, NoneLeft, MidInv
    <3>2. \A u \in Threads : thread'[u].vChecks = <<>>
      BY <1>12, <3>1, Zenon
    <3> QED BY <1>8, <3>1, <3>2, Zenon DEF NoneLeft
  <2>3. Range(q'.queue) \subseteq added' /\ \A u \in Threads : Range(thread'[u].vChecks) \subseteq added'
    BY <1>8, <1>12, <2>1, Zenon DEF StatusInv
  <2>4. ~q'.fAllOk => Failed'
    BY <1>8, Zenon DEF MidInv, Failed
  <2>5. \A u \in Threads : thread'[u].vChecks # <<>> /\ ~thread'[u].fOk => Failed'
    BY <1>12, Zenon DEF StatusInv, Failed
  <2>6. ASSUME thread'[Master].at # "outside", NEW c \in added' \cap Bad
        PROVE  ~q'.fAllOk \/ \E u \in Threads : Reports(u, c)'
    <3>1. ~s.fAllOk \/ c \in Range(s.queue) \/ \E u \in Threads \ {t} : Reports(u, c)
      BY <1>13, <2>6, Zenon DEF MidInv
    <3>2. \A u \in Threads \ {t} : Reports(u, c) => Reports(u, c)'
      BY <1>12, Zenon DEF Reports
    <3> QED BY <1>4, <1>8, <2>1, <3>1, <3>2, Zenon
  <2> QED BY <2>2, <2>3, <2>4, <2>5, <2>6, Zenon DEF StatusInv
<1> QED BY <1>10, <1>11, <1>14, Zenon

\* A thread takes a batch from the back of the queue.
LEMMA TakeInv ==
  ASSUME IInv, NEW t \in Threads, NEW s, MidInv(t, s), Take(t, s),
         woken' \subseteq Waiting \ {t}, UNCHANGED <<added, rounds>>
  PROVE  IInv'
<1> USE DEF IInv
<1> DEFINE k == Share(s)
           left == Len(s.queue) - k
           rest == SubSeq(s.queue, 1, left)
           batch == [i \in 1 .. k |-> s.queue[Len(s.queue) + 1 - i]]
           l == [at |-> "run", vChecks |-> batch, fOk |-> s.fAllOk]
<1>1. thread \in [Threads -> Local]
  BY Zenon DEF TypeInv
<1>2. /\ s \in Shared /\ s.queue \in Seq(Checks) /\ s.nTotal \in Nat /\ s.nIdle \in Nat
      /\ s.nTodo \in Nat /\ s.fAllOk \in BOOLEAN /\ s.queue # <<>>
  BY Zenon DEF MidInv, Shared, Take
<1>3. k \in 1 .. Len(s.queue)
  BY <1>2, ShareBound, Zenon
<1>4. /\ q' = [s EXCEPT !.queue = rest]
      /\ thread' = [thread EXCEPT ![t] = l]
  BY Zenon DEF Take
<1> HIDE DEF k
<1>5. /\ rest \in Seq(Checks) /\ Len(rest) = left
      /\ batch \in Seq(Checks) /\ Len(batch) = k
      /\ Range(s.queue) = Range(rest) \cup Range(batch)
  BY <1>2, <1>3, TakeSound, Zenon
<1> HIDE DEF rest, batch
<1>6. Len(rest) + Len(batch) = Len(s.queue) /\ Len(batch) \in Nat \ {0} /\ Len(rest) \in Nat
  BY <1>2, <1>3, <1>5
<1> HIDE DEF left
<1>7. l \in Local /\ l.at = "run" /\ l.vChecks = batch /\ l.fOk = s.fAllOk
  BY <1>2, <1>5, Zenon DEF Local, Place
<1> HIDE DEF l
<1>8. Moved(t, l)
  BY <1>1, <1>4, <1>7, MovedSound, Zenon
<1>9. /\ q'.queue = rest /\ q'.nIdle = s.nIdle /\ q'.nTotal = s.nTotal
      /\ q'.fAllOk = s.fAllOk /\ q'.nTodo = s.nTodo
  BY <1>2, <1>4, Zenon DEF Shared
<1>10. q' \in Shared
  BY <1>2, <1>4, <1>5, Zenon DEF Shared
<1>11. batch # <<>>
  BY <1>6
<1>12. TypeInv'
  <2>1. /\ verdict' \in {"none", "valid", "invalid"} /\ added' \subseteq Checks
        /\ rounds' \in 0 .. MaxRounds
    BY Zenon DEF Take, TypeInv
  <2> QED BY <1>7, <1>8, <1>10, <1>11, <2>1, MovedType, Zenon
<1>13. CountInv'
  <2>1. Idles' = Idles \ {t} /\ Counted' = Counted \cup {t}
    BY <1>7, <1>8, Zenon DEF Moved
  <2>2. q'.nIdle = Cardinality(Idles') /\ q'.nTotal = Cardinality(Counted')
    BY <1>9, <2>1, Zenon DEF MidInv
  <2> DEFINE a == Len(rest)
             b == Len(batch)
             c == Len(thread[t].vChecks)
             n == SumLen(thread)
             m == SumLen(thread')
  <2>3. n \in Nat /\ c \in Nat
    BY <1>1, SumParts, Zenon
  <2>4. m = (n + b) - c
    BY <1>7, <1>8, Zenon DEF Moved
  <2>5. s.nTodo + c = (a + b) + n
    BY <1>6, Zenon DEF MidInv
  <2>6. a \in Nat /\ b \in Nat
    BY <1>6, Zenon
  <2> HIDE DEF a, b, c, n, m
  <2>7. s.nTodo = a + m
    BY <1>2, <2>3, <2>4, <2>5, <2>6
  <2>8. q'.nTodo = Len(q'.queue) + SumLen(thread')
    BY <1>9, <2>7, Zenon DEF a, m
  <2> QED BY <2>2, <2>8, Zenon DEF CountInv
<1>14. /\ thread'[t] = l
       /\ \A u \in Threads \ {t} : thread'[u] = thread[u]
  BY <1>8, Zenon DEF Moved
<1>15. Master \in Threads /\ thread[Master].at # "outside" /\ thread'[Master].at # "outside"
  BY <1>2, <1>7, <1>14, Zenon DEF MidInv, Threads
<1>16. StatusInv'
  <2>1. Range(q'.queue) \subseteq added'
    BY <1>5, <1>9, Zenon DEF MidInv
  <2>2. \A u \in Threads : Range(thread'[u].vChecks) \subseteq added'
    BY <1>5, <1>7, <1>14, Zenon DEF MidInv, StatusInv
  <2>3. ~q'.fAllOk => Failed'
    BY <1>9, Zenon DEF MidInv, Failed
  <2>4. ASSUME NEW u \in Threads, thread'[u].vChecks # <<>>, ~thread'[u].fOk PROVE Failed'
    <3>1. CASE u = t
      BY <1>7, <1>14, <2>4, <3>1, Zenon DEF MidInv, Failed
    <3>2. CASE u # t
      BY <1>14, <2>4, <3>2, Zenon DEF StatusInv, Failed
    <3> QED BY <3>1, <3>2, Zenon
  <2>5. ASSUME NEW c \in added' \cap Bad
        PROVE  ~q'.fAllOk \/ c \in Range(q'.queue) \/ \E u \in Threads : Reports(u, c)'
    <3>1. ~s.fAllOk \/ c \in Range(s.queue) \/ \E u \in Threads \ {t} : Reports(u, c)
      BY <1>15, <2>5, Zenon DEF MidInv
    <3>2. \A u \in Threads \ {t} : Reports(u, c) => Reports(u, c)'
      BY <1>14, Zenon DEF Reports
    <3>3. c \in Range(batch) => Reports(t, c)'
      BY <1>7, <1>14, Zenon DEF Reports
    <3>4. c \in Range(s.queue) => c \in Range(rest) \/ c \in Range(batch)
      BY <1>5, Zenon
    <3> QED BY <1>9, <3>1, <3>2, <3>3, <3>4, Zenon
  <2> QED BY <1>15, <2>1, <2>2, <2>3, <2>4, <2>5, Zenon DEF StatusInv
<1> QED BY <1>12, <1>13, <1>16, Zenon

-----------------------------------------------------------------------------
(* The other steps *)

\* The top of the loop, with the clean-up.
LEMMA EnterInv ==
  ASSUME IInv, NEW t \in Threads, Enter(t)
  PROVE  /\ IInv'
         /\ Leave(t, Clean(t)) =>
              verdict' = IF added \cap Bad = {} THEN "valid" ELSE "invalid"
<1> DEFINE s == Clean(t)
<1>1. thread[t].at = "enter" /\ Proceed(t, s) /\ UNCHANGED <<added, rounds>>
  BY Zenon DEF Enter
<1>2. MidInv(t, s)
  BY <1>1, EnterMid, Zenon
<1>3. woken \subseteq Waiting \ {t}
  BY <1>1, Zenon DEF IInv, TypeInv, Waiting
<1>4. Informed(t) \subseteq Waiting \ {t}
  BY Zenon DEF Informed
<1>5. woken' \subseteq Waiting \ {t}
  BY <1>3, <1>4, Zenon DEF Enter
<1> HIDE DEF s
<1>6. CASE Leave(t, s)
  BY <1>1, <1>2, <1>5, <1>6, LeaveInv, Zenon DEF s
<1>7. CASE Sleep(t, s)
  <2>1. IInv'
    BY <1>1, <1>2, <1>5, <1>7, SleepInv, Zenon
  <2>2. ~Leave(t, s)
    BY <1>7, Zenon DEF Leave, Sleep
  <2> QED BY <2>1, <2>2, Zenon DEF s
<1>8. CASE Take(t, s)
  <2>1. IInv'
    BY <1>1, <1>2, <1>5, <1>8, TakeInv, Zenon
  <2>2. ~Leave(t, s)
    BY <1>8, Zenon DEF Leave, Take
  <2> QED BY <2>1, <2>2, Zenon DEF s
<1> QED BY <1>1, <1>6, <1>7, <1>8, Zenon DEF Proceed

\* A thread that was notified, or woke up for no reason, gets the mutex again.
LEMMA WakeInv ==
  ASSUME IInv, NEW t \in Threads, Wake(t)
  PROVE  /\ IInv'
         /\ Leave(t, [q EXCEPT !.nIdle = @ - 1]) =>
              verdict' = IF added \cap Bad = {} THEN "valid" ELSE "invalid"
<1> DEFINE s == [q EXCEPT !.nIdle = @ - 1]
<1>1. t \in woken /\ Proceed(t, s) /\ UNCHANGED <<added, rounds>>
  BY Zenon DEF Wake
<1>2. MidInv(t, s)
  BY <1>1, WakeMid, Zenon
<1>3. woken' \subseteq Waiting \ {t}
  BY Zenon DEF Wake, IInv, TypeInv
<1> HIDE DEF s
<1>4. CASE Leave(t, s)
  BY <1>1, <1>2, <1>3, <1>4, LeaveInv, Zenon DEF s
<1>5. CASE Sleep(t, s)
  <2>1. IInv'
    BY <1>1, <1>2, <1>3, <1>5, SleepInv, Zenon
  <2>2. ~Leave(t, s)
    BY <1>5, Zenon DEF Leave, Sleep
  <2> QED BY <2>1, <2>2, Zenon DEF s
<1>6. CASE Take(t, s)
  <2>1. IInv'
    BY <1>1, <1>2, <1>3, <1>6, TakeInv, Zenon
  <2>2. ~Leave(t, s)
    BY <1>6, Zenon DEF Leave, Take
  <2> QED BY <2>1, <2>2, Zenon DEF s
<1> QED BY <1>1, <1>4, <1>5, <1>6, Zenon DEF Proceed

\* The batch is executed; the checks stay in it until the clean-up.
LEMMA RunInv ==
  ASSUME IInv, NEW t \in Threads, Run(t)
  PROVE  IInv'
<1> USE DEF IInv
<1> DEFINE v == thread[t].vChecks
           ok == thread[t].fOk /\ Range(v) \cap Bad = {}
           l == [at |-> "enter", vChecks |-> v, fOk |-> ok]
<1>1. thread \in [Threads -> Local] /\ thread[t] \in Local /\ thread[t].at = "run" /\ v # <<>>
  BY Zenon DEF TypeInv, Run
<1>2. ok \in BOOLEAN /\ v \in Seq(Checks) /\ thread[t].fOk \in BOOLEAN
  BY <1>1, Zenon DEF Local
<1>3. thread'[t] = [[thread[t] EXCEPT !.at = "enter"] EXCEPT !.fOk = ok]
  BY <1>1, Zenon DEF Run, Local
<1> HIDE DEF ok
<1>4. thread'[t] = l
  <2> DEFINE r == [at |-> "enter", vChecks |-> v, fOk |-> thread[t].fOk]
  <2>1. [thread[t] EXCEPT !.at = "enter"] = r
    BY <1>1 DEF Local
  <2>2. [r EXCEPT !.fOk = ok] = l
    OBVIOUS
  <2> QED BY <1>3, <2>1, <2>2, Zenon
<1>5. l \in Local /\ l.at = "enter" /\ l.vChecks = v /\ l.fOk = ok
  BY <1>2, Zenon DEF Local, Place
<1>6. \A u \in Threads \ {t} : thread'[u] = thread[u]
  BY <1>1, Zenon DEF Run
<1> HIDE DEF l
<1>7. thread' \in [Threads -> Local]
  BY <1>1, <1>4, <1>5, <1>6, Zenon DEF Run
<1>8. Moved(t, l)
  BY <1>1, <1>4, <1>5, <1>6, <1>7, MovedSound, Zenon
<1>9. UNCHANGED <<q, woken, added, verdict, rounds>> /\ q \in Shared
  BY Zenon DEF Run, TypeInv
<1>10. TypeInv'
  <2>1. /\ verdict' \in {"none", "valid", "invalid"} /\ added' \subseteq Checks
        /\ rounds' \in 0 .. MaxRounds /\ woken' \subseteq Waiting \ {t}
    BY <1>1, <1>9, Zenon DEF TypeInv, Waiting
  <2> QED BY <1>5, <1>8, <1>9, <2>1, MovedType, Zenon
<1>11. CountInv'
  <2>1. Idles' = Idles /\ Counted' = Counted
    BY <1>1, <1>5, <1>8, Zenon DEF Moved, Idles, Counted
  <2>2. SumLen(thread) \in Nat /\ Len(v) \in Nat
    BY <1>1, SumParts, Zenon
  <2>3. SumLen(thread') = SumLen(thread)
    BY <1>5, <1>8, <2>2 DEF Moved
  <2> QED BY <1>9, <2>1, <2>3, Zenon DEF CountInv
<1>12. StatusInv'
  <2>1. Master \in Threads /\ thread[Master].at # "outside" /\ thread'[Master].at # "outside"
    BY <1>1, <1>4, <1>5, <1>6, Zenon DEF StatusInv, NoneLeft, Threads
  <2>2. Range(q'.queue) \subseteq added' /\ \A u \in Threads : Range(thread'[u].vChecks) \subseteq added'
    BY <1>4, <1>5, <1>6, <1>9, Zenon DEF StatusInv
  <2>3. ~q'.fAllOk => Failed'
    BY <1>9, Zenon DEF StatusInv, Failed
  <2>4. ASSUME NEW u \in Threads, thread'[u].vChecks # <<>>, ~thread'[u].fOk PROVE Failed'
    <3>1. CASE u = t
      <4>1. ~ok /\ Range(v) \subseteq added
        BY <1>4, <1>5, <2>4, <3>1, Zenon DEF StatusInv
      <4>2. ~thread[t].fOk \/ Range(v) \cap Bad # {}
        BY <4>1, Zenon DEF ok
      <4>3. ~thread[t].fOk => Failed
        BY <1>1, Zenon DEF StatusInv
      <4> QED BY <1>9, <4>1, <4>2, <4>3, Zenon DEF Failed
    <3>2. CASE u # t
      BY <1>6, <1>9, <2>4, <3>2, Zenon DEF StatusInv, Failed
    <3> QED BY <3>1, <3>2, Zenon
  <2>5. ASSUME NEW c \in added' \cap Bad
        PROVE  ~q'.fAllOk \/ c \in Range(q'.queue) \/ \E u \in Threads : Reports(u, c)'
    <3>1. ~q.fAllOk \/ c \in Range(q.queue) \/ \E u \in Threads : Reports(u, c)
      BY <1>9, <2>1, <2>5, Zenon DEF StatusInv
    <3>2. \A u \in Threads \ {t} : Reports(u, c) => Reports(u, c)'
      BY <1>6, Zenon DEF Reports
    <3>3. Reports(t, c) => Reports(t, c)'
      <4>1. c \in Range(v) => ~ok
        BY <2>5, <1>2, Zenon DEF ok
      <4> QED BY <1>4, <1>5, <4>1, Zenon DEF Reports
    <3> QED BY <1>9, <3>1, <3>2, <3>3, Zenon
  <2> QED BY <2>1, <2>2, <2>3, <2>4, <2>5, Zenon DEF StatusInv
<1> QED BY <1>10, <1>11, <1>12, Zenon

\* A thread that waits wakes up for no reason.
LEMMA SpuriousInv ==
  ASSUME IInv, NEW t \in Threads, Spurious(t)
  PROVE  IInv'
<1> USE DEF IInv
<1>1. UNCHANGED <<q, thread, added, verdict, rounds>> /\ woken' \subseteq Waiting
  BY Zenon DEF Spurious, TypeInv
<1>2. TypeInv'
  BY <1>1, Zenon DEF TypeInv, Waiting
<1>3. CountInv'
  BY <1>1, Zenon DEF CountInv, Idles, Counted
<1>4. StatusInv'
  BY <1>1, Zenon DEF StatusInv, NoneLeft, Failed, Reports
<1> QED BY <1>2, <1>3, <1>4, Zenon

\* A worker is interrupted where it waits: it keeps no check.
LEMMA InterruptInv ==
  ASSUME IInv, NEW t \in Threads, Interrupt(t)
  PROVE  IInv'
<1> USE DEF IInv
<1> DEFINE l == [at |-> "gone", vChecks |-> <<>>, fOk |-> thread[t].fOk]
<1>1. /\ thread \in [Threads -> Local] /\ thread[t] \in Local /\ thread[t].fOk \in BOOLEAN
      /\ thread[t].at = "wait" /\ thread[t].vChecks = <<>> /\ t # Master
  BY QueueConstants, Zenon DEF TypeInv, Local, Interrupt, Waiting
<1>2. Moved(t, l) /\ l \in Local
  <2>1. At(t, "gone") /\ "gone" \in Place
    BY Zenon DEF Interrupt, Place
  <2>2. Moved(t, l)
    BY <1>1, <2>1, AtMoves, Zenon
  <2> QED BY <1>1, <2>2, Zenon DEF Place, Local
<1>3. l.at = "gone" /\ l.vChecks = <<>> /\ Len(l.vChecks) = 0
  BY Zenon
<1> HIDE DEF l
<1>4. UNCHANGED <<q, added, verdict, rounds>> /\ woken' \subseteq Waiting \ {t}
  BY Zenon DEF Interrupt, TypeInv
<1>5. TypeInv'
  <2>1. /\ verdict' \in {"none", "valid", "invalid"} /\ added' \subseteq Checks
        /\ rounds' \in 0 .. MaxRounds /\ q' \in Shared
    BY <1>4, Zenon DEF TypeInv
  <2> QED BY <1>1, <1>2, <1>3, <1>4, <2>1, MovedType, Zenon
<1>6. CountInv'
  <2>1. Idles' = Idles /\ Counted' = Counted
    BY <1>1, <1>2, <1>3, Zenon DEF Moved, Idles, Counted
  <2>2. SumLen(thread) \in Nat /\ Len(thread[t].vChecks) = 0
    BY <1>1, SumParts, Zenon
  <2>3. SumLen(thread') = SumLen(thread)
    BY <1>2, <1>3, <2>2 DEF Moved
  <2> QED BY <1>4, <2>1, <2>3, Zenon DEF CountInv
<1>7. /\ thread'[t].vChecks = <<>>
      /\ \A u \in Threads \ {t} : thread'[u] = thread[u]
      /\ Master \in Threads /\ thread'[Master] = thread[Master]
  BY <1>1, <1>2, <1>3, Zenon DEF Moved, Threads
<1>8. StatusInv'
  <2>1. \A u \in Threads : thread'[u].vChecks = thread[u].vChecks
    BY <1>1, <1>7, Zenon
  <2>2. thread'[Master].at = "outside" => q'.fAllOk /\ NoneLeft'
    BY <1>4, <1>7, <2>1, Zenon DEF StatusInv, NoneLeft
  <2>3. Range(q'.queue) \subseteq added' /\ \A u \in Threads : Range(thread'[u].vChecks) \subseteq added'
    BY <1>4, <2>1, Zenon DEF StatusInv
  <2>4. ~q'.fAllOk => Failed'
    BY <1>4, Zenon DEF StatusInv, Failed
  <2>5. \A u \in Threads : thread'[u].vChecks # <<>> /\ ~thread'[u].fOk => Failed'
    BY <1>4, <1>7, Zenon DEF StatusInv, Failed
  <2>6. ASSUME thread'[Master].at # "outside", NEW c \in added' \cap Bad
        PROVE  ~q'.fAllOk \/ c \in Range(q'.queue) \/ \E u \in Threads : Reports(u, c)'
    <3>1. ~q.fAllOk \/ c \in Range(q.queue) \/ \E u \in Threads : Reports(u, c)
      BY <1>4, <1>7, <2>6, Zenon DEF StatusInv
    <3>2. \A u \in Threads \ {t} : Reports(u, c) => Reports(u, c)'
      BY <1>7, Zenon DEF Reports
    <3>3. ~Reports(t, c)
      BY <1>1 DEF Reports, Range
    <3> QED BY <1>4, <3>1, <3>2, <3>3, Zenon
  <2> QED BY <2>2, <2>3, <2>4, <2>5, <2>6, Zenon DEF StatusInv
<1> QED BY <1>5, <1>6, <1>8, Zenon

\* A control is made: the queue is empty, the status is good.
LEMMA ControlInv ==
  ASSUME IInv, Control
  PROVE  IInv'
<1> USE DEF IInv
<1> DEFINE t == Master
           l == [at |-> "adding", vChecks |-> <<>>, fOk |-> thread[t].fOk]
<1>1. /\ t \in Threads /\ thread \in [Threads -> Local] /\ thread[t] \in Local
      /\ thread[t].fOk \in BOOLEAN /\ thread[t].at = "outside"
  BY Zenon DEF TypeInv, Local, Control, Threads
<1>2. Moved(t, l) /\ l \in Local
  <2>1. At(t, "adding") /\ "adding" \in Place
    BY Zenon DEF Control, Place
  <2>2. Moved(t, l)
    BY <1>1, <2>1, AtMoves, Zenon
  <2> QED BY <1>1, <2>2 DEF Place, Local
<1>3. l.at = "adding" /\ l.vChecks = <<>> /\ Len(l.vChecks) = 0
  BY Zenon
<1> HIDE DEF l
<1>4. /\ UNCHANGED <<q, woken>> /\ added' = {} /\ verdict' = "none"
      /\ rounds < MaxRounds /\ rounds' = rounds + 1
  BY Zenon DEF Control
<1>5. q.fAllOk /\ q.queue = <<>> /\ \A u \in Threads : thread[u].vChecks = <<>>
  BY <1>1, Zenon DEF StatusInv, NoneLeft
<1>6. TypeInv'
  <2>1. rounds' \in 0 .. MaxRounds
    BY <1>4, QueueConstants DEF TypeInv
  <2>2. woken' \subseteq Waiting \ {t} /\ q' \in Shared
    BY <1>1, <1>4, Zenon DEF TypeInv, Waiting
  <2>3. t \notin Workers
    BY QueueConstants, Zenon
  <2> QED BY <1>1, <1>2, <1>3, <1>4, <2>1, <2>2, <2>3, MovedType, Zenon
<1>7. CountInv'
  <2>1. Idles' = Idles /\ Counted' = Counted
    BY <1>1, <1>2, <1>3, <1>5, Zenon DEF Moved, Idles, Counted
  <2>2. SumLen(thread) \in Nat /\ Len(thread[t].vChecks) = 0
    BY <1>1, <1>5, SumParts
  <2>3. SumLen(thread') = SumLen(thread)
    BY <1>2, <1>3, <2>2 DEF Moved
  <2> QED BY <1>4, <2>1, <2>3, Zenon DEF CountInv
<1>8. \A u \in Threads : thread'[u].vChecks = <<>>
  BY <1>2, <1>3, <1>5, Zenon DEF Moved
<1>9. StatusInv'
  <2>1. Range(<<>>) = {}
    BY DEF Range
  <2>2. thread'[Master].at # "outside"
    BY <1>2, <1>3, Zenon DEF Moved
  <2>3. Range(q'.queue) \subseteq added' /\ \A u \in Threads : Range(thread'[u].vChecks) \subseteq added'
    BY <1>4, <1>5, <1>8, <2>1, Zenon
  <2>4. added' \cap Bad = {}
    BY <1>4, Zenon
  <2> QED BY <1>4, <1>5, <1>8, <2>2, <2>3, <2>4, Zenon DEF StatusInv
<1> QED BY <1>6, <1>7, <1>9, Zenon

\* The master adds checks and notifies workers.
LEMMA AddInv ==
  ASSUME IInv, NEW S \in SUBSET (Checks \ added), Add(S)
  PROVE  IInv'
<1> USE DEF IInv
<1> DEFINE r == q.queue \o Listed(S)
           n == Cardinality(S)
<1>1. /\ q \in Shared /\ q.queue \in Seq(Checks) /\ q.nTodo \in Nat
      /\ thread \in [Threads -> Local] /\ S \in SUBSET Checks
  BY Zenon DEF TypeInv, Shared
<1>2. /\ r \in Seq(Checks) /\ n \in Nat
      /\ Len(r) = Len(q.queue) + n
      /\ Range(r) = Range(q.queue) \cup S
  BY <1>1, AddSound, Zenon
<1>3. q' = [[q EXCEPT !.queue = r] EXCEPT !.nTodo = q.nTodo + n]
  BY <1>1, Zenon DEF Add, Shared
<1> HIDE DEF r, n
<1>4. /\ q'.queue = r /\ q'.nTodo = q.nTodo + n
      /\ q'.nIdle = q.nIdle /\ q'.nTotal = q.nTotal /\ q'.fAllOk = q.fAllOk
  BY <1>1, <1>3, Zenon DEF Shared
<1>5. q' \in Shared
  <2> DEFINE p == [q EXCEPT !.queue = r]
             m == q.nTodo + n
  <2>1. p \in Shared /\ m \in Nat
    BY <1>1, <1>2 DEF Shared
  <2>2. q' = [p EXCEPT !.nTodo = m]
    BY <1>3, Zenon
  <2> HIDE DEF p, m
  <2> QED BY <2>1, <2>2, Zenon DEF Shared
<1>6. /\ UNCHANGED <<thread, verdict, rounds>> /\ added' = added \cup S
      /\ thread[Master].at = "adding"
  BY Zenon DEF Add
<1>7. woken' \subseteq Waiting
  <2>1. \A N \in Notified(Cardinality(S)) : N \subseteq Waiting
    BY Zenon DEF Notified
  <2> QED BY <2>1, Zenon DEF Add, TypeInv
<1>8. TypeInv'
  <2>1. woken' \subseteq Waiting' /\ added' \subseteq Checks
    BY <1>6, <1>7, Zenon DEF TypeInv, Waiting
  <2> QED BY <1>5, <1>6, <2>1, Zenon DEF TypeInv
<1>9. CountInv'
  <2>1. Idles' = Idles /\ Counted' = Counted /\ SumLen(thread') = SumLen(thread)
    BY <1>6, Zenon DEF Idles, Counted
  <2> DEFINE a == Len(q.queue)
             b == SumLen(thread)
  <2>2. b \in Nat /\ a \in Nat
    <3>1. Master \in Threads
      BY Zenon DEF Threads
    <3> QED BY <1>1, <3>1, SumParts
  <2>3. q.nTodo = a + b /\ Len(r) = a + n
    BY <1>2, Zenon DEF CountInv
  <2> HIDE DEF a, b
  <2>4. q.nTodo + n = Len(r) + b
    BY <1>2, <2>2, <2>3
  <2>5. q'.nTodo = Len(q'.queue) + SumLen(thread')
    BY <1>4, <2>1, <2>4, Zenon DEF b
  <2> QED BY <1>4, <2>1, <2>5, Zenon DEF CountInv
<1>10. StatusInv'
  <2>1. thread'[Master].at # "outside" /\ thread[Master].at # "outside"
    BY <1>6, Zenon
  <2>2. Range(q'.queue) \subseteq added'
    BY <1>2, <1>4, <1>6, Zenon DEF StatusInv
  <2>3. \A u \in Threads : Range(thread'[u].vChecks) \subseteq added'
    BY <1>6, Zenon DEF StatusInv
  <2>4. Failed => Failed'
    BY <1>6, Zenon DEF Failed
  <2>5. ~q'.fAllOk => Failed'
    BY <1>4, <2>4, Zenon DEF StatusInv
  <2>6. \A u \in Threads : thread'[u].vChecks # <<>> /\ ~thread'[u].fOk => Failed'
    BY <1>6, <2>4, Zenon DEF StatusInv
  <2>7. ASSUME NEW c \in added' \cap Bad
        PROVE  ~q'.fAllOk \/ c \in Range(q'.queue) \/ \E u \in Threads : Reports(u, c)'
    <3>1. CASE c \in S
      BY <1>2, <1>4, <3>1, Zenon
    <3>2. CASE c \in added
      <4>1. ~q.fAllOk \/ c \in Range(q.queue) \/ \E u \in Threads : Reports(u, c)
        BY <2>1, <2>7, <3>2, Zenon DEF StatusInv
      <4>2. \A u \in Threads : Reports(u, c) => Reports(u, c)'
        BY <1>6, Zenon DEF Reports
      <4>3. c \in Range(q.queue) => c \in Range(q'.queue)
        BY <1>2, <1>4, Zenon
      <4> QED BY <1>4, <4>1, <4>2, <4>3, Zenon
    <3> QED BY <1>6, <2>7, <3>1, <3>2, Zenon
  <2> QED BY <2>1, <2>2, <2>3, <2>5, <2>6, <2>7, Zenon DEF StatusInv
<1> QED BY <1>8, <1>9, <1>10, Zenon

\* Wait: the master joins the workers.
LEMMA WaitInv ==
  ASSUME IInv, Wait
  PROVE  IInv'
<1> USE DEF IInv
<1> DEFINE t == Master
           l == [at |-> "enter", vChecks |-> <<>>, fOk |-> TRUE]
<1>1. /\ t \in Threads /\ thread \in [Threads -> Local]
      /\ thread[t].at = "adding" /\ thread[t].vChecks = <<>>
  BY Zenon DEF TypeInv, Wait, Threads
<1>2. l \in Local /\ l.at = "enter" /\ l.vChecks = <<>> /\ Len(l.vChecks) = 0
  BY DEF Local, Place
<1>3. thread' = [thread EXCEPT ![t] = l] /\ UNCHANGED <<q, woken, added, verdict, rounds>>
  BY Zenon DEF Wait
<1> HIDE DEF l
<1>4. Moved(t, l)
  BY <1>1, <1>2, <1>3, MovedSound, Zenon
<1>5. TypeInv'
  <2>1. /\ verdict' \in {"none", "valid", "invalid"} /\ added' \subseteq Checks
        /\ rounds' \in 0 .. MaxRounds /\ q' \in Shared /\ woken' \subseteq Waiting \ {t}
    BY <1>1, <1>3, Zenon DEF TypeInv, Waiting
  <2> QED BY <1>1, <1>2, <1>4, <2>1, MovedType, Zenon
<1>6. CountInv'
  <2>1. Idles' = Idles /\ Counted' = Counted
    BY <1>1, <1>2, <1>4, Zenon DEF Moved, Idles, Counted
  <2>2. SumLen(thread) \in Nat /\ Len(thread[t].vChecks) = 0
    BY <1>1, SumParts, Zenon
  <2>3. SumLen(thread') = SumLen(thread)
    BY <1>2, <1>4, <2>2 DEF Moved
  <2> QED BY <1>3, <2>1, <2>3, Zenon DEF CountInv
<1>7. /\ thread'[t].at = "enter" /\ thread'[t].vChecks = <<>>
      /\ \A u \in Threads \ {t} : thread'[u] = thread[u]
  BY <1>2, <1>4, Zenon DEF Moved
<1>8. StatusInv'
  <2>1. thread'[Master].at # "outside" /\ thread[Master].at # "outside"
    BY <1>1, <1>7, Zenon
  <2>2. Range(q'.queue) \subseteq added' /\ \A u \in Threads : Range(thread'[u].vChecks) \subseteq added'
    BY <1>1, <1>3, <1>7, Zenon DEF StatusInv
  <2>3. ~q'.fAllOk => Failed'
    BY <1>3, Zenon DEF StatusInv, Failed
  <2>4. \A u \in Threads : thread'[u].vChecks # <<>> /\ ~thread'[u].fOk => Failed'
    BY <1>3, <1>7, Zenon DEF StatusInv, Failed
  <2>5. ASSUME NEW c \in added' \cap Bad
        PROVE  ~q'.fAllOk \/ c \in Range(q'.queue) \/ \E u \in Threads : Reports(u, c)'
    <3>1. ~q.fAllOk \/ c \in Range(q.queue) \/ \E u \in Threads : Reports(u, c)
      BY <1>3, <2>1, <2>5, Zenon DEF StatusInv
    <3>2. \A u \in Threads \ {t} : Reports(u, c) => Reports(u, c)'
      BY <1>7, Zenon DEF Reports
    <3>3. ~Reports(t, c)
      BY <1>1 DEF Reports, Range
    <3> QED BY <1>3, <3>1, <3>2, <3>3, Zenon
  <2> QED BY <2>1, <2>2, <2>3, <2>4, <2>5, Zenon DEF StatusInv
<1> QED BY <1>5, <1>6, <1>8, Zenon

-----------------------------------------------------------------------------
(* The theorems *)

\* The threads start at the top of the loop, with nothing to do.
LEMMA InitInv == Init => IInv
<1> SUFFICES ASSUME Init PROVE IInv
  BY Zenon
<1>1. Master \in Threads /\ \A t \in Workers : t \in Threads /\ t # Master
  BY QueueConstants, Zenon DEF Threads
<1>2. \A t \in Threads : /\ thread[t].vChecks = <<>> /\ thread[t].fOk = TRUE
                         /\ thread[t].at = IF t = Master THEN "outside" ELSE "enter"
  BY Zenon DEF Init
<1>3. thread \in [Threads -> Local]
  <2>1. \A t \in Threads : [at |-> IF t = Master THEN "outside" ELSE "enter",
                            vChecks |-> <<>>, fOk |-> TRUE] \in Local
    BY DEF Local, Place
  <2> QED BY <2>1, Zenon DEF Init
<1>4. /\ q.queue = <<>> /\ q.nIdle = 0 /\ q.nTotal = 0 /\ q.fAllOk = TRUE /\ q.nTodo = 0
      /\ q \in Shared
  BY DEF Init, Shared
<1>5. TypeInv
  <2>1. woken \subseteq Waiting /\ added \subseteq Checks /\ verdict = "none" /\ rounds \in 0 .. MaxRounds
    BY QueueConstants DEF Init
  <2> QED BY <1>1, <1>2, <1>3, <1>4, <2>1, Zenon DEF TypeInv
<1>6. CountInv
  <2>1. Idles = {} /\ Counted = {}
    BY <1>2, Zenon DEF Idles, Counted
  <2>2. Cardinality({}) = 0
    BY FS_EmptySet, Zenon
  <2>3. \A t \in Threads : Len(thread[t].vChecks) = 0
    BY <1>2
  <2>4. HasLens(thread)
    BY <2>3 DEF HasLens
  <2>5. SumLen(thread) = 0
    BY <2>3, <2>4, SumZero, Zenon
  <2> QED BY <1>4, <2>1, <2>2, <2>5 DEF CountInv
<1>7. StatusInv
  <2>1. Range(<<>>) = {} /\ added = {}
    BY DEF Range, Init
  <2> QED BY <1>1, <1>2, <1>4, <2>1, Zenon DEF StatusInv, NoneLeft
<1> QED BY <1>5, <1>6, <1>7, Zenon DEF IInv

\* Every step keeps the invariant.
LEMMA NextInv == IInv /\ [Next]_vars => IInv'
<1> SUFFICES ASSUME IInv, [Next]_vars PROVE IInv'
  BY Zenon
<1>1. ASSUME NEW t \in Threads, Enter(t) PROVE IInv'
  BY <1>1, EnterInv, Zenon
<1>2. ASSUME NEW t \in Threads, Wake(t) PROVE IInv'
  BY <1>2, WakeInv, Zenon
<1>3. ASSUME NEW t \in Threads, Run(t) PROVE IInv'
  BY <1>3, RunInv, Zenon
<1>4. ASSUME NEW t \in Threads, Spurious(t) PROVE IInv'
  BY <1>4, SpuriousInv, Zenon
<1>5. ASSUME NEW t \in Threads, Interrupt(t) PROVE IInv'
  BY <1>5, InterruptInv, Zenon
<1>6. CASE Control
  BY <1>6, ControlInv, Zenon
<1>7. ASSUME NEW S \in SUBSET (Checks \ added), Add(S) PROVE IInv'
  BY <1>7, AddInv, Zenon
<1>8. CASE Wait
  BY <1>8, WaitInv, Zenon
<1>9. CASE UNCHANGED vars
  BY <1>9, Zenon DEF vars, IInv, TypeInv, CountInv, StatusInv, Waiting, Idles, Counted, NoneLeft,
     Failed, Reports
<1> QED BY <1>1, <1>2, <1>3, <1>4, <1>5, <1>6, <1>7, <1>8, <1>9, Zenon DEF Next

\* The inductive invariant of the pool holds in every reachable state.
THEOREM Invariance == Spec => []IInv
BY InitInv, NextInv, PTL DEF Spec

\* The types of the state: no counter of the pool underflows.
THEOREM TypeCorrect == Spec => []TypeOK
<1>1. IInv => TypeOK
  <2> SUFFICES ASSUME IInv PROVE TypeOK
    BY Zenon
  <2>1. q \in Shared /\ \A t \in Threads : thread[t] \in Local
    BY Zenon DEF IInv, TypeInv
  <2>2. /\ q.queue \in Seq(Checks) /\ {q.nIdle, q.nTotal, q.nTodo} \subseteq Nat
        /\ q.fAllOk \in BOOLEAN
    BY <2>1, Zenon DEF Shared
  <2>3. \A t \in Threads : /\ thread[t].at \in Place
                           /\ thread[t].vChecks \in Seq(Checks)
                           /\ thread[t].fOk \in BOOLEAN
    BY <2>1, Zenon DEF Local
  <2> QED BY <2>2, <2>3, Zenon DEF IInv, TypeInv, TypeOK
<1> QED BY <1>1, Invariance, PTL

\* nTodo is exactly the number of checks that are queued or in a batch,
\* whatever the threads do between two acquisitions of the mutex.
THEOREM TodoIsExact == Spec => []TodoExact
<1>1. IInv => TodoExact
  BY Zenon DEF IInv, CountInv, TodoExact, SumLen, InFlight, MapThenSumSet, MapThenFoldSet
<1> QED BY <1>1, Invariance, PTL

\* Once Wait has returned, no thread holds a check of the block or can get one.
THEOREM NoCheckSurvivesWait == Spec => []NoneLeft
<1>1. IInv => NoneLeft
  BY Zenon DEF IInv, StatusInv, NoneLeft
<1> QED BY <1>1, Invariance, PTL

-----------------------------------------------------------------------------
(* The pool implements Verification *)

\* The refinement mapping of CheckQueue.
Phase == CASE thread[Master].at = "outside" -> "idle"
           [] thread[Master].at = "adding" -> "open"
           [] OTHER -> "waiting"

\* The steps of the specification, in terms of the phase.
Concludes == /\ Phase = "waiting" /\ Phase' = "idle" /\ UNCHANGED added
             /\ verdict' = IF added \cap Bad = {} THEN "valid" ELSE "invalid"

\* From the test of the queue on: the master returns with the verdict, or what
\* the user of the control sees does not change.
LEMMA ProceedImplements ==
  ASSUME IInv, NEW t \in Threads, NEW s, thread[t].at \in {"enter", "wait"}, Proceed(t, s),
         Leave(t, s) => verdict' = IF added \cap Bad = {} THEN "valid" ELSE "invalid",
         added' = added
  PROVE  Concludes \/ UNCHANGED <<Phase, added, verdict>>
<1>1. /\ Master \in Threads /\ thread \in [Threads -> Local]
      /\ \A u \in Threads : DOMAIN thread[u] = {"at", "vChecks", "fOk"}
  BY Zenon DEF IInv, TypeInv, Threads, Local
<1>2. CASE Leave(t, s)
  <2>1. thread[Master].at \in {"enter", "wait"} /\ thread'[Master].at = "outside"
    BY <1>1, <1>2, Zenon DEF Leave, At
  <2>2. Phase = "waiting" /\ Phase' = "idle"
    BY <2>1, Zenon DEF Phase
  <2> QED BY <1>2, <2>2, Zenon DEF Concludes
<1>3. CASE Sleep(t, s) \/ Take(t, s)
  <2>1. verdict' = verdict
    BY <1>3, Zenon DEF Sleep, Take
  <2>2. CASE t = Master
    <3>1. thread[Master].at \in {"enter", "wait"} /\ thread'[Master].at \in {"wait", "run"}
      BY <1>1, <1>3, <2>2 DEF Sleep, Take, At
    <3>2. Phase = "waiting" /\ Phase' = "waiting"
      BY <3>1, Zenon DEF Phase
    <3> QED BY <2>1, <3>2, Zenon
  <2>3. CASE t # Master
    <3>1. thread'[Master] = thread[Master]
      BY <1>1, <1>3, <2>3, Zenon DEF Sleep, Take, At
    <3>2. Phase' = Phase
      BY <3>1, Zenon DEF Phase
    <3> QED BY <2>1, <3>2, Zenon
  <2> QED BY <2>2, <2>3, Zenon
<1> QED BY <1>2, <1>3, Zenon DEF Proceed

\* Every step of the pool is a step of the specification or leaves what the
\* user of the control sees unchanged.
LEMMA StepImplements == IInv /\ [Next]_vars => [V!Next]_(V!vars)
<1> SUFFICES ASSUME IInv, [Next]_vars PROVE [V!Next]_(V!vars)
  BY Zenon
<1>1. /\ Master \in Threads /\ thread \in [Threads -> Local]
      /\ \A u \in Threads : DOMAIN thread[u] = {"at", "vChecks", "fOk"}
  BY Zenon DEF IInv, TypeInv, Threads, Local
<1>2. Concludes => V!Next
  BY Zenon DEF Concludes, Phase, V!Next, V!Conclude
<1>3. UNCHANGED <<Phase, added, verdict>> => UNCHANGED V!vars
  BY Zenon DEF Phase, V!vars
<1>4. ASSUME NEW t \in Threads, Enter(t) PROVE [V!Next]_(V!vars)
  <2>1. thread[t].at \in {"enter", "wait"} /\ Proceed(t, Clean(t)) /\ added' = added
    BY <1>4, Zenon DEF Enter
  <2>2. Leave(t, Clean(t)) => verdict' = IF added \cap Bad = {} THEN "valid" ELSE "invalid"
    BY <1>4, EnterInv, Zenon
  <2>3. Concludes \/ UNCHANGED <<Phase, added, verdict>>
    BY <2>1, <2>2, ProceedImplements
  <2> QED BY <1>2, <1>3, <2>3, Zenon
<1>5. ASSUME NEW t \in Threads, Wake(t) PROVE [V!Next]_(V!vars)
  <2> DEFINE s == [q EXCEPT !.nIdle = @ - 1]
  <2>1. t \in woken /\ Proceed(t, s) /\ added' = added
    BY <1>5, Zenon DEF Wake
  <2>2. thread[t].at \in {"enter", "wait"}
    BY <2>1, WakeMid, Zenon
  <2>3. Leave(t, s) => verdict' = IF added \cap Bad = {} THEN "valid" ELSE "invalid"
    BY <1>5, WakeInv, Zenon
  <2> HIDE DEF s
  <2>4. Concludes \/ UNCHANGED <<Phase, added, verdict>>
    BY <2>1, <2>2, <2>3, ProceedImplements
  <2> QED BY <1>2, <1>3, <2>4, Zenon
<1>6. ASSUME NEW t \in Threads, Run(t) PROVE [V!Next]_(V!vars)
  <2>1. \/ thread'[Master].at = thread[Master].at
        \/ thread[Master].at = "run" /\ thread'[Master].at = "enter"
    BY <1>1, <1>6, Zenon DEF Run
  <2>2. Phase' = Phase
    BY <2>1, Zenon DEF Phase
  <2> QED BY <1>3, <1>6, <2>2, Zenon DEF Run
<1>7. ASSUME NEW t \in Threads, Spurious(t) PROVE [V!Next]_(V!vars)
  BY <1>3, <1>7, Zenon DEF Spurious, Phase
<1>8. ASSUME NEW t \in Threads, Interrupt(t) PROVE [V!Next]_(V!vars)
  <2>1. thread'[Master] = thread[Master]
    BY <1>1, <1>8, QueueConstants, Zenon DEF Interrupt, At
  <2> QED BY <1>3, <1>8, <2>1, Zenon DEF Interrupt, Phase
<1>9. CASE Control
  <2>1. thread[Master].at = "outside" /\ thread'[Master].at = "adding"
    BY <1>1, <1>9, Zenon DEF Control, At
  <2>2. V!Open
    BY <1>9, <2>1, Zenon DEF Control, V!Open
  <2> QED BY <2>2, Zenon DEF V!Next
<1>10. ASSUME NEW S \in SUBSET (Checks \ added), Add(S) PROVE [V!Next]_(V!vars)
  <2>1. V!Submit(S) /\ S \in SUBSET Checks
    BY <1>10, Zenon DEF Add, V!Submit
  <2> QED BY <2>1, Zenon DEF V!Next
<1>11. CASE Wait
  <2>1. thread[Master].at = "adding" /\ thread'[Master].at = "enter"
    BY <1>1, <1>11, Zenon DEF Wait
  <2>2. V!Close
    BY <1>11, <2>1, Zenon DEF Wait, V!Close
  <2> QED BY <2>2, Zenon DEF V!Next
<1>12. CASE UNCHANGED vars
  BY <1>3, <1>12, Zenon DEF vars, Phase
<1> QED BY <1>4, <1>5, <1>6, <1>7, <1>8, <1>9, <1>10, <1>11, <1>12, Zenon DEF Next

\* The safety part of the refinement: for every number of threads and every
\* batch size, Wait returns "valid" exactly if no check of this control fails.
\* That it returns at all is left to the model checker.
THEOREM VerdictsAreExact == Spec => V!Init /\ [][V!Next]_(V!vars)
<1>1. Init => V!Init
  <2> SUFFICES ASSUME Init PROVE V!Init
    BY Zenon
  <2>1. thread[Master].at = "outside"
    BY Zenon DEF Init, Threads
  <2> QED BY <2>1, Zenon DEF Init, V!Init
<1> QED BY <1>1, StepImplements, Invariance, PTL DEF Spec

=============================================================================
