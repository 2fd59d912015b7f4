--------------------------- MODULE BlockTreeProofs --------------------------
(***************************************************************************)
(* Paths, heights and ancestors in any block tree.  Path is defined by     *)
(* recursion along pprev; that this defines anything, and what it defines, *)
(* follows from pprev leading down to Root: a property of blocks that      *)
(* fails somewhere fails at a block whose previous block has it.           *)
(***************************************************************************)
EXTENDS BlockTree, TLAPS, WellFoundedInduction

USE SMTT(30)

-----------------------------------------------------------------------------

Nodes == Blocks \cup {Root}

\* Induction along pprev, as the least element of a set of counterexamples.
LEMMA Lowest ==
  ASSUME NEW S, S \subseteq Blocks, S # {}
  PROVE  \E b \in S : Prev[b] \notin S
BY TreeConstants, Zenon

\* A recursion along pprev: x at the root, and F of what the previous block has
\* and the block.  This is its equation, for a function f on a set D of blocks
\* that has the previous block of each.
SolvesOn(f, D, x, F) ==
  /\ D \subseteq Nodes /\ Root \in D
  /\ \A b \in D : b # Root => Prev[b] \in D
  /\ \A b \in D : f[b] = IF b = Root THEN x ELSE F[<<f[Prev[b]], b>>]

\* Two solutions of the equation agree where both are defined.
LEMMA SolutionUnique ==
  ASSUME NEW x, NEW F,
         NEW f, NEW D, SolvesOn(f, D, x, F), NEW g, NEW E, SolvesOn(g, E, x, F),
         NEW y \in D \cap E
  PROVE  f[y] = g[y]
<1> DEFINE S == { b \in Blocks : b \in D \cap E /\ f[b] # g[b] }
<1>0. S \subseteq Blocks
  BY Zenon
<1>1. f[Root] = x /\ g[Root] = x
  BY Zenon DEF SolvesOn
<1>2. ASSUME S # {} PROVE FALSE
  <2>1. PICK b \in S : Prev[b] \notin S
    <3> HIDE DEF S
    <3> QED BY <1>0, <1>2, Lowest, Zenon
  <2>2. b # Root /\ Prev[b] \in D \cap E /\ Prev[b] \in Nodes
    BY TreeConstants, Zenon DEF SolvesOn
  <2>3. f[Prev[b]] = g[Prev[b]]
    BY <2>1, <2>2, <1>1, Zenon DEF Nodes
  <2>4. f[b] = F[<<f[Prev[b]], b>>] /\ g[b] = F[<<g[Prev[b]], b>>]
    <3>1. b \in D /\ b \in E
      BY Zenon
    <3> QED BY <2>2, <3>1, Zenon DEF SolvesOn
  <2> QED BY <2>3, <2>4, Zenon
<1>3. y \in Nodes
  BY Zenon DEF SolvesOn
<1> QED BY <1>1, <1>2, <1>3, Zenon DEF Nodes

\* Every block is in the domain of a solution.
LEMMA SolutionExists ==
  ASSUME NEW x, NEW F, NEW y \in Nodes
  PROVE  \E f, D : SolvesOn(f, D, x, F) /\ y \in D
<1> DEFINE S == { b \in Blocks : ~ \E f, D : SolvesOn(f, D, x, F) /\ b \in D }
<1>0. S \subseteq Blocks
  BY Zenon
<1>1. \E f, D : SolvesOn(f, D, x, F) /\ Root \in D
  <2> DEFINE r == [b \in {Root} |-> x]
  <2>1. SolvesOn(r, {Root}, x, F)
    BY Zenon DEF SolvesOn, Nodes
  <2> QED BY <2>1, Zenon
<1>2. ASSUME S # {} PROVE FALSE
  <2>1. PICK b \in S : Prev[b] \notin S
    <3> HIDE DEF S
    <3> QED BY <1>0, <1>2, Lowest, Zenon
  <2>2. Prev[b] \in Nodes /\ b \in Blocks /\ b # Root
    BY TreeConstants, Zenon DEF Nodes
  <2>3. PICK f, D : SolvesOn(f, D, x, F) /\ Prev[b] \in D
    BY <2>1, <2>2, <1>1, Zenon DEF Nodes
  <2>4. b \notin D
    BY <2>3, Zenon
  <2> DEFINE g == [c \in D \cup {b} |-> IF c = b THEN F[<<f[Prev[b]], b>>] ELSE f[c]]
  <2>5. \A c \in D : c # Root => Prev[c] \in D /\ f[c] = F[<<f[Prev[c]], c>>]
    BY <2>3, Zenon DEF SolvesOn
  <2>6. f[Root] = x /\ Root \in D /\ D \subseteq Nodes
    BY <2>3, Zenon DEF SolvesOn
  <2>7. \A c \in D \cup {b} :
          g[c] = IF c = Root THEN x ELSE F[<<g[Prev[c]], c>>]
    BY <2>2, <2>3, <2>4, <2>5, <2>6, Zenon
  <2>9. SolvesOn(g, D \cup {b}, x, F)
    <3> HIDE DEF g
    <3> QED BY <2>2, <2>3, <2>5, <2>6, <2>7, Zenon DEF SolvesOn, Nodes
  <2> HIDE DEF g
  <2> QED BY <2>9, Zenon
<1> QED BY <1>1, <1>2, Zenon DEF Nodes

\* The equation on all blocks.
SolvesTree(f, x, F) == f = [b \in Nodes |-> IF b = Root THEN x ELSE F[<<f[Prev[b]], b>>]]

\* It has a solution.
LEMMA TreeRecursion ==
  ASSUME NEW x, NEW F
  PROVE  \E f : SolvesTree(f, x, F)
<1> DEFINE sol(y) == CHOOSE p : SolvesOn(p[1], p[2], x, F) /\ y \in p[2]
           f == [y \in Nodes |-> sol(y)[1][y]]
<1>1. ASSUME NEW y \in Nodes PROVE SolvesOn(sol(y)[1], sol(y)[2], x, F) /\ y \in sol(y)[2]
  <2>1. PICK g, D : SolvesOn(g, D, x, F) /\ y \in D
    BY SolutionExists, Zenon
  <2>2. SolvesOn(<<g, D>>[1], <<g, D>>[2], x, F) /\ y \in <<g, D>>[2]
    BY <2>1, Zenon
  <2> QED BY <2>2, Zenon
<1>2. ASSUME NEW y \in Nodes
      PROVE  f[y] = IF y = Root THEN x ELSE F[<<f[Prev[y]], y>>]
  <2> DEFINE g == sol(y)[1]
             D == sol(y)[2]
  <2>1. SolvesOn(g, D, x, F) /\ y \in D
    BY <1>1, Zenon
  <2>2. f[y] = g[y]
    BY Zenon
  <2>3. CASE y = Root
    <3> HIDE DEF f, g, D
    <3> QED BY <2>1, <2>2, <2>3, Zenon DEF SolvesOn
  <2>4. CASE y # Root
    <3> DEFINE z == Prev[y]
    <3>1. z \in Nodes /\ z \in D /\ g[y] = F[<<g[z], y>>]
      <4> HIDE DEF g, D
      <4> QED BY <2>1, <2>4, Zenon DEF SolvesOn
    <3>2. SolvesOn(sol(z)[1], sol(z)[2], x, F) /\ z \in sol(z)[2]
      BY <1>1, <3>1, Zenon
    <3>3. f[z] = sol(z)[1][z]
      BY <3>1, Zenon
    <3>4. sol(z)[1][z] = g[z]
      <4> HIDE DEF sol
      <4> QED BY <2>1, <3>1, <3>2, SolutionUnique
    <3> HIDE DEF f, g, D, sol
    <3> QED BY <2>2, <2>4, <3>1, <3>3, <3>4, Zenon
  <2> QED BY <2>3, <2>4, Zenon
<1>3. f = [b \in Nodes |-> IF b = Root THEN x ELSE F[<<f[Prev[b]], b>>]]
  <2>1. f = [b \in Nodes |-> f[b]]
    OBVIOUS
  <2> HIDE DEF f
  <2> QED BY <2>1, <1>2, Zenon
<1> HIDE DEF f
<1> QED BY <1>3, Zenon DEF SolvesTree

\* F leads from A and from D to A.
Keeps(F, A, D) == \A a \in A : \A d \in D : F[<<a, d>>] \in A

\* If F keeps a set A that x is in, then the recursion stays in it.
LEMMA TreeRecursionType ==
  ASSUME NEW A, NEW x \in A, NEW F, Keeps(F, A, Blocks), NEW f, SolvesTree(f, x, F)
  PROVE  \A b \in Nodes : f[b] \in A
<1>a. \A b \in Nodes : f[b] = IF b = Root THEN x ELSE F[<<f[Prev[b]], b>>]
  BY Zenon DEF SolvesTree
<1> DEFINE S == { b \in Blocks : f[b] \notin A }
<1>0. S \subseteq Blocks
  BY Zenon
<1>1. f[Root] \in A
  BY <1>a, Zenon DEF Nodes
<1>2. ASSUME S # {} PROVE FALSE
  <2>1. PICK b \in S : Prev[b] \notin S
    <3> HIDE DEF S
    <3> QED BY <1>0, <1>2, Lowest, Zenon
  <2>2. b \in Blocks /\ b \in Nodes /\ b # Root /\ Prev[b] \in Nodes
    BY TreeConstants, Zenon DEF Nodes
  <2>3. f[Prev[b]] \in A
    BY <2>1, <2>2, <1>1, Zenon DEF Nodes
  <2>4. f[b] \in A
    BY <2>2, <2>3, <1>a, Zenon DEF Keeps
  <2> QED BY <2>4, Zenon
<1> QED BY <1>1, <1>2, Zenon DEF Nodes

\* Path is such a recursion, so that it satisfies its equation.
LEMMA PathDef ==
  Path = [b \in Nodes |-> IF b = Root THEN <<>> ELSE Append(Path[Prev[b]], b)]
<1> DEFINE A == Seq(Blocks)
           F == [p \in A \X Blocks |-> Append(p[1], p[2])]
<1>1. \A a \in A : \A b \in Blocks : F[<<a, b>>] = Append(a, b)
  BY Zenon
<1>2. \A a \in A : \A b \in Blocks : Append(a, b) \in A
  OBVIOUS
<1>3. <<>> \in A
  OBVIOUS
<1> HIDE DEF A, F
<1>4. PICK f : SolvesTree(f, <<>>, F)
  BY TreeRecursion, Zenon
<1>5. \A b \in Nodes : f[b] = IF b = Root THEN <<>> ELSE F[<<f[Prev[b]], b>>]
  BY <1>4, Zenon DEF SolvesTree
<1>6. Keeps(F, A, Blocks)
  BY <1>1, <1>2, Zenon DEF Keeps
<1>7. \A b \in Nodes : f[b] \in A
  BY <1>3, <1>4, <1>6, TreeRecursionType, Zenon
<1>8. \A b \in Nodes : b # Root => b \in Blocks /\ Prev[b] \in Nodes
  BY TreeConstants, Zenon DEF Nodes
<1>9. \A b \in Nodes : f[b] = IF b = Root THEN <<>> ELSE Append(f[Prev[b]], b)
  BY <1>1, <1>5, <1>7, <1>8, Zenon
<1>10. f = [b \in Nodes |-> f[b]]
  BY <1>4, Zenon DEF SolvesTree
<1>11. f = [b \in Nodes |-> IF b = Root THEN <<>> ELSE Append(f[Prev[b]], b)]
  BY <1>9, <1>10, Zenon
<1> QED BY <1>11, Zenon DEF Path, Nodes

-----------------------------------------------------------------------------
(* What follows for paths, heights and ancestors *)

\* The path of the root is empty, that of a block ends with the block.
LEMMA PathStep ==
  /\ Path[Root] = <<>>
  /\ \A b \in Blocks : Path[b] = Append(Path[Prev[b]], b)
<1>1. \A b \in Nodes : Path[b] = IF b = Root THEN <<>> ELSE Append(Path[Prev[b]], b)
  BY PathDef, Zenon
<1>2. Root \in Nodes /\ \A b \in Blocks : b \in Nodes /\ b # Root
  BY TreeConstants, Zenon DEF Nodes
<1> QED BY <1>1, <1>2, Zenon

\* A path is a sequence of blocks.
LEMMA PathType == \A b \in Nodes : Path[b] \in Seq(Blocks)
<1> DEFINE S == { b \in Blocks : Path[b] \notin Seq(Blocks) }
<1>0. S \subseteq Blocks
  BY Zenon
<1>1. Path[Root] \in Seq(Blocks)
  BY PathStep
<1>2. ASSUME S # {} PROVE FALSE
  <2>1. PICK b \in S : Prev[b] \notin S
    <3> HIDE DEF S
    <3> QED BY <1>0, <1>2, Lowest, Zenon
  <2>2. b \in Blocks /\ Prev[b] \in Nodes
    BY TreeConstants, Zenon DEF Nodes
  <2>3. Path[Prev[b]] \in Seq(Blocks)
    BY <2>1, <2>2, <1>1, Zenon DEF Nodes
  <2>4. Path[b] = Append(Path[Prev[b]], b)
    BY <2>2, PathStep, Zenon
  <2>5. Path[b] \in Seq(Blocks)
    BY <2>2, <2>3, <2>4
  <2> QED BY <2>5, Zenon
<1> QED BY <1>1, <1>2, Zenon DEF Nodes

\* The path of a block is that of its previous block and the block.
LEMMA PathItems ==
  ASSUME NEW b \in Blocks
  PROVE  /\ Prev[b] \in Nodes
         /\ Len(Path[b]) = Len(Path[Prev[b]]) + 1
         /\ Path[b][Len(Path[b])] = b
         /\ \A i \in 1 .. Len(Path[Prev[b]]) : Path[b][i] = Path[Prev[b]][i]
<1>1. Prev[b] \in Nodes
  BY TreeConstants, Zenon DEF Nodes
<1> DEFINE p == Path[Prev[b]]
<1>2. p \in Seq(Blocks)
  BY <1>1, PathType, Zenon
<1>3. Path[b] = Append(p, b)
  BY PathStep, Zenon
<1> HIDE DEF p
<1>4. /\ Len(Append(p, b)) = Len(p) + 1
      /\ Append(p, b)[Len(p) + 1] = b
      /\ \A i \in 1 .. Len(p) : Append(p, b)[i] = p[i]
  BY <1>2
<1> QED BY <1>1, <1>3, <1>4, Zenon DEF p

\* Heights are natural numbers; only the root's is 0, and a block is one above
\* its previous block.
LEMMA HeightStep ==
  /\ \A b \in Nodes : Height(b) \in Nat
  /\ Height(Root) = 0
  /\ \A b \in Blocks : Prev[b] \in Nodes /\ Height(b) = Height(Prev[b]) + 1
<1>1. \A b \in Nodes : Height(b) \in Nat
  <2> SUFFICES ASSUME NEW b \in Nodes PROVE Len(Path[b]) \in Nat
    BY Zenon DEF Height
  <2>1. Path[b] \in Seq(Blocks)
    BY PathType, Zenon
  <2> QED BY <2>1
<1>2. Height(Root) = 0
  <2>1. Path[Root] = <<>>
    BY PathStep, Zenon
  <2> QED BY <2>1 DEF Height
<1>3. \A b \in Blocks : Prev[b] \in Nodes /\ Height(b) = Height(Prev[b]) + 1
  BY PathItems, Zenon DEF Height
<1> QED BY <1>1, <1>2, <1>3, Zenon

\* The ancestors of a block are itself and those of its previous block.
LEMMA AncestorsStep ==
  /\ Ancestors(Root) = {}
  /\ \A b \in Blocks : Ancestors(b) = Ancestors(Prev[b]) \cup {b}
<1>1. Ancestors(Root) = {}
  <2>1. Path[Root] = <<>>
    BY PathStep, Zenon
  <2> QED BY <2>1 DEF Ancestors, Range
<1>2. ASSUME NEW b \in Blocks PROVE Ancestors(b) = Ancestors(Prev[b]) \cup {b}
  <2> DEFINE p == Path[Prev[b]]
             r == Path[b]
  <2>1. p \in Seq(Blocks) /\ r \in Seq(Blocks)
    BY PathItems, PathType, Zenon DEF Nodes
  <2>2. /\ Len(r) = Len(p) + 1 /\ r[Len(r)] = b
        /\ \A i \in 1 .. Len(p) : r[i] = p[i]
    BY PathItems, Zenon
  <2> HIDE DEF p, r
  <2>3. Range(r) = Range(p) \cup {b}
    BY <2>1, <2>2 DEF Range
  <2> QED BY <2>3, Zenon DEF Ancestors, p, r
<1> QED BY <1>1, <1>2, Zenon

\* Blocks are above the root.
LEMMA BlockHeight == \A b \in Blocks : b \in Nodes /\ Height(b) \in Nat \ {0}
<1> SUFFICES ASSUME NEW b \in Blocks PROVE b \in Nodes /\ Height(b) \in Nat \ {0}
  BY Zenon
<1>1. Prev[b] \in Nodes /\ Height(b) = Height(Prev[b]) + 1
  BY HeightStep, Zenon
<1>2. Height(Prev[b]) \in Nat
  BY <1>1, HeightStep, Zenon
<1> QED BY <1>1, <1>2 DEF Nodes

\* The ancestors of a node are blocks, and with a block they have its ancestors.
LEMMA AncestorsClosed ==
  \A b \in Nodes : /\ Ancestors(b) \subseteq Blocks
                   /\ \A x \in Ancestors(b) : Ancestors(x) \subseteq Ancestors(b)
<1> DEFINE Ok(b) == /\ Ancestors(b) \subseteq Blocks
                    /\ \A x \in Ancestors(b) : Ancestors(x) \subseteq Ancestors(b)
           S == { b \in Blocks : ~Ok(b) }
<1>0. S \subseteq Blocks
  BY Zenon
<1>1. Ok(Root)
  BY AncestorsStep, Zenon
<1>2. ASSUME S # {} PROVE FALSE
  <2>1. PICK b \in S : Prev[b] \notin S
    <3> HIDE DEF S
    <3> QED BY <1>0, <1>2, Lowest, Zenon
  <2>2. b \in Blocks /\ ~Ok(b)
    BY Zenon
  <2>3. Prev[b] \in Blocks \/ Prev[b] = Root
    BY TreeConstants, Zenon
  <2>4. Ok(Prev[b])
    <3> HIDE DEF Ok
    <3> QED BY <2>1, <2>3, <1>1, Zenon
  <2>5. Ancestors(b) = Ancestors(Prev[b]) \cup {b}
    BY AncestorsStep, Zenon
  <2>6. Ok(b)
    BY <2>2, <2>4, <2>5, Zenon
  <2> QED BY <2>2, <2>6, Zenon
<1>3. \A b \in Blocks : Ok(b)
  <2> HIDE DEF Ok
  <2> QED BY <1>2, Zenon
<1> QED BY <1>1, <1>3, Zenon DEF Nodes

-----------------------------------------------------------------------------
(* Numbers and loops *)

\* A non-empty set of natural numbers has a least one.
LEMMA LeastOf ==
  ASSUME NEW S, S \subseteq Nat, S # {}
  PROVE  \E x \in S : \A y \in S : x <= y
<1> DEFINE lt == OpToRel(<, Nat)
<1>1. IsWellFoundedOn(lt, Nat)
  BY NatLessThanWellFounded, Zenon
<1> HIDE DEF lt
<1>2. PICK x \in S : \A y \in S : ~(<<y, x>> \in lt)
  BY <1>1, WFMin, Zenon
<1>3. \A y \in S : ~(y < x)
  BY <1>2, Zenon DEF OpToRel, lt
<1> QED BY <1>3

\* Induction up to n, for a set of numbers.
LEMMA Upto ==
  ASSUME NEW n \in Nat, NEW S, 0 \in S, \A i \in 1 .. n : i - 1 \in S => i \in S
  PROVE  \A i \in 0 .. n : i \in S
<1> DEFINE B == { i \in 0 .. n : i \notin S }
<1> SUFFICES ASSUME B # {} PROVE FALSE
  BY Zenon
<1>1. \A i \in 0 .. n : i \in Nat
  OBVIOUS
<1>2. B \subseteq Nat
  BY <1>1, Zenon
<1>3. PICK m \in B : \A k \in B : m <= k
  <2> HIDE DEF B
  <2> QED BY <1>2, LeastOf, Zenon
<1>4. m \in 0 .. n /\ m \notin S
  BY <1>3, Zenon
<1>5. m # 0
  BY <1>4, Zenon
<1>6. m \in 1 .. n /\ m - 1 \in 0 .. n /\ ~(m <= m - 1)
  BY <1>4, <1>5
<1>7. m - 1 \in S
  BY <1>3, <1>6, Zenon
<1> QED BY <1>4, <1>6, <1>7, Zenon

\* A loop of n turns that stays in A: x before the first, and F of the turn
\* before and of i after turn i.
Loops(f, n, x, F, A) ==
  /\ f = [i \in 0 .. n |-> IF i = 0 THEN x ELSE F[<<f[i - 1], i>>]]
  /\ \A i \in 0 .. n : f[i] \in A

\* The recursion that such a loop is has a solution.
LEMMA LoopExists ==
  ASSUME NEW A, NEW x \in A, NEW n \in Nat, NEW F, Keeps(F, A, 1 .. n)
  PROVE  \E f : Loops(f, n, x, F, A)
<1> DEFINE Ok(f, m) == /\ f = [i \in 0 .. m |-> f[i]]
                       /\ \A i \in 0 .. m : f[i] = IF i = 0 THEN x ELSE F[<<f[i - 1], i>>]
                       /\ \A i \in 0 .. m : f[i] \in A
           B == { m \in Nat : m <= n /\ ~ \E f : Ok(f, m) }
<1>1. ASSUME B # {} PROVE FALSE
  <2>1. PICK m \in B : \A k \in B : m <= k
    <3>1. B \subseteq Nat
      BY Zenon
    <3> HIDE DEF B
    <3> QED BY <1>1, <3>1, LeastOf, Zenon
  <2>2. m \in Nat /\ m <= n /\ ~ \E f : Ok(f, m)
    BY <2>1, Zenon
  <2>3. m # 0
    <3> SUFFICES ASSUME m = 0 PROVE FALSE
      BY Zenon
    <3> DEFINE f == [i \in 0 .. 0 |-> x]
    <3>1. 0 .. 0 = {0}
      OBVIOUS
    <3>2. f = [i \in 0 .. 0 |-> f[i]] /\ \A i \in 0 .. 0 : f[i] = x /\ i = 0
      BY <3>1, Zenon
    <3> HIDE DEF f
    <3>3. Ok(f, 0)
      BY <3>2, Zenon
    <3> QED BY <3>3, <2>2, Zenon
  <2>4. /\ m - 1 \in Nat /\ m - 1 <= n /\ ~(m <= m - 1)
        /\ m \in 1 .. n /\ m \in 0 .. m /\ m - 1 \in 0 .. m - 1
        /\ \A i \in 0 .. m : i = m \/ i \in 0 .. m - 1
        /\ \A i \in 0 .. m - 1 : i \in 0 .. m /\ i # m /\ (i # 0 => i - 1 \in 0 .. m - 1)
    BY <2>2, <2>3
  <2>5. PICK f : Ok(f, m - 1)
    <3>1. m - 1 \notin B
      <4> HIDE DEF B
      <4> QED BY <2>1, <2>4, Zenon
    <3> QED BY <3>1, <2>4, Zenon
  <2>6. /\ \A i \in 0 .. m - 1 : f[i] = IF i = 0 THEN x ELSE F[<<f[i - 1], i>>]
        /\ \A i \in 0 .. m - 1 : f[i] \in A
    BY <2>5, Zenon
  <2> DEFINE g == [i \in 0 .. m |-> IF i = m THEN F[<<f[m - 1], m>>] ELSE f[i]]
  <2>7. /\ g = [i \in 0 .. m |-> g[i]]
        /\ g[m] = F[<<f[m - 1], m>>]
        /\ \A i \in 0 .. m - 1 : g[i] = f[i]
    BY <2>4, Zenon
  <2> HIDE DEF g
  <2>8. F[<<f[m - 1], m>>] \in A
    BY <2>4, <2>6, Zenon DEF Keeps
  <2>9. \A i \in 0 .. m : g[i] \in A
    BY <2>4, <2>6, <2>7, <2>8, Zenon
  <2>10. \A i \in 0 .. m : g[i] = IF i = 0 THEN x ELSE F[<<g[i - 1], i>>]
    BY <2>3, <2>4, <2>6, <2>7, Zenon
  <2>11. Ok(g, m)
    BY <2>7, <2>9, <2>10, Zenon
  <2> QED BY <2>2, <2>11, Zenon
<1>2. n \notin B /\ n <= n
  BY <1>1
<1>3. PICK f : Ok(f, n)
  BY <1>2, Zenon
<1>4. f = [i \in 0 .. n |-> IF i = 0 THEN x ELSE F[<<f[i - 1], i>>]]
  BY <1>3, Zenon
<1> QED BY <1>3, <1>4, Zenon DEF Loops

-----------------------------------------------------------------------------
(* The blocks on the path to a block *)

\* BlockAt(b, h) is the ancestor of b at height h: pprev leads from each to
\* the one below it.
Levels(b) ==
  /\ BlockAt(b, Height(b)) = b
  /\ \A h \in 0 .. Height(b) : BlockAt(b, h) \in Nodes /\ Height(BlockAt(b, h)) = h
  /\ \A h \in 1 .. Height(b) : /\ BlockAt(b, h) \in Ancestors(b)
                              /\ Prev[BlockAt(b, h)] = BlockAt(b, h - 1)

\* The path to a block is the path to its previous block, and the block.
LEMMA LevelsStep ==
  ASSUME NEW b \in Blocks, Levels(Prev[b])
  PROVE  Levels(b)
<1> DEFINE p == Prev[b]
           n == Height(Prev[b])
<1>1. p \in Nodes /\ n \in Nat /\ Height(b) = n + 1
  BY HeightStep, Zenon
<1>2. /\ \A i \in 1 .. n : Path[b][i] = Path[p][i]
      /\ Path[b][n + 1] = b
  <2>1. /\ Len(Path[b]) = Len(Path[p]) + 1
        /\ Path[b][Len(Path[b])] = b
        /\ \A i \in 1 .. Len(Path[p]) : Path[b][i] = Path[p][i]
    BY PathItems, Zenon
  <2> QED BY <2>1, Zenon DEF Height
<1> HIDE DEF n
<1>3. \A h \in 0 .. n : h = 0 \/ h \in 1 .. n
  BY <1>1
<1>4. \A h \in 0 .. n : BlockAt(b, h) = BlockAt(p, h)
  BY <1>2, <1>3, Zenon DEF BlockAt
<1>5. n + 1 # 0
  BY <1>1
<1>6. BlockAt(b, n + 1) = b
  BY <1>2, <1>5, Zenon DEF BlockAt
<1>7. /\ \A h \in 0 .. n + 1 : h \in 0 .. n \/ h = n + 1
      /\ \A h \in 1 .. n + 1 : h \in 1 .. n \/ h = n + 1
      /\ \A h \in 1 .. n : h \in 0 .. n /\ h - 1 \in 0 .. n
      /\ n \in 0 .. n /\ n + 1 - 1 = n
  BY <1>1
<1>8. /\ BlockAt(p, n) = p
      /\ \A h \in 0 .. n : BlockAt(p, h) \in Nodes /\ Height(BlockAt(p, h)) = h
      /\ \A h \in 1 .. n : /\ BlockAt(p, h) \in Ancestors(p)
                          /\ Prev[BlockAt(p, h)] = BlockAt(p, h - 1)
  BY Zenon DEF Levels, n
<1>9. Ancestors(b) = Ancestors(p) \cup {b} /\ b \in Nodes
  BY AncestorsStep, BlockHeight, Zenon
<1>10. \A h \in 0 .. n + 1 : BlockAt(b, h) \in Nodes /\ Height(BlockAt(b, h)) = h
  BY <1>1, <1>4, <1>6, <1>7, <1>8, <1>9, Zenon
<1>11. \A h \in 1 .. n + 1 : /\ BlockAt(b, h) \in Ancestors(b)
                            /\ Prev[BlockAt(b, h)] = BlockAt(b, h - 1)
  <2> SUFFICES ASSUME NEW h \in 1 .. n + 1
               PROVE  BlockAt(b, h) \in Ancestors(b) /\ Prev[BlockAt(b, h)] = BlockAt(b, h - 1)
    BY Zenon
  <2>1. CASE h \in 1 .. n
    <3>1. BlockAt(b, h) = BlockAt(p, h) /\ BlockAt(b, h - 1) = BlockAt(p, h - 1)
      BY <2>1, <1>4, <1>7, Zenon
    <3> QED BY <2>1, <3>1, <1>8, <1>9, Zenon
  <2>2. CASE h = n + 1
    <3>1. BlockAt(b, h - 1) = p
      <4>1. h - 1 = n
        BY <2>2, <1>1
      <4>2. BlockAt(b, n) = BlockAt(p, n)
        BY <1>4, <1>7, Zenon
      <4> QED BY <4>1, <4>2, <1>8, Zenon
    <3> QED BY <2>2, <3>1, <1>6, <1>9, Zenon
  <2> QED BY <2>1, <2>2, <1>7, Zenon
<1> QED BY <1>1, <1>6, <1>10, <1>11, Zenon DEF Levels

\* Every path has its blocks at their heights.
LEMMA LevelsAll == \A b \in Nodes : Levels(b)
<1> DEFINE S == { b \in Blocks : ~Levels(b) }
<1>1. Levels(Root)
  <2>1. Height(Root) = 0 /\ BlockAt(Root, 0) = Root /\ Root \in Nodes
    BY HeightStep, Zenon DEF BlockAt, Nodes
  <2>2. 0 .. 0 = {0} /\ 1 .. 0 = {}
    OBVIOUS
  <2> QED BY <2>1, <2>2, Zenon DEF Levels
<1>2. ASSUME S # {} PROVE FALSE
  <2>0. S \subseteq Blocks
    BY Zenon
  <2>1. PICK b \in S : Prev[b] \notin S
    <3> HIDE DEF S
    <3> QED BY <2>0, <1>2, Lowest, Zenon
  <2>2. b \in Blocks /\ Prev[b] \in Nodes
    BY HeightStep, Zenon
  <2>3. Levels(Prev[b])
    BY <2>1, <2>2, <1>1, Zenon DEF Nodes
  <2> QED BY <2>2, <2>3, LevelsStep, Zenon
<1> QED BY <1>1, <1>2, Zenon DEF Nodes

\* The last common ancestor of two blocks is on the paths to both.
LEMMA ForkCommon ==
  ASSUME NEW a \in Nodes, NEW b \in Nodes
  PROVE  LET f == ForkHeight(a, b)
         IN  /\ f \in 0 .. Height(a) /\ f \in 0 .. Height(b)
             /\ BlockAt(a, f) = BlockAt(b, f)
<1> DEFINE common == { h \in 0 .. Height(a) : h <= Height(b) /\ BlockAt(a, h) = BlockAt(b, h) }
           U == { Height(a) - h : h \in common }
<1>1. Height(a) \in Nat /\ Height(b) \in Nat
  BY HeightStep, Zenon
<1>2. 0 \in common
  <2>1. 0 \in 0 .. Height(a) /\ 0 <= Height(b)
    BY <1>1
  <2> QED BY <2>1, Zenon DEF BlockAt
<1>3. \A h \in common : h \in 0 .. Height(a)
  BY Zenon
<1> HIDE DEF common
<1>4. \A h \in common : Height(a) - h \in Nat
  BY <1>1, <1>3
<1>5. U \subseteq Nat /\ U # {}
  BY <1>2, <1>4, Zenon
<1>6. PICK u \in U : \A w \in U : u <= w
  <2> HIDE DEF U
  <2> QED BY <1>5, LeastOf, Zenon
<1>7. PICK h \in common : u = Height(a) - h
  BY <1>6, Zenon
<1>8. \A k \in common : Height(a) - h <= Height(a) - k
  BY <1>6, <1>7, Zenon
<1>9. \A k \in common : k <= h
  BY <1>1, <1>3, <1>8
<1>10. ForkHeight(a, b) \in common
  BY <1>9, Zenon DEF ForkHeight, common
<1>11. \A f \in common : f \in 0 .. Height(a) /\ f <= Height(b) /\ BlockAt(a, f) = BlockAt(b, f)
  BY Zenon DEF common
<1>12. \A f : f \in 0 .. Height(a) /\ f <= Height(b) => f \in 0 .. Height(b)
  BY <1>1
<1> QED BY <1>10, <1>11, <1>12, Zenon

=============================================================================
