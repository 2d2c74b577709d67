------------------------------ MODULE FoldProofs ------------------------------
(***************************************************************************)
(* What the folds of the community modules compute over a finite set: a    *)
(* sum, or a product, can be taken apart at any element.  Induction is     *)
(* over sets of sets, so that no operator need be passed to a lemma.       *)
(***************************************************************************)
EXTENDS Functions, Integers, FiniteSetTheorems, WellFoundedInduction, TLAPS

-----------------------------------------------------------------------------
(***************************************************************************)
(* Induction.                                                              *)
(***************************************************************************)

\* A set of numbers that is not empty has a smallest element.
LEMMA SmallestElement ==
    ASSUME NEW S \in SUBSET Nat, S # {}
    PROVE  \E n \in S : \A m \in S : n <= m
<1> DEFINE Less == {pair \in Nat \X Nat : pair[1] < pair[2]}
<1>1. IsWellFoundedOn(Less, Nat)
  BY NatLessThanWellFounded DEF OpToRel
<1>2. \A m, n \in Nat : m < n => <<m, n>> \in Less
  OBVIOUS
<1> HIDE DEF Less
<1>3. PICK n \in S : \A m \in S : ~ (<<m, n>> \in Less)
  BY <1>1, WFMin
<1>4. ASSUME NEW m \in S
      PROVE  n <= m
  <2>1. m \in Nat /\ n \in Nat
    OBVIOUS
  <2>2. ~ (m < n)
    BY <1>2, <1>3, <2>1
  <2>. QED  BY <2>1, <2>2
<1>. QED  BY <1>4

\* What holds of 0, and of every number up to `len' if of the one before.
LEMMA UpTo ==
    ASSUME NEW len \in Nat, NEW P, 0 \in P, \A n \in 1 .. len : n - 1 \in P => n \in P
    PROVE  0 .. len \subseteq P
<1> DEFINE Failing == {n \in 0 .. len : n \notin P}
<1>1. SUFFICES ASSUME Failing # {}
               PROVE  FALSE
  OBVIOUS
<1>2. Failing \in SUBSET Nat
  OBVIOUS
<1>3. PICK n \in Failing : \A m \in Failing : n <= m
  BY <1>1, <1>2, SmallestElement
<1>4. n \in 1 .. len /\ n - 1 \in 0 .. len
  BY <1>3
<1>5. n - 1 \notin Failing
  BY <1>3, <1>4
<1>. QED  BY <1>3, <1>4, <1>5

\* What holds of a set once it holds of that set without any one of its elements
\* holds of every finite set.
Inductive(S, P) == \A s \in SUBSET S : (\A x \in s : s \ {x} \in P) => s \in P

LEMMA SubsetInduction ==
    ASSUME NEW S, IsFiniteSet(S), NEW P, Inductive(S, P)
    PROVE  SUBSET S \subseteq P
<1> DEFINE Sizes == {n \in Nat : \E s \in SUBSET S : s \notin P /\ Cardinality(s) = n}
<1>1. \A s \in SUBSET S : IsFiniteSet(s) /\ Cardinality(s) \in Nat
  BY FS_Subset, FS_CardinalityType
<1>2. SUFFICES ASSUME Sizes # {}
               PROVE  FALSE
  BY <1>1
<1>3. PICK n \in Sizes : \A m \in Sizes : n <= m
  BY <1>2, SmallestElement
<1>4. PICK s \in SUBSET S : s \notin P /\ Cardinality(s) = n
  BY <1>3
<1>5. PICK x \in s : s \ {x} \notin P
  BY <1>4 DEF Inductive
<1>6. Cardinality(s \ {x}) = n - 1 /\ s \ {x} \in SUBSET S
  BY <1>1, <1>4, <1>5, FS_RemoveElement
<1>7. n - 1 \in Sizes
  BY <1>1, <1>5, <1>6
<1>. QED  BY <1>3, <1>7

-----------------------------------------------------------------------------
(***************************************************************************)
(* Folds by a function `op' that is associative and commutative on V.      *)
(***************************************************************************)

Pick(s) == CHOOSE x \in s : TRUE

Solves(g, op, base, f, T) ==
    g = [s \in SUBSET T |-> IF s = {} THEN base ELSE op[<<f[Pick(s)], g[s \ {Pick(s)}]>>]]

\* Two solutions agree where both are defined.
LEMMA SolutionsAgree ==
    ASSUME NEW op, NEW base, NEW f, NEW T, NEW U, NEW g, NEW h,
           Solves(g, op, base, f, T), Solves(h, op, base, f, U), NEW S, IsFiniteSet(S),
           S \subseteq T, S \subseteq U
    PROVE  g[S] = h[S]
<1> DEFINE P == {s \in SUBSET S : g[s] = h[s]}
<1>1. ASSUME NEW s \in SUBSET S, \A x \in s : s \ {x} \in P
      PROVE  s \in P
  <2>1. g[s] = IF s = {} THEN base ELSE op[<<f[Pick(s)], g[s \ {Pick(s)}]>>]
    BY DEF Solves
  <2>2. h[s] = IF s = {} THEN base ELSE op[<<f[Pick(s)], h[s \ {Pick(s)}]>>]
    BY DEF Solves
  <2>3. CASE s # {}
    <3>1. Pick(s) \in s
      BY <2>3 DEF Pick
    <3>2. g[s \ {Pick(s)}] = h[s \ {Pick(s)}]
      BY <1>1, <3>1
    <3>. QED  BY <2>1, <2>2, <2>3, <3>2
  <2>4. CASE s = {}
    BY <2>1, <2>2, <2>4
  <2>. QED  BY <2>3, <2>4
<1> HIDE DEF P
<1>2. Inductive(S, P)
  BY <1>1 DEF Inductive
<1>3. SUBSET S \subseteq P
  BY <1>2, SubsetInduction
<1>. QED  BY <1>3 DEF P

\* An operation on V whose order does not matter, and the values it is for.
Operation(V, op, base) ==
    /\ op \in [V \X V -> V] /\ base \in V
    /\ \A a, b, c \in V : op[<<a, op[<<b, c>>]>>] = op[<<b, op[<<a, c>>]>>]

Values(f, T, V) == \A x \in T : f[x] \in V

\* Over a finite set there is a solution.
LEMMA SolutionExists ==
    ASSUME NEW V, NEW op, NEW base, Operation(V, op, base), NEW T, IsFiniteSet(T),
           NEW f, Values(f, T, V)
    PROVE  \E g \in [SUBSET T -> V] : Solves(g, op, base, f, T)
<1>. op \in [V \X V -> V] /\ base \in V /\ \A x \in T : f[x] \in V
  BY DEF Operation, Values
<1> DEFINE P == {S \in SUBSET T : \E g \in [SUBSET S -> V] : Solves(g, op, base, f, S)}
<1>1. ASSUME NEW S \in SUBSET T, \A x \in S : S \ {x} \in P
      PROVE  S \in P
  <2> DEFINE Solution(r) == CHOOSE g \in [SUBSET r -> V] : Solves(g, op, base, f, r)
             g == [s \in SUBSET S |-> IF s = {} THEN base
                                      ELSE op[<<f[Pick(s)], Solution(S \ {Pick(s)})[s \ {Pick(s)}]>>]]
  <2>1. \A x \in S : /\ Solution(S \ {x}) \in [SUBSET (S \ {x}) -> V]
                     /\ Solves(Solution(S \ {x}), op, base, f, S \ {x})
    BY <1>1
  <2> HIDE DEF Solution
  <2>2. \A s \in SUBSET S : s # {} => Pick(s) \in s
    BY DEF Pick
  <2>3. \A s \in SUBSET S : g[s] \in V
    <3> SUFFICES ASSUME NEW s \in SUBSET S, s # {}
                 PROVE  op[<<f[Pick(s)], Solution(S \ {Pick(s)})[s \ {Pick(s)}]>>] \in V
      OBVIOUS
    <3>1. Solution(S \ {Pick(s)})[s \ {Pick(s)}] \in V
      <4>1. Pick(s) \in S /\ s \ {Pick(s)} \in SUBSET (S \ {Pick(s)})
        BY <2>2
      <4>2. Solution(S \ {Pick(s)}) \in [SUBSET (S \ {Pick(s)}) -> V]
        BY <2>1, <4>1
      <4>. QED  BY <4>1, <4>2
    <3>2. f[Pick(s)] \in V
      BY <2>2
    <3>. QED  BY <3>1, <3>2
  <2>4. ASSUME NEW s \in SUBSET S, s # {}
        PROVE  g[s \ {Pick(s)}] = Solution(S \ {Pick(s)})[s \ {Pick(s)}]
    <3> DEFINE x == Pick(s)
               r == s \ {x}
               y == Pick(r)
    <3>1. x \in s /\ r \in SUBSET S /\ r \subseteq S \ {x}
      BY <2>2, <2>4
    <3>2. /\ r = {} => Solution(S \ {x})[r] = base
          /\ r # {} => Solution(S \ {x})[r] = op[<<f[y], Solution(S \ {x})[r \ {y}]>>]
      <4>1. Solves(Solution(S \ {x}), op, base, f, S \ {x}) /\ r \in SUBSET (S \ {x})
        BY <2>1, <3>1
      <4> HIDE DEF r, x
      <4>. QED  BY <4>1 DEF Solves, y
    <3>3. CASE r = {}
      BY <3>1, <3>2, <3>3
    <3>4. CASE r # {}
      <4>1. y \in r /\ y \in S
        BY <2>2, <3>1, <3>4
      <4>2. g[r] = op[<<f[y], Solution(S \ {y})[r \ {y}]>>]
        BY <3>1, <3>4
      <4>3. Solution(S \ {y})[r \ {y}] = Solution(S \ {x})[r \ {y}]
        <5>1. IsFiniteSet(r \ {y})
          BY <3>1, FS_Subset
        <5>2. r \ {y} \subseteq S \ {x} /\ r \ {y} \subseteq S \ {y}
          BY <3>1
        <5>3. Solves(Solution(S \ {x}), op, base, f, S \ {x})
          BY <2>1, <3>1
        <5>4. Solves(Solution(S \ {y}), op, base, f, S \ {y})
          BY <2>1, <4>1
        <5> HIDE DEF x, y, r
        <5>. QED  BY <5>1, <5>2, <5>3, <5>4, SolutionsAgree
      <4>. QED  BY <3>2, <3>4, <4>2, <4>3
    <3>. QED  BY <3>3, <3>4
  <2>5. Solves(g, op, base, f, S)
    BY <2>4 DEF Solves
  <2>6. g \in [SUBSET S -> V]
    BY <2>3
  <2> HIDE DEF g
  <2>. QED  BY <2>5, <2>6
<1> HIDE DEF P
<1>2. Inductive(T, P)
  BY <1>1 DEF Inductive
<1>3. SUBSET T \subseteq P
  BY <1>2, SubsetInduction
<1>. QED  BY <1>3 DEF P

\* It can be taken apart at any element.
IsFold(g, V, op, base, f, T) ==
    /\ g \in [SUBSET T -> V]
    /\ Solves(g, op, base, f, T)
    /\ \A S \in SUBSET T : \A x \in S : g[S] = op[<<f[x], g[S \ {x}]>>]

LEMMA FoldExists ==
    ASSUME NEW V, NEW op, NEW base, Operation(V, op, base), NEW T, IsFiniteSet(T),
           NEW f, Values(f, T, V)
    PROVE  \E g : IsFold(g, V, op, base, f, T)
<1>. /\ \A x \in T : f[x] \in V
     /\ \A a, b, c \in V : op[<<a, op[<<b, c>>]>>] = op[<<b, op[<<a, c>>]>>]
  BY DEF Operation, Values
<1>0. PICK g \in [SUBSET T -> V] : Solves(g, op, base, f, T)
  BY SolutionExists
<1> DEFINE P == {S \in SUBSET T : \A x \in S : g[S] = op[<<f[x], g[S \ {x}]>>]}
<1>1. ASSUME NEW S \in SUBSET T, \A x \in S : S \ {x} \in P
      PROVE  S \in P
  <2> SUFFICES ASSUME NEW x \in S
               PROVE  g[S] = op[<<f[x], g[S \ {x}]>>]
    OBVIOUS
  <2> DEFINE y == Pick(S)
  <2>1. y \in S
    BY DEF Pick
  <2>2. g[S] = op[<<f[y], g[S \ {y}]>>]
    BY <1>0 DEF Solves
  <2> HIDE DEF y
  <2>3. CASE x # y
    <3> DEFINE rest == g[(S \ {x}) \ {y}]
    <3>1. (S \ {y}) \ {x} = (S \ {x}) \ {y}
      OBVIOUS
    <3>2. x \in S \ {y} /\ y \in S \ {x} /\ S \ {y} \in P /\ S \ {x} \in P
      BY <1>1, <2>1, <2>3
    <3>3. g[S \ {y}] = op[<<f[x], g[(S \ {y}) \ {x}]>>] /\ g[S \ {x}] = op[<<f[y], rest>>]
      BY <3>2
    <3>4. f[x] \in V /\ f[y] \in V /\ rest \in V
      BY <2>1
    <3> HIDE DEF rest, P
    <3>5. g[S] = op[<<f[y], op[<<f[x], rest>>]>>]
      BY <2>2, <3>1, <3>3 DEF rest
    <3>. QED  BY <3>3, <3>4, <3>5
  <2>. QED  BY <2>2, <2>3
<1> HIDE DEF P
<1>2. Inductive(T, P)
  BY <1>1 DEF Inductive
<1>3. SUBSET T \subseteq P
  BY <1>2, SubsetInduction
<1>4. \A S \in SUBSET T : \A x \in S : g[S] = op[<<f[x], g[S \ {x}]>>]
  BY <1>3 DEF P
<1>5. IsFold(g, V, op, base, f, T)
  BY <1>0, <1>4 DEF IsFold
<1>. QED  BY <1>5

-----------------------------------------------------------------------------
(***************************************************************************)
(* Sums.                                                                   *)
(***************************************************************************)

plus == [pair \in Int \X Int |-> pair[1] + pair[2]]

LEMMA SumIsSolution ==
    ASSUME NEW T, IsFiniteSet(T), NEW f, \A x \in T : f[x] \in Int,
           NEW g \in [SUBSET T -> Int], Solves(g, plus, 0, f, T)
    PROVE  SumFunctionOnSet(f, T) = g[T]
<1> DEFINE Adds(h) == h = [s \in SUBSET T |-> IF s = {} THEN 0
                                              ELSE f[Pick(s)] + h[s \ {Pick(s)}]]
           sum == CHOOSE h : Adds(h)
           P == {s \in SUBSET T : sum[s] = g[s]}
<1>1. \A s \in SUBSET T : s # {} =>
        /\ Pick(s) \in s /\ f[Pick(s)] \in Int /\ g[s \ {Pick(s)}] \in Int
        /\ plus[<<f[Pick(s)], g[s \ {Pick(s)}]>>] = f[Pick(s)] + g[s \ {Pick(s)}]
  <2>1. \A s \in SUBSET T : s # {} => Pick(s) \in s
    BY DEF Pick
  <2>2. \A a, b \in Int : plus[<<a, b>>] = a + b
    BY DEF plus
  <2>. QED  BY <2>1, <2>2
<1>2. Adds(g)
  BY <1>1 DEF Solves
<1>3. SumFunctionOnSet(f, T) = sum[T]
  BY DEF SumFunctionOnSet, FoldFunctionOnSet, MapThenFoldSet, Pick
<1>4. Adds(sum)
  BY <1>2
<1> HIDE DEF sum
<1>5. ASSUME NEW s \in SUBSET T, \A x \in s : s \ {x} \in P
      PROVE  s \in P
  <2>1. CASE s = {}
    BY <1>2, <1>4, <2>1
  <2>2. CASE s # {}
    <3>1. sum[s] = f[Pick(s)] + sum[s \ {Pick(s)}] /\ g[s] = f[Pick(s)] + g[s \ {Pick(s)}]
      BY <1>2, <1>4, <2>2
    <3>2. sum[s \ {Pick(s)}] = g[s \ {Pick(s)}]
      BY <1>1, <1>5, <2>2
    <3>. QED  BY <3>1, <3>2
  <2>. QED  BY <2>1, <2>2
<1> HIDE DEF P
<1>6. Inductive(T, P)
  BY <1>5 DEF Inductive
<1>7. SUBSET T \subseteq P
  BY <1>6, SubsetInduction
<1>. QED  BY <1>3, <1>7 DEF P

\* A sum over nothing is zero; any element can be put aside.
LEMMA SumTakenApart ==
    ASSUME NEW T, IsFiniteSet(T), NEW f, \A x \in T : f[x] \in Int
    PROVE  /\ SumFunctionOnSet(f, {}) = 0
           /\ SumFunctionOnSet(f, T) \in Int
           /\ \A x \in T : SumFunctionOnSet(f, T) = f[x] + SumFunctionOnSet(f, T \ {x})
<1>1. plus \in [Int \X Int -> Int] /\ \A a, b \in Int : plus[<<a, b>>] = a + b
  BY DEF plus
<1>2. Operation(Int, plus, 0)
  BY <1>1 DEF Operation
<1>3. Values(f, T, Int)
  BY DEF Values
<1>4. PICK g : IsFold(g, Int, plus, 0, f, T)
  BY <1>2, <1>3, FoldExists
<1>. /\ g \in [SUBSET T -> Int] /\ Solves(g, plus, 0, f, T)
     /\ \A S \in SUBSET T : \A x \in S : g[S] = plus[<<f[x], g[S \ {x}]>>]
  BY <1>4 DEF IsFold
<1>5. ASSUME NEW S \in SUBSET T
      PROVE  SumFunctionOnSet(f, S) = g[S]
  <2> DEFINE part == [s \in SUBSET S |-> g[s]]
  <2>1. IsFiniteSet(S) /\ \A x \in S : f[x] \in Int
    BY FS_Subset
  <2>2. part \in [SUBSET S -> Int]
    OBVIOUS
  <2>3. Solves(part, plus, 0, f, S)
    BY <1>4 DEF Solves
  <2>4. part[S] = g[S]
    OBVIOUS
  <2> HIDE DEF part
  <2>. QED  BY <2>1, <2>2, <2>3, <2>4, SumIsSolution
<1>6. g[{}] = 0
  BY <1>4 DEF Solves
<1>7. \A x \in T : g[T] = f[x] + g[T \ {x}]
  <2> SUFFICES ASSUME NEW x \in T
               PROVE  g[T] = f[x] + g[T \ {x}]
    OBVIOUS
  <2>1. g[T] = plus[<<f[x], g[T \ {x}]>>]
    BY <1>4
  <2>2. f[x] \in Int /\ g[T \ {x}] \in Int
    OBVIOUS
  <2>. QED  BY <1>1, <2>1, <2>2
<1>8. /\ SumFunctionOnSet(f, {}) = g[{}] /\ SumFunctionOnSet(f, T) = g[T]
      /\ \A x \in T : SumFunctionOnSet(f, T \ {x}) = g[T \ {x}]
  BY <1>5
<1>. QED  BY <1>6, <1>7, <1>8

\* Functions that agree on a set have the same sum over it.
LEMMA SumAgrees ==
    ASSUME NEW T, IsFiniteSet(T), NEW f, NEW g, \A x \in T : f[x] \in Int /\ g[x] = f[x]
    PROVE  SumFunctionOnSet(g, T) = SumFunctionOnSet(f, T)
<1> DEFINE P == {s \in SUBSET T : SumFunctionOnSet(g, s) = SumFunctionOnSet(f, s)}
<1>1. ASSUME NEW s \in SUBSET T, \A x \in s : s \ {x} \in P
      PROVE  s \in P
  <2>1. IsFiniteSet(s) /\ (\A x \in s : f[x] \in Int) /\ (\A x \in s : g[x] \in Int)
    BY FS_Subset
  <2>2. /\ SumFunctionOnSet(f, {}) = 0
        /\ \A x \in s : SumFunctionOnSet(f, s) = f[x] + SumFunctionOnSet(f, s \ {x})
    BY <2>1, SumTakenApart
  <2>3. /\ SumFunctionOnSet(g, {}) = 0
        /\ \A x \in s : SumFunctionOnSet(g, s) = g[x] + SumFunctionOnSet(g, s \ {x})
    BY <2>1, SumTakenApart
  <2>4. CASE s = {}
    BY <2>2, <2>3, <2>4
  <2>5. CASE s # {}
    <3>1. PICK x \in s : TRUE
      BY <2>5
    <3>2. SumFunctionOnSet(g, s \ {x}) = SumFunctionOnSet(f, s \ {x})
      BY <1>1, <3>1
    <3>. QED  BY <2>2, <2>3, <3>1, <3>2
  <2>. QED  BY <2>4, <2>5
<1> HIDE DEF P
<1>2. Inductive(T, P)
  BY <1>1 DEF Inductive
<1>3. SUBSET T \subseteq P
  BY <1>2, SubsetInduction
<1>. QED  BY <1>3 DEF P

\* One value changes: so does the sum.
LEMMA SumMoves ==
    ASSUME NEW T, IsFiniteSet(T), NEW f, NEW g, NEW t \in T,
           \A x \in T : f[x] \in Int /\ g[x] \in Int, \A x \in T \ {t} : g[x] = f[x]
    PROVE  /\ SumFunctionOnSet(f, T) \in Int
           /\ SumFunctionOnSet(g, T) = SumFunctionOnSet(f, T) + g[t] - f[t]
<1>1. IsFiniteSet(T \ {t})
  BY FS_Subset
<1>2. SumFunctionOnSet(g, T \ {t}) = SumFunctionOnSet(f, T \ {t})
  BY <1>1, SumAgrees
<1>3. /\ SumFunctionOnSet(f, T) = f[t] + SumFunctionOnSet(f, T \ {t})
      /\ SumFunctionOnSet(f, T) \in Int
  BY SumTakenApart
<1>4. SumFunctionOnSet(g, T) = g[t] + SumFunctionOnSet(g, T \ {t})
  BY SumTakenApart
<1>5. SumFunctionOnSet(f, T \ {t}) \in Int
  BY <1>1, SumTakenApart
<1>. QED  BY <1>2, <1>3, <1>4, <1>5

\* What one element loses another gains.
LEMMA SumShifts ==
    ASSUME NEW T, IsFiniteSet(T), NEW f, NEW g, NEW t \in T, NEW u \in T, t # u,
           \A x \in T : f[x] \in Int /\ g[x] \in Int,
           \A x \in T \ {t, u} : g[x] = f[x], g[t] + g[u] = f[t] + f[u]
    PROVE  SumFunctionOnSet(g, T) = SumFunctionOnSet(f, T)
<1> DEFINE m == [x \in T |-> IF x = t THEN g[t] ELSE f[x]]
<1>1. /\ \A x \in T : m[x] \in Int
      /\ \A x \in T \ {t} : m[x] = f[x]
      /\ \A x \in T \ {u} : g[x] = m[x]
      /\ m[t] = g[t] /\ m[u] = f[u]
  OBVIOUS
<1> HIDE DEF m
<1>2. /\ SumFunctionOnSet(f, T) \in Int
      /\ SumFunctionOnSet(m, T) = SumFunctionOnSet(f, T) + m[t] - f[t]
  BY <1>1, SumMoves
<1>3. SumFunctionOnSet(g, T) = SumFunctionOnSet(m, T) + g[u] - m[u]
  <2>1. \A x \in T : m[x] \in Int /\ g[x] \in Int
    BY <1>1
  <2>2. \A x \in T \ {u} : g[x] = m[x]
    BY <1>1
  <2>. QED  BY <2>1, <2>2, SumMoves
<1>4. g[t] \in Int /\ f[t] \in Int /\ g[u] \in Int /\ f[u] \in Int
  OBVIOUS
<1>. QED  BY <1>1, <1>2, <1>3, <1>4

\* A sum of natural numbers is at least any of them, and any two of them.
LEMMA SumOfNaturals ==
    ASSUME NEW T, IsFiniteSet(T), NEW f, \A x \in T : f[x] \in Nat
    PROVE  /\ SumFunctionOnSet(f, T) \in Nat
           /\ \A x \in T : f[x] <= SumFunctionOnSet(f, T)
           /\ \A x, y \in T : x # y => f[x] + f[y] <= SumFunctionOnSet(f, T)
           /\ SumFunctionOnSet(f, T) > 0 => \E x \in T : f[x] > 0
<1> DEFINE sum(s) == SumFunctionOnSet(f, s)
           P == {s \in SUBSET T : sum(s) \in Nat /\ (sum(s) > 0 => \E x \in s : f[x] > 0)}
<1>1. \A s \in SUBSET T : IsFiniteSet(s) /\ \A x \in s : f[x] \in Int
  BY FS_Subset
<1>2. /\ sum({}) = 0
      /\ \A s \in SUBSET T : \A x \in s : sum(s) = f[x] + sum(s \ {x})
  BY <1>1, SumTakenApart
<1> HIDE DEF sum
<1>3. ASSUME NEW s \in SUBSET T, \A x \in s : s \ {x} \in P
      PROVE  s \in P
  <2>1. CASE s = {}
    BY <1>2, <2>1
  <2>2. CASE s # {}
    <3>1. PICK x \in s : TRUE
      BY <2>2
    <3>2. sum(s) = f[x] + sum(s \ {x}) /\ f[x] \in Nat
      BY <1>2
    <3>3. sum(s \ {x}) \in Nat /\ (sum(s \ {x}) > 0 => \E y \in s \ {x} : f[y] > 0)
      BY <1>3
    <3>4. sum(s) > 0 => f[x] > 0 \/ sum(s \ {x}) > 0
      BY <3>2, <3>3
    <3>. QED  BY <3>2, <3>3, <3>4
  <2>. QED  BY <2>1, <2>2
<1> HIDE DEF P
<1>4. Inductive(T, P)
  BY <1>3 DEF Inductive
<1>5. SUBSET T \subseteq P
  BY <1>4, SubsetInduction
<1>6. \A s \in SUBSET T : sum(s) \in Nat
  BY <1>5 DEF P
<1>7. sum(T) \in Nat /\ (sum(T) > 0 => \E x \in T : f[x] > 0)
  BY <1>5 DEF P
<1>8. ASSUME NEW x \in T
      PROVE  f[x] <= sum(T)
  <2>1. T \ {x} \in SUBSET T /\ T \in SUBSET T
    OBVIOUS
  <2>2. sum(T) = f[x] + sum(T \ {x})
    BY <1>2, <2>1
  <2>3. sum(T \ {x}) \in Nat /\ f[x] \in Nat
    BY <1>6, <2>1
  <2>. QED  BY <2>2, <2>3
<1>9. ASSUME NEW x \in T, NEW y \in T, x # y
      PROVE  f[x] + f[y] <= sum(T)
  <2>1. y \in T \ {x} /\ T \ {x} \in SUBSET T /\ (T \ {x}) \ {y} \in SUBSET T
    BY <1>9
  <2>2. sum(T) = f[x] + sum(T \ {x})
    BY <1>2
  <2>3. sum(T \ {x}) = f[y] + sum((T \ {x}) \ {y})
    BY <1>2, <2>1
  <2>4. sum((T \ {x}) \ {y}) \in Nat
    BY <1>6, <2>1
  <2>. QED  BY <2>2, <2>3, <2>4
<1>. QED  BY <1>7, <1>8, <1>9 DEF sum

\* An equation that holds at every element holds of the sums.
LEMMA SumBalances ==
    ASSUME NEW T, IsFiniteSet(T), NEW a, NEW b, NEW c, NEW p, NEW q,
           \A x \in T : /\ a[x] \in Int /\ b[x] \in Int /\ c[x] \in Int
                        /\ p[x] \in Int /\ q[x] \in Int
                        /\ a[x] + b[x] + c[x] = p[x] + q[x]
    PROVE  SumFunctionOnSet(a, T) + SumFunctionOnSet(b, T) + SumFunctionOnSet(c, T)
             = SumFunctionOnSet(p, T) + SumFunctionOnSet(q, T)
<1> DEFINE A(s) == SumFunctionOnSet(a, s)
           B(s) == SumFunctionOnSet(b, s)
           C(s) == SumFunctionOnSet(c, s)
           D(s) == SumFunctionOnSet(p, s)
           E(s) == SumFunctionOnSet(q, s)
           P == {s \in SUBSET T : A(s) + B(s) + C(s) = D(s) + E(s)}
<1>1. \A s \in SUBSET T : IsFiniteSet(s)
  BY FS_Subset
<1>2. /\ A({}) = 0 /\ \A s \in SUBSET T : A(s) \in Int /\ \A x \in s : A(s) = a[x] + A(s \ {x})
      /\ B({}) = 0 /\ \A s \in SUBSET T : B(s) \in Int /\ \A x \in s : B(s) = b[x] + B(s \ {x})
      /\ C({}) = 0 /\ \A s \in SUBSET T : C(s) \in Int /\ \A x \in s : C(s) = c[x] + C(s \ {x})
      /\ D({}) = 0 /\ \A s \in SUBSET T : D(s) \in Int /\ \A x \in s : D(s) = p[x] + D(s \ {x})
      /\ E({}) = 0 /\ \A s \in SUBSET T : E(s) \in Int /\ \A x \in s : E(s) = q[x] + E(s \ {x})
  <2>1. \A s \in SUBSET T : \A x \in s :
           /\ a[x] \in Int /\ b[x] \in Int /\ c[x] \in Int /\ p[x] \in Int /\ q[x] \in Int
    OBVIOUS
  <2>2. A({}) = 0 /\ \A s \in SUBSET T : A(s) \in Int /\ \A x \in s : A(s) = a[x] + A(s \ {x})
    BY <1>1, <2>1, SumTakenApart
  <2>3. B({}) = 0 /\ \A s \in SUBSET T : B(s) \in Int /\ \A x \in s : B(s) = b[x] + B(s \ {x})
    BY <1>1, <2>1, SumTakenApart
  <2>4. C({}) = 0 /\ \A s \in SUBSET T : C(s) \in Int /\ \A x \in s : C(s) = c[x] + C(s \ {x})
    BY <1>1, <2>1, SumTakenApart
  <2>5. D({}) = 0 /\ \A s \in SUBSET T : D(s) \in Int /\ \A x \in s : D(s) = p[x] + D(s \ {x})
    BY <1>1, <2>1, SumTakenApart
  <2>6. E({}) = 0 /\ \A s \in SUBSET T : E(s) \in Int /\ \A x \in s : E(s) = q[x] + E(s \ {x})
    BY <1>1, <2>1, SumTakenApart
  <2>. QED  BY <2>2, <2>3, <2>4, <2>5, <2>6
<1> HIDE DEF A, B, C, D, E
<1>3. ASSUME NEW s \in SUBSET T, \A x \in s : s \ {x} \in P
      PROVE  s \in P
  <2>1. CASE s = {}
    BY <1>2, <2>1
  <2>2. CASE s # {}
    <3>1. PICK x \in s : TRUE
      BY <2>2
    <3>2. /\ s \ {x} \in SUBSET T
          /\ A(s \ {x}) + B(s \ {x}) + C(s \ {x}) = D(s \ {x}) + E(s \ {x})
      BY <1>3
    <3>3. /\ A(s) = a[x] + A(s \ {x}) /\ B(s) = b[x] + B(s \ {x})
          /\ C(s) = c[x] + C(s \ {x}) /\ D(s) = p[x] + D(s \ {x})
          /\ E(s) = q[x] + E(s \ {x})
      BY <1>2
    <3>4. /\ A(s \ {x}) \in Int /\ B(s \ {x}) \in Int /\ C(s \ {x}) \in Int
          /\ D(s \ {x}) \in Int /\ E(s \ {x}) \in Int
      BY <1>2, <3>2
    <3>5. x \in T
      BY <3>1
    <3>6. /\ a[x] \in Int /\ b[x] \in Int /\ c[x] \in Int /\ p[x] \in Int /\ q[x] \in Int
          /\ a[x] + b[x] + c[x] = p[x] + q[x]
      BY <3>5
    <3> DEFINE r == s \ {x}
    <3>7. /\ A(r) \in Int /\ B(r) \in Int /\ C(r) \in Int /\ D(r) \in Int /\ E(r) \in Int
          /\ A(r) + B(r) + C(r) = D(r) + E(r)
          /\ A(s) = a[x] + A(r) /\ B(s) = b[x] + B(r) /\ C(s) = c[x] + C(r)
          /\ D(s) = p[x] + D(r) /\ E(s) = q[x] + E(r)
      BY <3>2, <3>3, <3>4
    <3> HIDE DEF r
    <3>8. A(s) + B(s) + C(s) = D(s) + E(s)
      BY <3>6, <3>7
    <3>. QED  BY <3>8
  <2>. QED  BY <2>1, <2>2
<1> HIDE DEF P
<1>4. Inductive(T, P)
  BY <1>3 DEF Inductive
<1>5. T \in P
  BY <1>4, SubsetInduction
<1>. QED  BY <1>5 DEF P, A, B, C, D, E

\* The number of elements with a mark is the sum of the marks.
LEMMA SumOfMarks ==
    ASSUME NEW T, IsFiniteSet(T), NEW M \in SUBSET T
    PROVE  Cardinality(M) = SumFunctionOnSet([x \in T |-> IF x \in M THEN 1 ELSE 0], T)
<1> DEFINE mark == [x \in T |-> IF x \in M THEN 1 ELSE 0]
           P == {s \in SUBSET T : SumFunctionOnSet(mark, s) = Cardinality(s \cap M)}
<1>1. ASSUME NEW s \in SUBSET T, \A x \in s : s \ {x} \in P
      PROVE  s \in P
  <2>1. IsFiniteSet(s) /\ \A x \in s : mark[x] \in Int
    BY FS_Subset
  <2> HIDE DEF mark
  <2>2. /\ SumFunctionOnSet(mark, {}) = 0
        /\ \A x \in s : SumFunctionOnSet(mark, s) = mark[x] + SumFunctionOnSet(mark, s \ {x})
    BY <2>1, SumTakenApart
  <2>3. CASE s = {}
    BY <2>2, <2>3, FS_EmptySet
  <2>4. CASE s # {}
    <3>1. PICK x \in s : TRUE
      BY <2>4
    <3>2. SumFunctionOnSet(mark, s \ {x}) = Cardinality((s \ {x}) \cap M)
      BY <1>1, <3>1
    <3>3. IsFiniteSet(s \cap M) /\ Cardinality(s \cap M) \in Nat
      BY <2>1, FS_Subset, FS_CardinalityType
    <3>4. CASE x \in M
      <4>1. (s \cap M) \ {x} = (s \ {x}) \cap M /\ x \in s \cap M
        BY <3>1, <3>4
      <4>2. Cardinality((s \ {x}) \cap M) = Cardinality(s \cap M) - 1
        BY <3>3, <4>1, FS_RemoveElement
      <4>3. mark[x] = 1
        BY <3>4 DEF mark
      <4>. QED  BY <2>2, <3>1, <3>2, <3>3, <4>2, <4>3
    <3>5. CASE x \notin M
      <4>1. (s \ {x}) \cap M = s \cap M
        BY <3>5
      <4>2. mark[x] = 0
        BY <3>5 DEF mark
      <4>3. SumFunctionOnSet(mark, s) = 0 + SumFunctionOnSet(mark, s \ {x})
        BY <2>2, <3>1, <4>2
      <4>4. SumFunctionOnSet(mark, s) = 0 + Cardinality(s \cap M)
        BY <3>2, <4>1, <4>3
      <4>. QED  BY <3>3, <4>4
    <3>. QED  BY <3>4, <3>5
  <2>. QED  BY <2>3, <2>4
<1> HIDE DEF P
<1>2. Inductive(T, P)
  BY <1>1 DEF Inductive
<1>3. T \in P
  BY <1>2, SubsetInduction
<1>4. T \cap M = M
  OBVIOUS
<1>. QED  BY <1>3, <1>4 DEF P

\* The sums of the first elements of a list.
LEMMA PartialSums ==
    ASSUME NEW len \in Nat, NEW f, \A n \in 1 .. len : f[n] \in Int
    PROVE  /\ \A n \in 0 .. len : SumFunctionOnSet(f, 1 .. n) \in Int
           /\ SumFunctionOnSet(f, 1 .. 0) = 0
           /\ \A n \in 1 .. len :
                SumFunctionOnSet(f, 1 .. n) = f[n] + SumFunctionOnSet(f, 1 .. n - 1)
<1>1. \A n \in 0 .. len : IsFiniteSet(1 .. n) /\ \A x \in 1 .. n : f[x] \in Int
  BY FS_Interval
<1>2. \A n \in 0 .. len : SumFunctionOnSet(f, 1 .. n) \in Int
  BY <1>1, SumTakenApart
<1>3. SumFunctionOnSet(f, 1 .. 0) = 0
  BY <1>1, SumTakenApart
<1>4. ASSUME NEW n \in 1 .. len
      PROVE  SumFunctionOnSet(f, 1 .. n) = f[n] + SumFunctionOnSet(f, 1 .. n - 1)
  <2>1. n \in 1 .. n /\ (1 .. n) \ {n} = 1 .. n - 1
    OBVIOUS
  <2>2. IsFiniteSet(1 .. n) /\ \A x \in 1 .. n : f[x] \in Int
    BY <1>1
  <2>. QED  BY <2>1, <2>2, SumTakenApart
<1>. QED  BY <1>2, <1>3, <1>4

\* Sums of positive numbers grow with their number, by one at least.
LEMMA PositiveSums ==
    ASSUME NEW len \in Nat, NEW f, \A n \in 1 .. len : f[n] \in Nat \ {0}
    PROVE  /\ \A n \in 0 .. len : n <= SumFunctionOnSet(f, 1 .. n)
           /\ \A n \in 0 .. len : SumFunctionOnSet(f, 1 .. n) <= SumFunctionOnSet(f, 1 .. len)
<1> DEFINE sum(n) == SumFunctionOnSet(f, 1 .. n)
           P == {n \in Nat : /\ n <= sum(n)
                             /\ \A m \in 0 .. n : sum(m) <= sum(n)}
<1>1. /\ \A n \in 0 .. len : sum(n) \in Int
      /\ sum(0) = 0
      /\ \A n \in 1 .. len : sum(n) = f[n] + sum(n - 1)
  BY PartialSums
<1> HIDE DEF sum
<1>2. 0 \in P
  BY <1>1
<1>3. ASSUME NEW n \in 1 .. len, n - 1 \in P
      PROVE  n \in P
  <2>1. sum(n) = f[n] + sum(n - 1) /\ sum(n - 1) \in Int /\ f[n] \in Nat \ {0}
    BY <1>1
  <2>2. n - 1 <= sum(n - 1) /\ \A m \in 0 .. n - 1 : sum(m) <= sum(n - 1)
    BY <1>3
  <2>3. ASSUME NEW m \in 0 .. n
        PROVE  sum(m) <= sum(n)
    <3>1. sum(m) \in Int
      BY <1>1
    <3>2. CASE m = n
      BY <3>1, <3>2
    <3>3. CASE m # n
      <4>1. sum(m) <= sum(n - 1)
        BY <2>2, <3>3
      <4>. QED  BY <2>1, <3>1, <4>1
    <3>. QED  BY <3>2, <3>3
  <2>4. n <= sum(n)
    BY <2>1, <2>2
  <2>. QED  BY <2>3, <2>4
<1> HIDE DEF P
<1>4. 0 .. len \subseteq P
  BY <1>2, <1>3, UpTo
<1>. QED  BY <1>4 DEF P, sum

-----------------------------------------------------------------------------
(***************************************************************************)
(* Products.                                                               *)
(***************************************************************************)

ProductOnSet(fun, indices) == FoldFunctionOnSet(LAMBDA a, b : a * b, 1, fun, indices)

times == [pair \in Int \X Int |-> pair[1] * pair[2]]

LEMMA ProductIsSolution ==
    ASSUME NEW T, IsFiniteSet(T), NEW f, \A x \in T : f[x] \in Int,
           NEW g \in [SUBSET T -> Int], Solves(g, times, 1, f, T)
    PROVE  ProductOnSet(f, T) = g[T]
<1> DEFINE Multiplies(h) == h = [s \in SUBSET T |-> IF s = {} THEN 1
                                                     ELSE f[Pick(s)] * h[s \ {Pick(s)}]]
           prod == CHOOSE h : Multiplies(h)
           P == {s \in SUBSET T : prod[s] = g[s]}
<1>1. \A s \in SUBSET T : s # {} =>
        /\ Pick(s) \in s /\ f[Pick(s)] \in Int /\ g[s \ {Pick(s)}] \in Int
        /\ times[<<f[Pick(s)], g[s \ {Pick(s)}]>>] = f[Pick(s)] * g[s \ {Pick(s)}]
  <2>1. \A s \in SUBSET T : s # {} => Pick(s) \in s
    BY DEF Pick
  <2>2. \A a, b \in Int : times[<<a, b>>] = a * b
    BY DEF times
  <2>. QED  BY <2>1, <2>2
<1>2. Multiplies(g)
  BY <1>1 DEF Solves
<1>3. ProductOnSet(f, T) = prod[T]
  BY DEF ProductOnSet, FoldFunctionOnSet, MapThenFoldSet, Pick
<1>4. Multiplies(prod)
  BY <1>2
<1> HIDE DEF prod
<1>5. ASSUME NEW s \in SUBSET T, \A x \in s : s \ {x} \in P
      PROVE  s \in P
  <2>1. CASE s = {}
    BY <1>2, <1>4, <2>1
  <2>2. CASE s # {}
    <3>1. prod[s] = f[Pick(s)] * prod[s \ {Pick(s)}] /\ g[s] = f[Pick(s)] * g[s \ {Pick(s)}]
      BY <1>2, <1>4, <2>2
    <3>2. prod[s \ {Pick(s)}] = g[s \ {Pick(s)}]
      BY <1>1, <1>5, <2>2
    <3>. QED  BY <3>1, <3>2
  <2>. QED  BY <2>1, <2>2
<1> HIDE DEF P
<1>6. Inductive(T, P)
  BY <1>5 DEF Inductive
<1>7. SUBSET T \subseteq P
  BY <1>6, SubsetInduction
<1>. QED  BY <1>3, <1>7 DEF P

\* A product over nothing is one; any element can be put aside.
LEMMA ProductTakenApart ==
    ASSUME NEW T, IsFiniteSet(T), NEW f, \A x \in T : f[x] \in Int
    PROVE  /\ ProductOnSet(f, {}) = 1
           /\ ProductOnSet(f, T) \in Int
           /\ \A x \in T : ProductOnSet(f, T) = f[x] * ProductOnSet(f, T \ {x})
<1>1. times \in [Int \X Int -> Int] /\ \A a, b \in Int : times[<<a, b>>] = a * b
  BY DEF times
<1>2. Operation(Int, times, 1)
  BY <1>1 DEF Operation
<1>3. Values(f, T, Int)
  BY DEF Values
<1>4. PICK g : IsFold(g, Int, times, 1, f, T)
  BY <1>2, <1>3, FoldExists
<1>. /\ g \in [SUBSET T -> Int] /\ Solves(g, times, 1, f, T)
     /\ \A S \in SUBSET T : \A x \in S : g[S] = times[<<f[x], g[S \ {x}]>>]
  BY <1>4 DEF IsFold
<1>5. ASSUME NEW S \in SUBSET T
      PROVE  ProductOnSet(f, S) = g[S]
  <2> DEFINE part == [s \in SUBSET S |-> g[s]]
  <2>1. IsFiniteSet(S) /\ \A x \in S : f[x] \in Int
    BY FS_Subset
  <2>2. part \in [SUBSET S -> Int]
    OBVIOUS
  <2>3. Solves(part, times, 1, f, S)
    BY <1>4 DEF Solves
  <2>4. part[S] = g[S]
    OBVIOUS
  <2> HIDE DEF part
  <2>. QED  BY <2>1, <2>2, <2>3, <2>4, ProductIsSolution
<1>6. g[{}] = 1
  BY <1>4 DEF Solves
<1>7. \A x \in T : g[T] = f[x] * g[T \ {x}]
  <2> SUFFICES ASSUME NEW x \in T
               PROVE  g[T] = f[x] * g[T \ {x}]
    OBVIOUS
  <2>1. g[T] = times[<<f[x], g[T \ {x}]>>]
    BY <1>4
  <2>2. f[x] \in Int /\ g[T \ {x}] \in Int
    OBVIOUS
  <2>. QED  BY <1>1, <2>1, <2>2
<1>8. /\ ProductOnSet(f, {}) = g[{}] /\ ProductOnSet(f, T) = g[T]
      /\ \A x \in T : ProductOnSet(f, T \ {x}) = g[T \ {x}]
  BY <1>5
<1>. QED  BY <1>6, <1>7, <1>8

\* Larger factors, larger product.
LEMMA ProductGrows ==
    ASSUME NEW T, IsFiniteSet(T), NEW f, NEW g,
           \A x \in T : f[x] \in Nat /\ g[x] \in Nat /\ f[x] <= g[x]
    PROVE  /\ ProductOnSet(f, T) \in Nat /\ ProductOnSet(g, T) \in Nat
           /\ ProductOnSet(f, T) <= ProductOnSet(g, T)
<1> DEFINE F(s) == ProductOnSet(f, s)
           G(s) == ProductOnSet(g, s)
           P == {s \in SUBSET T : F(s) \in Nat /\ G(s) \in Nat /\ F(s) <= G(s)}
<1>1. ASSUME NEW s \in SUBSET T
      PROVE  /\ F({}) = 1 /\ G({}) = 1
             /\ \A x \in s : F(s) = f[x] * F(s \ {x}) /\ G(s) = g[x] * G(s \ {x})
  <2>1. IsFiniteSet(s) /\ \A x \in s : f[x] \in Int /\ g[x] \in Int
    BY FS_Subset
  <2>. QED  BY <2>1, ProductTakenApart
<1>2. \A a, b, c, d \in Nat : a <= b /\ c <= d => a * c \in Nat /\ b * d \in Nat /\ a * c <= b * d
  <2> SUFFICES ASSUME NEW a \in Nat, NEW b \in Nat, NEW c \in Nat, NEW d \in Nat, a <= b, c <= d
               PROVE  a * c \in Nat /\ b * d \in Nat /\ a * c <= b * d
    OBVIOUS
  <2>1. a * c <= b * c /\ b * c <= b * d
    OBVIOUS
  <2>2. a * c \in Nat /\ b * d \in Nat /\ b * c \in Nat
    OBVIOUS
  <2>. QED  BY <2>1, <2>2
<1> HIDE DEF F, G
<1>3. ASSUME NEW s \in SUBSET T, \A x \in s : s \ {x} \in P
      PROVE  s \in P
  <2>1. CASE s = {}
    BY <1>1, <2>1
  <2>2. CASE s # {}
    <3>1. PICK x \in s : TRUE
      BY <2>2
    <3>2. F(s) = f[x] * F(s \ {x}) /\ G(s) = g[x] * G(s \ {x})
      BY <1>1
    <3>3. F(s \ {x}) \in Nat /\ G(s \ {x}) \in Nat /\ F(s \ {x}) <= G(s \ {x})
      BY <1>3
    <3>4. f[x] \in Nat /\ g[x] \in Nat /\ f[x] <= g[x]
      OBVIOUS
    <3>5. F(s) \in Nat /\ G(s) \in Nat /\ F(s) <= G(s)
      BY <1>2, <3>2, <3>3, <3>4
    <3>. QED  BY <3>5
  <2>. QED  BY <2>1, <2>2
<1> HIDE DEF P
<1>4. Inductive(T, P)
  BY <1>3 DEF Inductive
<1>5. SUBSET T \subseteq P
  BY <1>4, SubsetInduction
<1>. QED  BY <1>5 DEF P, F, G
=============================================================================
