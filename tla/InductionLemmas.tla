--------------------------- MODULE InductionLemmas ---------------------------
(***************************************************************************)
(* What the modules' sums and recursive functions compute, for every       *)
(* input.  A statement is the set of what it holds of, since no prover here*)
(* can be given an operator; an induction shows that the set has all of    *)
(* them, because otherwise there were a smallest one it has not.           *)
(***************************************************************************)
EXTENDS Integers, FiniteSets, Functions, FiniteSetTheorems, TLAPS

\* A nonempty collection of subsets of a finite set has a smallest one.
LEMMA SmallestSubset ==
    ASSUME NEW S, IsFiniteSet(S), NEW T, T \subseteq SUBSET S, T # {}
    PROVE  \E x \in T : \A y \in T : y \subseteq x => y = x
  <1>1. IsWellFoundedOn(StrictSubsetOrdering(S), FiniteSubsetsOf(S))
    BY FS_StrictSubsetOrderingWellFounded
  <1>2. FiniteSubsetsOf(S) = SUBSET S
    BY FS_FiniteSubsetsOfFinite
  <1>3. \E x \in T : \A y \in T : ~(<<y, x>> \in StrictSubsetOrdering(S))
    BY <1>1, <1>2, WFMin
  <1> QED
    BY <1>3 DEF StrictSubsetOrdering

\* What holds of a set whenever it holds of its proper subsets holds of every
\* subset of a finite set.
LEMMA SubsetInduction ==
    ASSUME NEW S, IsFiniteSet(S), NEW T,
           \A s \in SUBSET S : (\A t \in SUBSET s : t # s => t \in T) => s \in T
    PROVE  SUBSET S \subseteq T
  <1> DEFINE U == {s \in SUBSET S : s \notin T}
  <1>1. U \subseteq SUBSET S
    OBVIOUS
  <1>2. ASSUME U # {} PROVE FALSE
    <2>1. PICK s \in U : \A y \in U : y \subseteq s => y = s
      <3> HIDE DEF U
      <3> QED
        BY <1>1, <1>2, SmallestSubset
    <2>2. \A t \in SUBSET s : t # s => t \in T
      BY <2>1
    <2> QED
      BY <2>2
  <1> QED
    BY <1>2

\* A nonempty set of natural numbers has a least one.
LEMMA LeastNatural ==
    ASSUME NEW T, T \subseteq Nat, T # {}
    PROVE  \E n \in T : \A m \in T : n <= m
  <1>1. PICK n \in T : TRUE
    OBVIOUS
  <1> DEFINE S == 0..n
             I == {0..m : m \in {k \in T : k <= n}}
  <1>2. I \subseteq SUBSET S /\ I # {}
    <2>1. 0..n \in I
      BY <1>1
    <2>2. \A m \in T : m <= n => 0..m \subseteq 0..n
      BY <1>1
    <2> QED
      BY <2>1, <2>2
  <1>3. IsFiniteSet(S)
    BY <1>1, FS_Interval
  <1> HIDE DEF S, I
  <1>4. PICK x \in I : \A y \in I : y \subseteq x => y = x
    BY <1>2, <1>3, SmallestSubset
  <1>5. PICK l \in T : l <= n /\ x = 0..l
    BY <1>4 DEF I
  <1>6. ASSUME NEW m \in T, m < l PROVE FALSE
    <2>1. m <= n /\ m \in Nat /\ l \in Nat /\ n \in Nat
      BY <1>1, <1>5, <1>6
    <2>2. 0..m \in I
      BY <2>1 DEF I
    <2>3. 0..m \subseteq x
      BY <2>1, <1>5, <1>6
    <2>4. l \in 0..l /\ ~(l \in 0..m)
      BY <2>1, <1>6
    <2> QED
      BY <1>4, <1>5, <2>2, <2>3, <2>4
  <1> QED
    BY <1>5, <1>6

\* What holds of 0 and of the number after each it holds of, up to n.
LEMMA UpTo ==
    ASSUME NEW n \in Nat, NEW T, 0 \in T,
           \A i \in 1..n : i - 1 \in T => i \in T
    PROVE  0..n \subseteq T
  <1> DEFINE U == {i \in 0..n : i \notin T}
  <1>1. U \subseteq Nat
    OBVIOUS
  <1>2. ASSUME U # {} PROVE FALSE
    <2>1. PICK i \in U : \A j \in U : i <= j
      <3> HIDE DEF U
      <3> QED
        BY <1>1, <1>2, LeastNatural
    <2>2. i \in 1..n /\ i - 1 \in 0..n /\ ~(i <= i - 1)
      OBVIOUS
    <2>3. i - 1 \in T
      BY <2>1, <2>2
    <2> QED
      BY <2>2, <2>3
  <1> QED
    BY <1>2

\* A function given by its first value and by each value from the one before.
Steps(g, n, b, step) == g[0] = b /\ \A i \in 1..n : g[i] = step[<<i, g[i - 1]>>]

LEMMA RecursionExists ==
    ASSUME NEW n \in Nat, NEW V, NEW b \in V, NEW step \in [(1..n) \X V -> V]
    PROVE  \E g \in [0..n -> V] : Steps(g, n, b, step)
  <1> DEFINE Defines(g, k) == /\ g \in [0..k -> V] /\ g[0] = b
                              /\ \A i \in 1..k : g[i] = step[<<i, g[i - 1]>>]
             T == {k \in 0..n : \E g : Defines(g, k)}
  <1>1. 0 \in T
    <2> DEFINE g == [i \in 0..0 |-> b]
    <2>1. g \in [0..0 -> V] /\ g[0] = b
      OBVIOUS
    <2>2. \A i \in 1..0 : FALSE
      OBVIOUS
    <2>3. Defines(g, 0)
      <3> HIDE DEF g
      <3> QED
        BY <2>1, <2>2
    <2>4. \E f : Defines(f, 0)
      <3> HIDE DEF g, Defines
      <3> QED
        BY <2>3
    <2>5. 0 \in 0..n
      OBVIOUS
    <2> HIDE DEF Defines
    <2> QED
      BY <2>4, <2>5
  <1>2. ASSUME NEW k \in 1..n, k - 1 \in T PROVE k \in T
    <2>1. PICK g : Defines(g, k - 1)
      BY <1>2
    <2> DEFINE h == [i \in 0..k |-> IF i = k THEN step[<<k, g[k - 1]>>] ELSE g[i]]
    <2>2. g[k - 1] \in V /\ <<k, g[k - 1]>> \in (1..n) \X V
      BY <2>1
    <2>3. step[<<k, g[k - 1]>>] \in V
      BY <2>2
    <2>4. \A i \in 0..k : i # k => i \in 0..(k - 1) /\ h[i] = g[i] /\ g[i] \in V
      BY <2>1
    <2>5. h \in [0..k -> V] /\ h[0] = b
      BY <2>1, <2>3, <2>4
    <2>6. ASSUME NEW i \in 1..k PROVE h[i] = step[<<i, h[i - 1]>>]
      <3>1. h[i - 1] = g[i - 1]
        BY <2>4
      <3>2. CASE i = k
        <4>1. h[k] = step[<<k, g[k - 1]>>] /\ h[k - 1] = g[k - 1]
          BY <2>4
        <4> HIDE DEF h
        <4> QED
          BY <3>2, <4>1
      <3>3. CASE i # k
        <4>1. i \in 1..(k - 1) /\ h[i] = g[i]
          BY <3>3
        <4>2. g[i] = step[<<i, g[i - 1]>>]
          BY <2>1, <4>1
        <4> QED
          BY <3>1, <4>1, <4>2
      <3> QED
        BY <3>2, <3>3
    <2>7. Defines(h, k)
      <3> HIDE DEF h
      <3> QED
        BY <2>5, <2>6
    <2>8. \E f : Defines(f, k)
      <3> HIDE DEF h, Defines
      <3> QED
        BY <2>7
    <2>9. k \in 0..n
      OBVIOUS
    <2> HIDE DEF Defines
    <2> QED
      BY <2>8, <2>9
  <1>3. 0..n \subseteq T
    <2> HIDE DEF T
    <2> QED
      BY <1>1, <1>2, UpTo
  <1>4. n \in T
    <2> HIDE DEF T
    <2> QED
      BY <1>3
  <1>5. PICK g : Defines(g, n)
    BY <1>4
  <1> QED
    BY <1>5 DEF Steps

-----------------------------------------------------------------------------
(* The equation of a sum.                                                  *)

Pick(s) == CHOOSE x \in s : TRUE

\* g tells the sum of f over each subset of S.
Sums(g, f, S) ==
    g = [s \in SUBSET S |-> IF s = {} THEN 0 ELSE f[Pick(s)] + g[s \ {Pick(s)}]]

LEMMA PickIn == \A s : s # {} => Pick(s) \in s
  BY DEF Pick

LEMMA SumsOfSubset ==
    ASSUME NEW f, NEW S, NEW g, Sums(g, f, S), NEW t \in SUBSET S
    PROVE  Sums([u \in SUBSET t |-> g[u]], f, t)
  <1> DEFINE h == [u \in SUBSET t |-> g[u]]
  <1>1. \A u \in SUBSET t : h[u] = IF u = {} THEN 0 ELSE f[Pick(u)] + h[u \ {Pick(u)}]
    <2> SUFFICES ASSUME NEW u \in SUBSET t
                 PROVE  h[u] = IF u = {} THEN 0 ELSE f[Pick(u)] + h[u \ {Pick(u)}]
      OBVIOUS
    <2>1. u \in SUBSET S /\ u \ {Pick(u)} \in SUBSET t
      OBVIOUS
    <2>2. g[u] = IF u = {} THEN 0 ELSE f[Pick(u)] + g[u \ {Pick(u)}]
      BY <2>1 DEF Sums
    <2> QED
      BY <2>1, <2>2
  <1> QED
    BY <1>1 DEF Sums

LEMMA SumsUnique ==
    ASSUME NEW f, NEW S, IsFiniteSet(S), NEW g, NEW h, Sums(g, f, S), Sums(h, f, S)
    PROVE  g = h
  <1> DEFINE T == {s \in SUBSET S : g[s] # h[s]}
  <1>1. ASSUME T # {} PROVE FALSE
    <2>0. T \subseteq SUBSET S
      OBVIOUS
    <2>1. PICK s \in T : \A y \in T : y \subseteq s => y = s
      <3> HIDE DEF T
      <3> QED
        BY <1>1, <2>0, SmallestSubset
    <2>2. s # {} => s \ {Pick(s)} \in SUBSET S /\ s \ {Pick(s)} # s
      BY PickIn
    <2>3. s # {} => g[s \ {Pick(s)}] = h[s \ {Pick(s)}]
      BY <2>1, <2>2
    <2>4. g[s] = h[s]
      BY <2>3 DEF Sums
    <2> QED
      BY <2>4
  <1>2. g = [s \in SUBSET S |-> g[s]] /\ h = [s \in SUBSET S |-> h[s]]
    BY DEF Sums
  <1> QED
    BY <1>1, <1>2

LEMMA SumsExist ==
    ASSUME NEW f, NEW S, IsFiniteSet(S)
    PROVE  \E g : Sums(g, f, S)
  <1> DEFINE T == {s \in SUBSET S : ~ \E g : Sums(g, f, s)}
             G(t) == CHOOSE g : Sums(g, f, t)
  <1>1. ASSUME T # {} PROVE FALSE
    <2>0. T \subseteq SUBSET S
      OBVIOUS
    <2>1. PICK s \in T : \A y \in T : y \subseteq s => y = s
      <3> HIDE DEF T
      <3> QED
        BY <1>1, <2>0, SmallestSubset
    <2>2. \A t \in SUBSET s : t # s => Sums(G(t), f, t)
      BY <2>1
    <2> DEFINE rest(t) == t \ {Pick(t)}
               h == [t \in SUBSET s |-> IF t = {} THEN 0 ELSE f[Pick(t)] + G(rest(t))[rest(t)]]
    <2>3. \A t \in SUBSET s : t # {} => rest(t) \in SUBSET s /\ rest(t) # s
      BY PickIn
    <2>4. ASSUME NEW t \in SUBSET s, t # s, t # {}
          PROVE  G(t)[rest(t)] = G(rest(t))[rest(t)]
      <3>1. Sums(G(t), f, t) /\ Sums(G(rest(t)), f, rest(t))
        BY <2>2, <2>3, <2>4
      <3>2. rest(t) \in SUBSET t /\ IsFiniteSet(rest(t))
        BY FS_Subset
      <3> HIDE DEF G, rest
      <3>3. Sums([u \in SUBSET rest(t) |-> G(t)[u]], f, rest(t))
        BY <3>1, <3>2, SumsOfSubset
      <3>4. [u \in SUBSET rest(t) |-> G(t)[u]] = G(rest(t))
        BY <3>1, <3>2, <3>3, SumsUnique
      <3>5. rest(t) \in SUBSET rest(t)
        OBVIOUS
      <3> QED
        BY <3>4, <3>5
    <2>5. ASSUME NEW t \in SUBSET s, t # s PROVE h[t] = G(t)[t]
      <3>1. Sums(G(t), f, t)
        BY <2>2, <2>5
      <3> HIDE DEF G
      <3>2. G(t)[t] = IF t = {} THEN 0 ELSE f[Pick(t)] + G(t)[rest(t)]
        BY <3>1 DEF Sums
      <3> QED
        BY <3>2, <2>4, <2>5
    <2>6. \A t \in SUBSET s : t # {} => h[rest(t)] = G(rest(t))[rest(t)]
      BY <2>3, <2>5
    <2>7. Sums(h, f, s)
      <3> HIDE DEF G
      <3>1. h = [t \in SUBSET s |-> IF t = {} THEN 0 ELSE f[Pick(t)] + h[rest(t)]]
        BY <2>6
      <3> HIDE DEF h
      <3> QED
        BY <3>1 DEF Sums
    <2> QED
      BY <2>1, <2>7
  <1> QED
    BY <1>1

\* A sum over a finite set is an element's value and the sum over the others.
LEMMA SumStep ==
    ASSUME NEW f, NEW S, IsFiniteSet(S)
    PROVE  SumFunctionOnSet(f, S) =
              IF S = {} THEN 0
              ELSE f[Pick(S)] + SumFunctionOnSet(f, S \ {Pick(S)})
  <1> DEFINE G(t) == CHOOSE g : Sums(g, f, t)
  <1>1. \A t : SumFunctionOnSet(f, t) = G(t)[t]
    BY DEF SumFunctionOnSet, FoldFunctionOnSet, MapThenFoldSet, Sums, Pick
  <1>2. \A t \in SUBSET S : IsFiniteSet(t) /\ Sums(G(t), f, t)
    BY FS_Subset, SumsExist
  <1> HIDE DEF G
  <1> DEFINE r == S \ {Pick(S)}
  <1>3. G(S)[S] = IF S = {} THEN 0 ELSE f[Pick(S)] + G(S)[r]
    BY <1>2 DEF Sums
  <1>4. Sums([u \in SUBSET r |-> G(S)[u]], f, r)
    BY <1>2, SumsOfSubset
  <1>5. [u \in SUBSET r |-> G(S)[u]] = G(r)
    BY <1>2, <1>4, SumsUnique
  <1>6. G(S)[r] = G(r)[r]
    BY <1>5
  <1> QED
    BY <1>1, <1>3, <1>6

-----------------------------------------------------------------------------
(* What follows from it.                                                   *)

LEMMA SumEmpty ==
    ASSUME NEW f
    PROVE  SumFunctionOnSet(f, {}) = 0
  BY SumStep, FS_EmptySet

LEMMA SumInt ==
    ASSUME NEW f, NEW S, IsFiniteSet(S), \A x \in S : f[x] \in Int
    PROVE  SumFunctionOnSet(f, S) \in Int
  <1> DEFINE T == {s \in SUBSET S : SumFunctionOnSet(f, s) \in Int}
  <1>1. ASSUME NEW s \in SUBSET S, \A t \in SUBSET s : t # s => t \in T
        PROVE  SumFunctionOnSet(f, s) \in Int
    <2>1. IsFiniteSet(s)
      BY FS_Subset
    <2>2. s # {} => Pick(s) \in s /\ s \ {Pick(s)} \in SUBSET s /\ s \ {Pick(s)} # s
      BY PickIn
    <2>3. s # {} => f[Pick(s)] \in Int /\ SumFunctionOnSet(f, s \ {Pick(s)}) \in Int
      BY <1>1, <2>2
    <2> QED
      BY <2>1, <2>3, SumStep
  <1>2. \A s \in SUBSET S : (\A t \in SUBSET s : t # s => t \in T) => s \in T
    BY <1>1
  <1>3. SUBSET S \subseteq T
    <2> HIDE DEF T
    <2> QED
      BY <1>2, SubsetInduction
  <1> QED
    BY <1>3

\* A sum does not depend on the order its elements are taken in.
LEMMA SumAny ==
    ASSUME NEW f, NEW S, IsFiniteSet(S), \A x \in S : f[x] \in Int, NEW x \in S
    PROVE  SumFunctionOnSet(f, S) = f[x] + SumFunctionOnSet(f, S \ {x})
  <1> DEFINE sum(s) == SumFunctionOnSet(f, s)
             T == {s \in SUBSET S : \A y \in s : sum(s) = f[y] + sum(s \ {y})}
  <1>0. \A s \in SUBSET S : sum(s) \in Int
    BY FS_Subset, SumInt
  <1>1. ASSUME NEW s \in SUBSET S, \A t \in SUBSET s : t # s => t \in T, NEW y \in s
        PROVE  sum(s) = f[y] + sum(s \ {y})
    <2> DEFINE p == Pick(s)
               r == s \ {y, p}
    <2>1. p \in s /\ r \in SUBSET S /\ f[p] \in Int /\ f[y] \in Int
      BY PickIn
    <2>2. sum(s) = f[p] + sum(s \ {p})
      BY FS_Subset, SumStep
    <2>3. CASE p = y
      BY <2>2, <2>3
    <2>4. CASE p # y
      <3>1. /\ s \ {p} \in SUBSET s /\ s \ {p} # s /\ y \in s \ {p} /\ (s \ {p}) \ {y} = r
            /\ s \ {y} \in SUBSET s /\ s \ {y} # s /\ p \in s \ {y} /\ (s \ {y}) \ {p} = r
        BY <2>1, <2>4
      <3> HIDE DEF p, r, sum
      <3>2. sum(s \ {p}) = f[y] + sum(r)
        BY <1>1, <3>1
      <3>3. sum(s \ {y}) = f[p] + sum(r)
        BY <1>1, <3>1
      <3>4. sum(r) \in Int
        BY <1>0, <2>1
      <3> QED
        BY <2>1, <2>2, <3>2, <3>3, <3>4
    <2> QED
      BY <2>3, <2>4
  <1>2. \A s \in SUBSET S : (\A t \in SUBSET s : t # s => t \in T) => s \in T
    BY <1>1
  <1>3. SUBSET S \subseteq T
    <2> HIDE DEF T
    <2> QED
      BY <1>2, SubsetInduction
  <1> QED
    BY <1>3

\* A sum that is at most another element by element is at most the other.
LEMMA SumMonotone ==
    ASSUME NEW f, NEW g, NEW S, IsFiniteSet(S),
           \A x \in S : f[x] \in Int /\ g[x] \in Int /\ f[x] <= g[x]
    PROVE  SumFunctionOnSet(f, S) <= SumFunctionOnSet(g, S)
  <1> DEFINE T == {s \in SUBSET S : SumFunctionOnSet(f, s) <= SumFunctionOnSet(g, s)}
  <1>1. ASSUME NEW s \in SUBSET S, \A t \in SUBSET s : t # s => t \in T
        PROVE  SumFunctionOnSet(f, s) <= SumFunctionOnSet(g, s)
    <2>1. IsFiniteSet(s)
      BY FS_Subset
    <2>2. CASE s = {}
      BY <2>2, SumEmpty
    <2>3. CASE s # {}
      <3> DEFINE p == Pick(s)
                 r == s \ {p}
      <3>1. p \in s /\ r \in SUBSET s /\ r # s
        BY <2>3, PickIn
      <3>2. IsFiniteSet(r)
        BY <2>1, <3>1, FS_Subset
      <3>3. SumFunctionOnSet(f, r) \in Int /\ SumFunctionOnSet(g, r) \in Int
        BY <3>1, <3>2, SumInt
      <3>4. SumFunctionOnSet(f, r) <= SumFunctionOnSet(g, r)
        BY <1>1, <3>1
      <3>5. /\ SumFunctionOnSet(f, s) = f[p] + SumFunctionOnSet(f, r)
            /\ SumFunctionOnSet(g, s) = g[p] + SumFunctionOnSet(g, r)
        BY <2>1, <2>3, SumStep
      <3>6. f[p] \in Int /\ g[p] \in Int /\ f[p] <= g[p]
        BY <3>1
      <3> HIDE DEF p, r
      <3> QED
        BY <3>3, <3>4, <3>5, <3>6
    <2> QED
      BY <2>2, <2>3
  <1>2. \A s \in SUBSET S : (\A t \in SUBSET s : t # s => t \in T) => s \in T
    BY <1>1
  <1>3. SUBSET S \subseteq T
    <2> HIDE DEF T
    <2> QED
      BY <1>2, SubsetInduction
  <1> QED
    BY <1>3

\* Sums of the same values are the same.
LEMMA SumSame ==
    ASSUME NEW f, NEW g, NEW S, IsFiniteSet(S), \A x \in S : f[x] \in Int /\ f[x] = g[x]
    PROVE  SumFunctionOnSet(f, S) = SumFunctionOnSet(g, S)
  <1>1. /\ SumFunctionOnSet(f, S) <= SumFunctionOnSet(g, S)
        /\ SumFunctionOnSet(g, S) <= SumFunctionOnSet(f, S)
    BY SumMonotone
  <1>2. SumFunctionOnSet(f, S) \in Int /\ SumFunctionOnSet(g, S) \in Int
    BY SumInt
  <1> QED
    BY <1>1, <1>2

LEMMA SumNat ==
    ASSUME NEW f, NEW S, IsFiniteSet(S), \A x \in S : f[x] \in Nat
    PROVE  SumFunctionOnSet(f, S) \in Nat
  <1> DEFINE T == {s \in SUBSET S : SumFunctionOnSet(f, s) \in Nat}
  <1>1. ASSUME NEW s \in SUBSET S, \A t \in SUBSET s : t # s => t \in T
        PROVE  SumFunctionOnSet(f, s) \in Nat
    <2>1. IsFiniteSet(s)
      BY FS_Subset
    <2>2. s # {} => Pick(s) \in s /\ s \ {Pick(s)} \in SUBSET s /\ s \ {Pick(s)} # s
      BY PickIn
    <2>3. s # {} => f[Pick(s)] \in Nat /\ SumFunctionOnSet(f, s \ {Pick(s)}) \in Nat
      BY <1>1, <2>2
    <2> QED
      BY <2>1, <2>3, SumStep
  <1>2. \A s \in SUBSET S : (\A t \in SUBSET s : t # s => t \in T) => s \in T
    BY <1>1
  <1>3. SUBSET S \subseteq T
    <2> HIDE DEF T
    <2> QED
      BY <1>2, SubsetInduction
  <1> QED
    BY <1>3

\* One value changed: the sum changes by as much.
LEMMA SumChange ==
    ASSUME NEW f, NEW g, NEW S, IsFiniteSet(S), NEW x \in S,
           \A y \in S : f[y] \in Int /\ g[y] \in Int,
           \A y \in S \ {x} : f[y] = g[y]
    PROVE  SumFunctionOnSet(g, S) = SumFunctionOnSet(f, S) - f[x] + g[x]
  <1> DEFINE r == S \ {x}
  <1>1. IsFiniteSet(r)
    BY FS_Subset
  <1>2. SumFunctionOnSet(f, r) = SumFunctionOnSet(g, r) /\ SumFunctionOnSet(f, r) \in Int
    BY <1>1, SumSame, SumInt
  <1>3. /\ SumFunctionOnSet(f, S) = f[x] + SumFunctionOnSet(f, r)
        /\ SumFunctionOnSet(g, S) = g[x] + SumFunctionOnSet(g, r)
    BY SumAny
  <1> HIDE DEF r
  <1> QED
    BY <1>2, <1>3

\* The sum over two sets that have nothing in common.
LEMMA SumUnion ==
    ASSUME NEW f, NEW A, NEW B, IsFiniteSet(A), IsFiniteSet(B), A \cap B = {},
           \A x \in A \cup B : f[x] \in Int
    PROVE  SumFunctionOnSet(f, A \cup B) = SumFunctionOnSet(f, A) + SumFunctionOnSet(f, B)
  <1> DEFINE sum(s) == SumFunctionOnSet(f, s)
             T == {s \in SUBSET B : sum(A \cup s) = sum(A) + sum(s)}
  <1>1. ASSUME NEW s \in SUBSET B, \A t \in SUBSET s : t # s => t \in T
        PROVE  sum(A \cup s) = sum(A) + sum(s)
    <2>1. IsFiniteSet(s) /\ IsFiniteSet(A \cup s) /\ sum(A) \in Int
      BY FS_Subset, FS_Union, SumInt
    <2>2. CASE s = {}
      <3>1. A \cup s = A /\ sum(s) = 0
        BY <2>2, SumEmpty
      <3>2. sum(A \cup s) = sum(A)
        BY <3>1
      <3> HIDE DEF sum
      <3>3. sum(A) + sum(s) = sum(A)
        BY <2>1, <3>1
      <3> QED
        BY <3>2, <3>3
    <2>3. CASE s # {}
      <3> DEFINE p == Pick(s)
                 r == s \ {p}
      <3>1. /\ p \in s /\ r \in SUBSET s /\ r # s /\ (A \cup s) \ {p} = A \cup r
            /\ f[p] \in Int /\ IsFiniteSet(r)
        BY <2>1, <2>3, PickIn, FS_Subset
      <3>2. sum(A \cup s) = f[p] + sum((A \cup s) \ {p})
        BY <2>1, <3>1, SumAny
      <3>3. sum(s) = f[p] + sum(r)
        BY <2>1, <2>3, SumStep
      <3>4. r \in T
        BY <1>1, <3>1
      <3>5. sum(A \cup r) = sum(A) + sum(r)
        BY <3>4
      <3>6. sum(r) \in Int
        BY <3>1, SumInt
      <3>7. sum(A \cup s) = f[p] + sum(A \cup r)
        BY <3>1, <3>2
      <3> HIDE DEF p, r, sum, T
      <3>8. sum(A) \in Int /\ f[p] \in Int
        BY <2>1, <3>1
      <3> QED
        BY <3>3, <3>5, <3>6, <3>7, <3>8
    <2> QED
      BY <2>2, <2>3
  <1>2. \A s \in SUBSET B : (\A t \in SUBSET s : t # s => t \in T) => s \in T
    BY <1>1
  <1>3. SUBSET B \subseteq T
    <2> HIDE DEF T
    <2> QED
      BY <1>2, SubsetInduction
  <1> QED
    BY <1>3

\* Each element is in one of the n parts.
Partition(part, n, S) == /\ \A k \in 1..n : part[k] \subseteq S
                         /\ \A x \in S : \E k \in 1..n : x \in part[k]
                         /\ \A k, l \in 1..n : k # l => part[k] \cap part[l] = {}
SumsOfParts(g, f, part, n) == \A k \in 1..n : g[k] = SumFunctionOnSet(f, part[k])

\* The sums over the parts of a set add up to the sum over the set.
LEMMA SumParts ==
    ASSUME NEW n \in Nat, NEW f, NEW S, IsFiniteSet(S), \A x \in S : f[x] \in Int,
           NEW part, Partition(part, n, S), NEW g, SumsOfParts(g, f, part, n)
    PROVE  SumFunctionOnSet(g, 1..n) = SumFunctionOnSet(f, S)
  <1> USE DEF Partition, SumsOfParts
  <1> DEFINE upTo(j) == {x \in S : \E k \in 1..j : x \in part[k]}
             T == {j \in 0..n : SumFunctionOnSet(g, 1..j) = SumFunctionOnSet(f, upTo(j))}
  <1>1. 0 \in T
    <2>1. 1..0 = {} /\ upTo(0) = {} /\ 0 \in 0..n
      OBVIOUS
    <2> HIDE DEF upTo
    <2> QED
      BY <2>1, SumEmpty
  <1>2. ASSUME NEW j \in 1..n, j - 1 \in T PROVE j \in T
    <2>1. /\ j \in 0..n /\ j \in Nat /\ IsFiniteSet(1..j) /\ j \in 1..j
          /\ (1..j) \ {j} = 1..(j - 1)
      BY FS_Interval
    <2>2. /\ IsFiniteSet(upTo(j - 1)) /\ IsFiniteSet(part[j])
          /\ \A k \in 1..n : IsFiniteSet(part[k])
      BY FS_Subset
    <2>3. upTo(j) = upTo(j - 1) \cup part[j]
      <3>1. \A k \in 1..j : k \in 1..(j - 1) \/ k = j
        OBVIOUS
      <3>2. \A k \in 1..(j - 1) : k \in 1..j
        OBVIOUS
      <3> QED
        BY <2>1, <3>1, <3>2
    <2>4. upTo(j - 1) \cap part[j] = {}
      <3>1. \A k \in 1..(j - 1) : k \in 1..n /\ k # j
        OBVIOUS
      <3> QED
        BY <3>1
    <2>5. SumFunctionOnSet(f, upTo(j)) =
              SumFunctionOnSet(f, upTo(j - 1)) + SumFunctionOnSet(f, part[j])
      <3> DEFINE A == upTo(j - 1)
      <3>1. \A x \in A \cup part[j] : f[x] \in Int
        OBVIOUS
      <3> HIDE DEF A
      <3>2. SumFunctionOnSet(f, A \cup part[j]) =
                SumFunctionOnSet(f, A) + SumFunctionOnSet(f, part[j])
        BY <2>2, <2>4, <3>1, SumUnion DEF A
      <3> HIDE DEF upTo
      <3> QED
        BY <2>3, <3>2 DEF A
    <2>6. \A k \in 1..j : g[k] \in Int
      <3>1. \A k \in 1..j : k \in 1..n
        OBVIOUS
      <3>2. \A k \in 1..n : SumFunctionOnSet(f, part[k]) \in Int
        BY <2>2, SumInt
      <3> QED
        BY <3>1, <3>2
    <2>7. SumFunctionOnSet(g, 1..j) = g[j] + SumFunctionOnSet(g, 1..(j - 1))
      <3>1. SumFunctionOnSet(g, 1..j) = g[j] + SumFunctionOnSet(g, (1..j) \ {j})
        BY <2>1, <2>6, SumAny
      <3> QED
        BY <2>1, <3>1
    <2>8. SumFunctionOnSet(g, 1..(j - 1)) = SumFunctionOnSet(f, upTo(j - 1))
      BY <1>2
    <2>9. SumFunctionOnSet(f, upTo(j - 1)) \in Int /\ g[j] \in Int
      BY <2>1, <2>2, <2>6, SumInt
    <2>10. g[j] = SumFunctionOnSet(f, part[j])
      OBVIOUS
    <2>11. SumFunctionOnSet(g, 1..j) = SumFunctionOnSet(f, upTo(j))
      <3> DEFINE before == SumFunctionOnSet(f, upTo(j - 1))
                 here == SumFunctionOnSet(f, part[j])
      <3>1. before \in Int /\ here \in Int
        BY <2>9, <2>10
      <3>2. SumFunctionOnSet(f, upTo(j)) = before + here
        BY <2>5
      <3>3. SumFunctionOnSet(g, 1..j) = here + before
        BY <2>7, <2>8, <2>10
      <3> HIDE DEF before, here
      <3>4. before + here = here + before
        BY <3>1
      <3> QED
        BY <3>2, <3>3, <3>4
    <2> QED
      BY <2>1, <2>11
  <1>3. 0..n \subseteq T
    <2> HIDE DEF T
    <2> QED
      BY <1>1, <1>2, UpTo
  <1>4. SumFunctionOnSet(g, 1..n) = SumFunctionOnSet(f, upTo(n))
    <2>1. n \in 0..n
      OBVIOUS
    <2> QED
      BY <1>3, <2>1
  <1>5. upTo(n) = S
    OBVIOUS
  <1> HIDE DEF upTo
  <1> QED
    BY <1>4, <1>5

\* A sum of ones is the number of elements.
LEMMA SumOnes ==
    ASSUME NEW f, NEW S, IsFiniteSet(S), \A x \in S : f[x] = 1
    PROVE  SumFunctionOnSet(f, S) = Cardinality(S)
  <1> DEFINE T == {s \in SUBSET S : SumFunctionOnSet(f, s) = Cardinality(s)}
  <1>1. ASSUME NEW s \in SUBSET S, \A t \in SUBSET s : t # s => t \in T
        PROVE  SumFunctionOnSet(f, s) = Cardinality(s)
    <2>1. IsFiniteSet(s)
      BY FS_Subset
    <2>2. CASE s = {}
      BY <2>2, SumEmpty, FS_EmptySet
    <2>3. CASE s # {}
      <3> DEFINE p == Pick(s)
                 r == s \ {p}
      <3>1. p \in s /\ r \in SUBSET s /\ r # s /\ f[p] = 1
        BY <2>3, PickIn
      <3>2. SumFunctionOnSet(f, s) = f[p] + SumFunctionOnSet(f, r)
        BY <2>1, <2>3, SumStep
      <3>3. SumFunctionOnSet(f, r) = Cardinality(r)
        BY <1>1, <3>1
      <3>4. Cardinality(r) = Cardinality(s) - 1 /\ Cardinality(s) \in Nat
        BY <2>1, <3>1, FS_RemoveElement, FS_CardinalityType
      <3> HIDE DEF p, r
      <3> QED
        BY <3>1, <3>2, <3>3, <3>4
    <2> QED
      BY <2>2, <2>3
  <1>2. \A s \in SUBSET S : (\A t \in SUBSET s : t # s => t \in T) => s \in T
    BY <1>1
  <1>3. SUBSET S \subseteq T
    <2> HIDE DEF T
    <2> QED
      BY <1>2, SubsetInduction
  <1> QED
    BY <1>3

\* A nonempty finite set of numbers has a least and a greatest one.
LEMMA Bounds ==
    ASSUME NEW S, IsFiniteSet(S), S \subseteq Int, S # {}
    PROVE  /\ \E m \in S : \A x \in S : m <= x
           /\ \E m \in S : \A x \in S : m >= x
  <1> DEFINE Bounded(s) == /\ \E m \in s : \A x \in s : m <= x
                           /\ \E m \in s : \A x \in s : m >= x
             T == {s \in SUBSET S : s # {} => Bounded(s)}
  <1>1. ASSUME NEW s \in SUBSET S, s # {}, \A t \in SUBSET s : t # s => t \in T
        PROVE  Bounded(s)
    <2> DEFINE p == Pick(s)
               r == s \ {p}
    <2>0. p \in s
      BY <1>1, PickIn
    <2>1. p \in s /\ r \in SUBSET s /\ r # s /\ p \in Int /\ s = r \cup {p} /\ r \subseteq Int
      <3> HIDE DEF p
      <3> QED
        BY <2>0
    <2>2. r = {} \/ Bounded(r)
      BY <1>1, <2>1
    <2> HIDE DEF p, r
    <2>3. CASE r = {}
      BY <2>1, <2>3
    <2>4. CASE Bounded(r)
      <3>1. PICK l \in r : \A x \in r : l <= x
        BY <2>4
      <3>2. PICK g \in r : \A x \in r : g >= x
        BY <2>4
      <3>3. \E m \in s : \A x \in s : m <= x
        <4>1. CASE p <= l
          BY <2>1, <3>1, <4>1
        <4>2. CASE ~(p <= l)
          <5>1. \A x \in s : l <= x
            BY <2>1, <3>1, <4>2
          <5> QED
            BY <2>1, <5>1
        <4> QED
          BY <4>1, <4>2
      <3>4. \E m \in s : \A x \in s : m >= x
        <4>1. CASE p >= g
          BY <2>1, <3>2, <4>1
        <4>2. CASE ~(p >= g)
          <5>1. \A x \in s : g >= x
            BY <2>1, <3>2, <4>2
          <5> QED
            BY <2>1, <5>1
        <4> QED
          BY <4>1, <4>2
      <3> QED
        BY <3>3, <3>4
    <2> QED
      BY <2>2, <2>3, <2>4
  <1>2. \A s \in SUBSET S : (\A t \in SUBSET s : t # s => t \in T) => s \in T
    <2> HIDE DEF Bounded
    <2> QED
      BY <1>1
  <1>3. SUBSET S \subseteq T
    <2> HIDE DEF T
    <2> QED
      BY <1>2, SubsetInduction
  <1> QED
    BY <1>3
=============================================================================
