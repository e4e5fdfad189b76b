----------------------------- MODULE SumTheorems -----------------------------
(***************************************************************************)
(* Facts about sums over a finite set, and the induction they rest on.     *)
(*                                                                         *)
(* The library's induction theorems take the induction hypothesis as an    *)
(* operator.  Here it is a set, the set of the arguments it holds of, and  *)
(* the theorems follow from WFMin: a non-empty set of natural numbers has  *)
(* a least element.                                                        *)
(***************************************************************************)
EXTENDS Integers, FiniteSetsExt, FiniteSetTheorems, WellFoundedInduction, TLAPS

(* `<` on the natural numbers, as a set of pairs.                            *)
Less == OpToRel(<, Nat)

(* It is the relation and well-founded.                                      *)
LEMMA LessIsLess ==
    IsWellFoundedOn(Less, Nat) /\ \A x, y \in Nat : y < x => <<y, x>> \in Less
  <1>1. IsWellFoundedOn(Less, Nat)
    BY NatLessThanWellFounded, Zenon DEF Less
  <1>2. Less = {ss \in Nat \X Nat : ss[1] < ss[2]}
    BY Zenon DEF Less, OpToRel
  <1> QED BY <1>1, <1>2

(* A non-empty set of natural numbers has a least element.                   *)
LEMMA HasLeast ==
    ASSUME NEW T, T \subseteq Nat, T # {}
    PROVE  \E x \in T : \A y \in T : x <= y
  <1>1. PICK x \in T : \A y \in T : <<y, x>> \notin Less
    BY LessIsLess, WFMin, Zenon
  <1>2. ASSUME NEW y \in T
        PROVE  x <= y
    <2>1. x \in Nat /\ y \in Nat
      OBVIOUS
    <2>2. ~(y < x)
      BY <1>1, <2>1, LessIsLess, Zenon
    <2> QED BY <2>1, <2>2
  <1> QED BY <1>2

(* The maximum of a non-empty set of natural numbers up to n is in the set.  *)
LEMMA HasGreatest ==
    ASSUME NEW n \in Nat, NEW S, S \subseteq 0..n, S # {}
    PROVE  Max(S) \in S
  <1> DEFINE T == {n - k : k \in S}
  <1>1. \A k \in S : n - k \in Nat
    OBVIOUS
  <1>2. T \subseteq Nat /\ T # {}
    BY <1>1
  <1> HIDE DEF T
  <1>3. PICK x \in T : \A y \in T : x <= y
    BY <1>2, HasLeast
  <1>4. PICK m \in S : x = n - m
    BY DEF T
  <1>5. ASSUME NEW k \in S
        PROVE  m >= k
    <2>1. n - k \in T
      BY DEF T
    <2>2. n - m <= n - k
      BY <1>3, <1>4, <2>1
    <2> QED BY <2>2
  <1> QED BY <1>5 DEF Max

(* Induction over the natural numbers.                                       *)
LEMMA NumberInduction ==
    ASSUME NEW T, 0 \in T, \A n \in Nat : n \in T => n + 1 \in T
    PROVE  Nat \subseteq T
  <1> SUFFICES ASSUME Nat \ T # {} PROVE FALSE
    OBVIOUS
  <1>1. PICK x \in Nat \ T : \A y \in Nat \ T : x <= y
    BY HasLeast
  <1>2. x # 0 /\ x - 1 \in Nat
    BY <1>1
  <1>3. x - 1 \in T
    BY <1>1, <1>2
  <1>4. (x - 1) + 1 \in T
    BY <1>2, <1>3
  <1> QED BY <1>1, <1>4

(* Induction over the subsets of a finite set, one chosen element at a time. *)
Chosen(s) == CHOOSE x \in s : TRUE

LEMMA SubsetInduction ==
    ASSUME NEW S, IsFiniteSet(S), NEW T, {} \in T,
           \A s \in SUBSET S : s # {} /\ s \ {Chosen(s)} \in T => s \in T
    PROVE  SUBSET S \subseteq T
  <1> DEFINE N == {n \in Nat : \A s \in SUBSET S : Cardinality(s) = n => s \in T}
  <1>1. \A s \in SUBSET S : IsFiniteSet(s) /\ Cardinality(s) \in Nat
    BY FS_Subset, FS_CardinalityType
  <1>2. 0 \in N
    BY <1>1, FS_EmptySet
  <1>3. ASSUME NEW n \in Nat, n \in N
        PROVE  n + 1 \in N
    <2>1. ASSUME NEW s \in SUBSET S, Cardinality(s) = n + 1
          PROVE  s \in T
      <3>1. s # {}
        BY <2>1, FS_EmptySet
      <3>2. Chosen(s) \in s
        BY <3>1 DEF Chosen
      <3>3. s \ {Chosen(s)} \in SUBSET S /\ Cardinality(s \ {Chosen(s)}) = n
        BY <1>1, <2>1, <3>2, FS_RemoveElement
      <3> QED BY <1>3, <3>1, <3>3
    <2> QED BY <2>1
  <1> HIDE DEF N
  <1>4. Nat \subseteq N
    BY <1>2, <1>3, NumberInduction
  <1> QED BY <1>1, <1>4 DEF N

-----------------------------------------------------------------------------
(* The sum of f over S.                                                      *)
SumOf(f, S) == MapThenSumSet(LAMBDA i : f[i], S)

\* The recursion behind it.
Fold(f, g, s) == IF s = {} THEN 0 ELSE f[Chosen(s)] + g[s \ {Chosen(s)}]
Partial(f, S) == CHOOSE g : g = [s \in SUBSET S |-> Fold(f, g, s)]

(* The library's fold is that recursion.                                     *)
LEMMA SumIsPartial ==
    ASSUME NEW f, NEW S
    PROVE  SumOf(f, S) = Partial(f, S)[S]
  BY Zenon DEF SumOf, Partial, Fold, Chosen, MapThenSumSet, MapThenFoldSet

(* A function satisfies it.                                                  *)
LEMMA FoldExists ==
    ASSUME NEW S, IsFiniteSet(S), NEW f \in [S -> Int]
    PROVE  \E g \in [SUBSET S -> Int] : g = [s \in SUBSET S |-> Fold(f, g, s)]
  <1> DEFINE UpTo(n, g) == \A s \in SUBSET S : Cardinality(s) <= n => g[s] = Fold(f, g, s)
             N == {n \in Nat : \E g \in [SUBSET S -> Int] : UpTo(n, g)}
  <1>1. \A s \in SUBSET S : IsFiniteSet(s) /\ Cardinality(s) \in Nat
    BY FS_Subset, FS_CardinalityType
  <1>2. \A s \in SUBSET S : s # {} =>
            /\ Chosen(s) \in S /\ s \ {Chosen(s)} \in SUBSET S
            /\ Cardinality(s \ {Chosen(s)}) = Cardinality(s) - 1
    <2>1. ASSUME NEW s \in SUBSET S, s # {}
          PROVE  /\ Chosen(s) \in S /\ s \ {Chosen(s)} \in SUBSET S
                 /\ Cardinality(s \ {Chosen(s)}) = Cardinality(s) - 1
      <3>1. Chosen(s) \in s
        BY <2>1 DEF Chosen
      <3> QED BY <1>1, <3>1, FS_RemoveElement
    <2> QED BY <2>1
  <1>3. ASSUME NEW g \in [SUBSET S -> Int], NEW s \in SUBSET S
        PROVE  Fold(f, g, s) \in Int
    <2>1. s # {} => f[Chosen(s)] \in Int /\ g[s \ {Chosen(s)}] \in Int
      BY <1>2
    <2> QED BY <2>1 DEF Fold
  <1>4. 0 \in N
    <2> DEFINE g == [s \in SUBSET S |-> 0]
    <2>1. g \in [SUBSET S -> Int]
      OBVIOUS
    <2>2. ASSUME NEW s \in SUBSET S, Cardinality(s) <= 0
          PROVE  g[s] = Fold(f, g, s)
      <3>1. Cardinality(s) = 0
        BY <1>1, <2>2
      <3>2. s = {}
        BY <1>1, <3>1, FS_EmptySet
      <3> QED BY <3>2 DEF Fold
    <2> QED BY <2>1, <2>2
  <1>5. ASSUME NEW n \in Nat, n \in N
        PROVE  n + 1 \in N
    <2>1. PICK g \in [SUBSET S -> Int] : UpTo(n, g)
      BY <1>5
    <2> DEFINE h == [s \in SUBSET S |-> IF Cardinality(s) <= n THEN g[s] ELSE Fold(f, g, s)]
    <2>2. h \in [SUBSET S -> Int]
      BY <1>3
    <2>3. ASSUME NEW s \in SUBSET S, Cardinality(s) <= n + 1
          PROVE  h[s] = Fold(f, h, s)
      <3>1. h[s] = Fold(f, g, s)
        BY <2>1
      <3>2. s # {} => h[s \ {Chosen(s)}] = g[s \ {Chosen(s)}]
        BY <1>1, <1>2, <2>3
      <3> QED BY <3>1, <3>2 DEF Fold
    <2>4. UpTo(n + 1, h)
      BY <2>3
    <2> HIDE DEF h, UpTo
    <2> QED BY <2>2, <2>4
  <1>6. Cardinality(S) \in N
    <2> HIDE DEF N
    <2>1. Nat \subseteq N
      BY <1>4, <1>5, NumberInduction
    <2> QED BY <1>1, <2>1
  <1>7. PICK g \in [SUBSET S -> Int] : UpTo(Cardinality(S), g)
    BY <1>6
  <1>8. \A s \in SUBSET S : g[s] = Fold(f, g, s)
    <2>1. \A s \in SUBSET S : Cardinality(s) <= Cardinality(S)
      BY FS_Subset
    <2> QED BY <1>7, <2>1
  <1> QED BY <1>8

\* The partial sums of f.
IsFold(p, f, S) ==
    /\ p \in [SUBSET S -> Int] /\ p[{}] = 0
    /\ \A s \in SUBSET S : s # {} =>
          /\ Chosen(s) \in s /\ Chosen(s) \in S /\ s \ {Chosen(s)} \in SUBSET S
          /\ p[s] = f[Chosen(s)] + p[s \ {Chosen(s)}]

(* A sum is the last of the partial sums.                                    *)
LEMMA SumIsFold ==
    ASSUME NEW S, IsFiniteSet(S), NEW f \in [S -> Int]
    PROVE  \E p : IsFold(p, f, S) /\ SumOf(f, S) = p[S]
  <1> DEFINE p == Partial(f, S)
             T == {s \in SUBSET S : p[s] \in Int}
  <1>1. p = [s \in SUBSET S |-> Fold(f, p, s)]
    BY FoldExists DEF Partial
  <1>2. \A s \in SUBSET S : s # {} =>
            Chosen(s) \in s /\ Chosen(s) \in S /\ s \ {Chosen(s)} \in SUBSET S
    BY DEF Chosen
  <1>3. SumOf(f, S) = p[S]
    BY SumIsPartial
  <1> HIDE DEF p
  <1>4. \A s \in SUBSET S : p[s] = Fold(f, p, s)
    BY <1>1
  <1>5. p[{}] = 0 /\ \A s \in SUBSET S : s # {} => p[s] = f[Chosen(s)] + p[s \ {Chosen(s)}]
    BY <1>4 DEF Fold
  <1>6. SUBSET S \subseteq T
    <2>1. {} \in T
      BY <1>5
    <2>2. ASSUME NEW s \in SUBSET S, s # {}, s \ {Chosen(s)} \in T
          PROVE  s \in T
      BY <1>2, <1>5, <2>2
    <2> HIDE DEF T
    <2> QED BY <2>1, <2>2, SubsetInduction
  <1>7. p \in [SUBSET S -> Int]
    BY <1>1, <1>6
  <1> QED BY <1>2, <1>3, <1>5, <1>7 DEF IsFold

-----------------------------------------------------------------------------
(* A sum of natural numbers is one, and a sum of integers an integer.        *)
LEMMA SumType ==
    ASSUME NEW S, IsFiniteSet(S), NEW f \in [S -> Int]
    PROVE  /\ SumOf(f, S) \in Int
           /\ f \in [S -> Nat] => SumOf(f, S) \in Nat
  <1>1. PICK p : IsFold(p, f, S) /\ SumOf(f, S) = p[S]
    BY SumIsFold
  <1> USE DEF IsFold
  <1> DEFINE T == {s \in SUBSET S : p[s] >= 0}
  <1>2. ASSUME f \in [S -> Nat]
        PROVE  SUBSET S \subseteq T
    <2>1. {} \in T
      BY <1>1
    <2>2. ASSUME NEW s \in SUBSET S, s # {}, s \ {Chosen(s)} \in T
          PROVE  s \in T
      <3>1. f[Chosen(s)] \in Nat /\ p[s] = f[Chosen(s)] + p[s \ {Chosen(s)}]
        BY <1>1, <1>2, <2>2
      <3>2. p[s \ {Chosen(s)}] \in Int /\ p[s \ {Chosen(s)}] >= 0
        BY <1>1, <2>2
      <3> QED BY <3>1, <3>2
    <2> HIDE DEF T
    <2> QED BY <2>1, <2>2, SubsetInduction
  <1>3. p[S] \in Int /\ (f \in [S -> Nat] => p[S] >= 0)
    BY <1>1, <1>2
  <1> QED BY <1>1, <1>3

(* Terms in proportion a : b at most, sums too.                              *)
LEMMA SumInProportion ==
    ASSUME NEW S, IsFiniteSet(S), NEW f \in [S -> Int], NEW g \in [S -> Int],
           NEW a \in Nat, NEW b \in Nat, \A i \in S : a * f[i] <= b * g[i]
    PROVE  a * SumOf(f, S) <= b * SumOf(g, S)
  <1>1. PICK p : IsFold(p, f, S) /\ SumOf(f, S) = p[S]
    BY SumIsFold
  <1>2. PICK q : IsFold(q, g, S) /\ SumOf(g, S) = q[S]
    BY SumIsFold
  <1> USE DEF IsFold
  <1> DEFINE T == {s \in SUBSET S : a * p[s] <= b * q[s]}
  <1>3. {} \in T
    BY <1>1, <1>2
  <1>4. ASSUME NEW s \in SUBSET S, s # {}, s \ {Chosen(s)} \in T
        PROVE  s \in T
    <2>1. PICK c \in S, r \in SUBSET S :
              /\ a * p[r] <= b * q[r] /\ p[s] = f[c] + p[r] /\ q[s] = g[c] + q[r]
      BY <1>1, <1>2, <1>4
    <2>2. p[r] \in Int /\ q[r] \in Int /\ f[c] \in Int /\ g[c] \in Int
      BY <1>1, <1>2
    <2>3. a * (f[c] + p[r]) <= b * (g[c] + q[r])
      BY <2>1, <2>2
    <2> QED BY <2>1, <2>3
  <1>5. SUBSET S \subseteq T
    <2> HIDE DEF T
    <2> QED BY <1>3, <1>4, SubsetInduction
  <1> QED BY <1>1, <1>2, <1>5

(* Terms that are no larger have a sum that is no larger.                    *)
LEMMA SumMonotone ==
    ASSUME NEW S, IsFiniteSet(S), NEW f \in [S -> Int], NEW g \in [S -> Int],
           \A i \in S : f[i] <= g[i]
    PROVE  SumOf(f, S) <= SumOf(g, S)
  <1>1. \A i \in S : 1 * f[i] <= 1 * g[i]
    OBVIOUS
  <1>2. 1 * SumOf(f, S) <= 1 * SumOf(g, S)
    BY <1>1, SumInProportion
  <1> QED BY <1>2, SumType

(* The sum of differences.                                                   *)
LEMMA SumOfDifferences ==
    ASSUME NEW S, IsFiniteSet(S), NEW f \in [S -> Int], NEW g \in [S -> Int],
           NEW h \in [S -> Int], \A i \in S : h[i] = f[i] - g[i]
    PROVE  SumOf(h, S) = SumOf(f, S) - SumOf(g, S)
  <1>1. PICK p : IsFold(p, f, S) /\ SumOf(f, S) = p[S]
    BY SumIsFold
  <1>2. PICK q : IsFold(q, g, S) /\ SumOf(g, S) = q[S]
    BY SumIsFold
  <1>3. PICK d : IsFold(d, h, S) /\ SumOf(h, S) = d[S]
    BY SumIsFold
  <1> USE DEF IsFold
  <1> DEFINE T == {s \in SUBSET S : d[s] = p[s] - q[s]}
  <1>4. {} \in T
    BY <1>1, <1>2, <1>3
  <1>5. ASSUME NEW s \in SUBSET S, s # {}, s \ {Chosen(s)} \in T
        PROVE  s \in T
    <2>1. PICK c \in S, r \in SUBSET S :
              /\ d[r] = p[r] - q[r] /\ p[s] = f[c] + p[r] /\ q[s] = g[c] + q[r]
              /\ d[s] = h[c] + d[r]
      BY <1>1, <1>2, <1>3, <1>5
    <2>2. p[r] \in Int /\ q[r] \in Int /\ f[c] \in Int /\ g[c] \in Int
      BY <1>1, <1>2
    <2>3. d[s] = p[s] - q[s]
      BY <2>1, <2>2
    <2> QED BY <2>3
  <1>6. SUBSET S \subseteq T
    <2> HIDE DEF T
    <2> QED BY <1>4, <1>5, SubsetInduction
  <1> QED BY <1>1, <1>2, <1>3, <1>6

(* One term that is not zero is the whole sum.                               *)
LEMMA SumOfOne ==
    ASSUME NEW S, IsFiniteSet(S), NEW i \in S, NEW v \in Int, NEW h \in [S -> Int],
           \A j \in S : h[j] = IF j = i THEN v ELSE 0
    PROVE  SumOf(h, S) = v
  <1>1. PICK d : IsFold(d, h, S) /\ SumOf(h, S) = d[S]
    BY SumIsFold
  <1> USE DEF IsFold
  <1> DEFINE T == {s \in SUBSET S : d[s] = IF i \in s THEN v ELSE 0}
  <1>2. {} \in T
    BY <1>1
  <1>3. ASSUME NEW s \in SUBSET S, s # {}, s \ {Chosen(s)} \in T
        PROVE  s \in T
    <2>1. PICK c \in s : c \in S /\ s \ {c} \in T /\ d[s] = h[c] + d[s \ {c}]
      BY <1>1, <1>3
    <2>2. d[s \ {c}] = IF i \in s \ {c} THEN v ELSE 0
      BY <2>1
    <2>3. d[s] = IF i \in s THEN v ELSE 0
      BY <2>1, <2>2
    <2> QED BY <2>3
  <1>4. SUBSET S \subseteq T
    <2> HIDE DEF T
    <2> QED BY <1>2, <1>3, SubsetInduction
  <1> QED BY <1>1, <1>4

(* Changing one term.                                                        *)
LEMMA SumChange ==
    ASSUME NEW S, IsFiniteSet(S), NEW f \in [S -> Int], NEW g \in [S -> Int],
           NEW i \in S, \A j \in S \ {i} : g[j] = f[j]
    PROVE  SumOf(g, S) = SumOf(f, S) - f[i] + g[i]
  <1>1. f[i] \in Int /\ g[i] \in Int
    OBVIOUS
  <1>2. PICK u \in Int : u = f[i] - g[i]
    BY <1>1
  <1>3. PICK h \in [S -> Int] : \A j \in S : h[j] = IF j = i THEN u ELSE 0
    <2>1. [j \in S |-> IF j = i THEN u ELSE 0] \in [S -> Int]
      OBVIOUS
    <2> QED BY <2>1
  <1>4. \A j \in S : g[j] = f[j] - h[j]
    BY <1>2, <1>3
  <1>5. SumOf(h, S) = u
    BY <1>3, SumOfOne
  <1>6. SumOf(g, S) = SumOf(f, S) - SumOf(h, S)
    BY <1>4, SumOfDifferences
  <1>7. SumOf(f, S) \in Int
    BY SumType
  <1> QED BY <1>1, <1>2, <1>5, <1>6, <1>7

(* The same of natural numbers, as the accounts of a ledger use it.          *)
LEMMA NatSumChange ==
    ASSUME NEW S, IsFiniteSet(S), NEW f \in [S -> Nat], NEW g \in [S -> Nat],
           NEW i \in S, \A j \in S \ {i} : g[j] = f[j]
    PROVE  /\ SumOf(f, S) \in Nat /\ f[i] \in Nat /\ g[i] \in Nat
           /\ SumOf(g, S) = SumOf(f, S) - f[i] + g[i]
  <1>1. f \in [S -> Int] /\ g \in [S -> Int] /\ f[i] \in Nat /\ g[i] \in Nat
    OBVIOUS
  <1>2. SumOf(f, S) \in Nat
    BY <1>1, SumType
  <1>3. SumOf(g, S) = SumOf(f, S) - f[i] + g[i]
    BY <1>1, SumChange
  <1> QED BY <1>1, <1>2, <1>3

(* A sum of nothing.                                                         *)
LEMMA ZeroSum ==
    ASSUME NEW S, IsFiniteSet(S), NEW f \in [S -> Int], \A i \in S : f[i] = 0
    PROVE  SumOf(f, S) = 0
  <1>1. \A i \in S : f[i] = f[i] - f[i]
    OBVIOUS
  <1>2. SumOf(f, S) = SumOf(f, S) - SumOf(f, S)
    BY <1>1, SumOfDifferences
  <1> QED BY <1>2, SumType

(* Zeros add nothing.                                                        *)
LEMMA SumOverSubset ==
    ASSUME NEW S, IsFiniteSet(S), NEW R \in SUBSET S, NEW g \in [R -> Int],
           NEW h \in [S -> Int], \A i \in S : h[i] = IF i \in R THEN g[i] ELSE 0
    PROVE  SumOf(h, S) = SumOf(g, R)
  <1> DEFINE Ext(s) == [i \in S |-> IF i \in s THEN g[i] ELSE 0]
  <1>1. IsFiniteSet(R)
    BY FS_Subset
  <1>2. PICK p : IsFold(p, g, R) /\ SumOf(g, R) = p[R]
    BY <1>1, SumIsFold
  <1> USE DEF IsFold
  <1> DEFINE T == {s \in SUBSET R : SumOf(Ext(s), S) = p[s]}
  <1>3. {} \in T
    <2> DEFINE z == Ext({})
    <2>1. z \in [S -> Int] /\ \A i \in S : z[i] = 0
      OBVIOUS
    <2> HIDE DEF z
    <2>2. SumOf(z, S) = 0
      BY <2>1, ZeroSum
    <2> QED BY <1>2, <2>2 DEF z
  <1>4. ASSUME NEW s \in SUBSET R, s # {}, s \ {Chosen(s)} \in T
        PROVE  s \in T
    <2>1. PICK c \in s : /\ c \in R /\ s \ {c} \in T
                         /\ p[s] = g[c] + p[s \ {c}] /\ p[s \ {c}] \in Int
      BY <1>2, <1>4
    <2> DEFINE x == Ext(s \ {c})
               y == Ext(s)
    <2>2. x \in [S -> Int] /\ y \in [S -> Int] /\ x[c] = 0 /\ y[c] = g[c]
          /\ g[c] \in Int /\ \A j \in S \ {c} : y[j] = x[j]
      BY <2>1
    <2>3. SumOf(x, S) = p[s \ {c}]
      BY <2>1
    <2> HIDE DEF x, y
    <2>4. SumOf(y, S) = SumOf(x, S) - x[c] + y[c]
      BY <2>1, <2>2, SumChange
    <2>5. SumOf(y, S) = p[s]
      BY <2>1, <2>2, <2>3, <2>4
    <2> QED BY <2>5 DEF y
  <1>5. R \in T
    <2> HIDE DEF T
    <2> QED BY <1>1, <1>3, <1>4, SubsetInduction
  <1>6. h = Ext(R)
    OBVIOUS
  <1> QED BY <1>2, <1>5, <1>6

(* A sequence of one more term.                                              *)
LEMMA SumOfOneMore ==
    ASSUME NEW n \in Nat, NEW f \in [1..n -> Int], NEW g \in [1..(n + 1) -> Int],
           \A i \in 1..n : g[i] = f[i]
    PROVE  SumOf(g, 1..(n + 1)) = SumOf(f, 1..n) + g[n + 1]
  <1> DEFINE h == [i \in 1..(n + 1) |-> IF i \in 1..n THEN f[i] ELSE 0]
  <1>1. IsFiniteSet(1..(n + 1)) /\ 1..n \in SUBSET (1..(n + 1)) /\ n + 1 \in 1..(n + 1)
    BY FS_Interval
  <1>2. /\ h \in [1..(n + 1) -> Int] /\ h[n + 1] = 0
        /\ \A i \in 1..(n + 1) : h[i] = IF i \in 1..n THEN f[i] ELSE 0
        /\ \A i \in (1..(n + 1)) \ {n + 1} : g[i] = h[i]
    OBVIOUS
  <1> HIDE DEF h
  <1>3. SumOf(h, 1..(n + 1)) = SumOf(f, 1..n)
    BY <1>1, <1>2, SumOverSubset
  <1>4. SumOf(g, 1..(n + 1)) = SumOf(h, 1..(n + 1)) - h[n + 1] + g[n + 1]
    BY <1>1, <1>2, SumChange
  <1>5. SumOf(h, 1..(n + 1)) \in Int
    BY <1>1, <1>2, SumType
  <1> QED BY <1>2, <1>3, <1>4, <1>5

(* No term of a sum of natural numbers exceeds the sum.                      *)
LEMMA TermWithinSum ==
    ASSUME NEW S, IsFiniteSet(S), NEW f \in [S -> Nat], NEW i \in S
    PROVE  f[i] <= SumOf(f, S)
  <1> DEFINE h == [j \in S |-> IF j = i THEN f[i] ELSE 0]
  <1>1. f \in [S -> Int] /\ h \in [S -> Int] /\ f[i] \in Int /\ \A j \in S : h[j] <= f[j]
    OBVIOUS
  <1>2. \A j \in S : h[j] = IF j = i THEN f[i] ELSE 0
    OBVIOUS
  <1> HIDE DEF h
  <1>3. SumOf(h, S) = f[i]
    BY <1>1, <1>2, SumOfOne
  <1>4. SumOf(h, S) <= SumOf(f, S)
    BY <1>1, SumMonotone
  <1> QED BY <1>3, <1>4

(* Shares of a pot that are rounded down fit the pot.                        *)
LEMMA SharesFit ==
    ASSUME NEW S, IsFiniteSet(S), NEW w \in [S -> Nat], NEW pot \in Nat,
           NEW total \in Nat \ {0}, SumOf(w, S) <= total
    PROVE  LET e == [i \in S |-> (w[i] * pot) \div total]
           IN  e \in [S -> Nat] /\ SumOf(e, S) \in Nat /\ SumOf(e, S) <= pot
  <1> DEFINE e == [i \in S |-> (w[i] * pot) \div total]
  <1>1. ASSUME NEW i \in S
        PROVE  e[i] \in Nat /\ total * e[i] <= pot * w[i]
    <2> DEFINE n == w[i] * pot
    <2>1. n \in Nat /\ pot * w[i] = n /\ w[i] \in Nat
      OBVIOUS
    <2> HIDE DEF n
    <2>2. n \div total \in Nat /\ total * (n \div total) <= n
      BY <2>1
    <2> QED BY <2>1, <2>2 DEF n
  <1>2. e \in [S -> Nat]
    BY <1>1
  <1> HIDE DEF e
  <1>3. total * SumOf(e, S) <= pot * SumOf(w, S)
    BY <1>1, <1>2, SumInProportion
  <1>4. SumOf(e, S) \in Nat /\ SumOf(w, S) \in Nat
    BY <1>2, SumType
  <1>5. pot * SumOf(w, S) <= pot * total
    BY <1>4
  <1>6. total * SumOf(e, S) <= total * pot
    BY <1>3, <1>4, <1>5
  <1>7. SumOf(e, S) <= pot
    BY <1>4, <1>6
  <1> QED BY <1>2, <1>4, <1>7 DEF e
=============================================================================
