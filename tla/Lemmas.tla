------------------------------- MODULE Lemmas -------------------------------
(***************************************************************************)
(* Lemmas of no module in particular that proofs about several use:        *)
(* numbers, division with remainder, iteration, finite sets and sums over  *)
(* them, circles of waiting, sequences.                                    *)
(***************************************************************************)
EXTENDS Integers, FiniteSetsExt, FiniteSetTheorems, SequenceTheorems,
        WellFoundedInduction, TLAPS

-----------------------------------------------------------------------------
(* Numbers.  Division numbers the members of groups.                       *)

\* A set of natural numbers has a least element.
LEMMA LeastElement ==
  ASSUME NEW S \in SUBSET Nat, S # {}
  PROVE  \E x \in S : \A y \in S : x <= y
<1>1. PICK x \in S : \A y \in S : <<y, x>> \notin OpToRel(<, Nat)
  BY NatLessThanWellFounded, WFMin, Zenon
<1>2. \A y \in S : ~(y < x)
  <2> TAKE y \in S
  <2>1. x \in Nat /\ y \in Nat
    OBVIOUS
  <2> QED
    BY <1>1, <2>1, Zenon DEF OpToRel
<1> QED
  BY <1>2

LEMMA Division ==
  ASSUME NEW n \in Nat \ {0}, NEW a \in Nat
  PROVE  a \div n \in Nat /\ a % n \in 0 .. n - 1 /\ a = (a \div n) * n + (a % n)
OBVIOUS

LEMMA SameRemainder ==
  ASSUME NEW n \in Nat \ {0}, NEW a \in Nat, NEW b \in Nat, NEW c \in Nat,
         a \div n = b \div n, c + (a \div n) + (a % n) = c + (b \div n) + (b % n)
  PROVE  a = b
<1>1. a \div n \in Nat /\ a % n \in 0 .. n - 1 /\ a = (a \div n) * n + (a % n)
  BY Division
<1>2. b \div n \in Nat /\ b % n \in 0 .. n - 1 /\ b = (b \div n) * n + (b % n)
  BY Division
<1>3. a % n = b % n
  BY <1>1, <1>2
<1> QED
  BY <1>1, <1>2, <1>3

\* A number determines the group and the place in a group of n.
LEMMA NumberOfMember ==
  ASSUME NEW n \in Nat \ {0}, NEW g \in Nat, NEW h \in Nat,
         NEW i \in 0 .. n - 1, NEW j \in 0 .. n - 1, g * n + i = h * n + j
  PROVE  g = h /\ i = j
<1>1. CASE g < h
  <2>1. g + 1 <= h
    BY <1>1
  <2>2. (g + 1) * n <= h * n
    BY <2>1
  <2> QED
    BY <2>2
<1>2. CASE h < g
  <2>1. h + 1 <= g
    BY <1>2
  <2>2. (h + 1) * n <= g * n
    BY <2>1
  <2> QED
    BY <2>2
<1> QED
  BY <1>1, <1>2

LEMMA PlaceOfMember ==
  ASSUME NEW n \in Nat \ {0}, NEW g \in Nat, NEW i \in 0 .. n - 1
  PROVE  (g * n + i) \div n = g /\ (g * n + i) % n = i
<1> DEFINE a == g * n + i
<1>1. a \in Nat
  OBVIOUS
<1>2. a \div n \in Nat /\ a % n \in 0 .. n - 1 /\ a = (a \div n) * n + (a % n)
  BY <1>1, Division
<1> HIDE DEF a
<1>3. g * n + i = (a \div n) * n + (a % n)
  BY <1>2 DEF a
<1> QED
  BY <1>2, <1>3, NumberOfMember DEF a

\* What holds of 0, and of n + 1 if of n, holds of all natural numbers.
LEMMA NatInductionOnSets ==
  ASSUME NEW Good, 0 \in Good, \A n \in Nat : n \in Good => n + 1 \in Good
  PROVE  Nat \subseteq Good
<1> DEFINE Bad == Nat \ Good
<1>1. SUFFICES ASSUME Bad # {} PROVE FALSE
  OBVIOUS
<1>2. PICK n \in Bad : \A m \in Bad : n <= m
  BY <1>1, LeastElement
<1>3. n \in Nat \ {0} /\ n - 1 \in Nat
  BY <1>2
<1>4. n - 1 \in Good
  BY <1>2, <1>3
<1> QED
  BY <1>2, <1>3, <1>4

\* There is a function that starts with a and goes on with step.
Iterates(f, a, step) == f = [i \in Nat |-> IF i = 0 THEN a ELSE step[f[i - 1]]]

LEMMA IterationExists ==
  ASSUME NEW T, NEW a \in T, NEW step \in [T -> T]
  PROVE  \E f \in [Nat -> T] : Iterates(f, a, step)
<1> DEFINE Upto(n, g) == g \in [0 .. n -> T] /\ g[0] = a /\ \A i \in 0 .. n : i # 0 => g[i] = step[g[i - 1]]
           Good == {n \in Nat : \E g : Upto(n, g)}
<1>1. 0 \in Good
  <2>1. Upto(0, [i \in 0 .. 0 |-> a])
    OBVIOUS
  <2> QED
    BY <2>1
<1>2. ASSUME NEW n \in Nat, n \in Good PROVE n + 1 \in Good
  <2>1. PICK g : Upto(n, g)
    BY <1>2
  <2> DEFINE h == [i \in 0 .. n + 1 |-> IF i = n + 1 THEN step[g[n]] ELSE g[i]]
  <2>2. h \in [0 .. n + 1 -> T]
    BY <2>1
  <2>3. h[0] = a
    BY <2>1
  <2>4. ASSUME NEW i \in 0 .. n + 1, i # 0 PROVE h[i] = step[h[i - 1]]
    BY <2>1, <2>4
  <2>5. Upto(n + 1, h)
    BY <2>2, <2>3, <2>4
  <2> QED
    BY <2>5
<1>3. Nat \subseteq Good
  <2> HIDE DEF Good
  <2> QED
    BY <1>1, <1>2, NatInductionOnSets
<1> DEFINE G == [n \in Nat |-> CHOOSE g : Upto(n, g)]
           f == [i \in Nat |-> G[i][i]]
<1>4. \A n \in Nat : Upto(n, G[n])
  BY <1>3
<1> HIDE DEF G, Upto
<1>5. ASSUME NEW n \in Nat PROVE \A i \in 0 .. n : G[n + 1][i] = G[n][i]
  <2> DEFINE Same == {i \in Nat : i <= n => G[n + 1][i] = G[n][i]}
  <2>1. Upto(n, G[n]) /\ Upto(n + 1, G[n + 1])
    BY <1>4
  <2>2. 0 \in Same
    BY <2>1 DEF Upto
  <2>3. ASSUME NEW i \in Nat, i \in Same PROVE i + 1 \in Same
    <3>1. SUFFICES ASSUME i + 1 <= n PROVE G[n + 1][i + 1] = G[n][i + 1]
      OBVIOUS
    <3>2. G[n + 1][i] = G[n][i]
      BY <2>3, <3>1
    <3>3. i + 1 \in 0 .. n /\ i + 1 \in 0 .. n + 1 /\ i + 1 # 0 /\ (i + 1) - 1 = i
      BY <3>1
    <3> QED
      BY <2>1, <3>2, <3>3 DEF Upto
  <2>4. Nat \subseteq Same
    <3> HIDE DEF Same
    <3> QED
      BY <2>2, <2>3, NatInductionOnSets
  <2> QED
    BY <2>4
<1>6. f \in [Nat -> T] /\ f[0] = a
  BY <1>4 DEF Upto
<1>7. ASSUME NEW i \in Nat, i # 0 PROVE f[i] = step[f[i - 1]]
  <2>1. i - 1 \in Nat /\ (i - 1) + 1 = i
    BY <1>7
  <2>2. Upto(i, G[i])
    BY <1>4
  <2>3. G[i][i - 1] = G[i - 1][i - 1]
    BY <1>5, <2>1
  <2>4. G[i][i] = step[G[i][i - 1]]
    BY <1>7, <2>2 DEF Upto
  <2> QED
    BY <2>1, <2>3, <2>4
<1> HIDE DEF f
<1>8. f = [i \in Nat |-> IF i = 0 THEN a ELSE step[f[i - 1]]]
  BY <1>6, <1>7
<1> QED
  BY <1>6, <1>8 DEF Iterates

-----------------------------------------------------------------------------
(* Finite sets.                                                            *)

\* What holds of a set if it holds of the set without any one of its elements
\* holds of all finite sets.
LEMMA SetInduction ==
  ASSUME NEW S, IsFiniteSet(S), NEW Good,
         \A s \in SUBSET S : (\A x \in s : s \ {x} \in Good) => s \in Good
  PROVE  \A s \in SUBSET S : s \in Good
<1> DEFINE Bad == {s \in SUBSET S : s \notin Good}
           Sizes == {Cardinality(s) : s \in Bad}
<1>1. \A s \in SUBSET S : IsFiniteSet(s) /\ Cardinality(s) \in Nat
  BY FS_Subset, FS_CardinalityType
<1>2. ASSUME Bad # {}
      PROVE  FALSE
  <2>1. Sizes \in SUBSET Nat /\ Sizes # {}
    BY <1>1, <1>2
  <2>2. PICK n \in Sizes : \A m \in Sizes : n <= m
    <3> HIDE DEF Sizes
    <3> QED
      BY <2>1, LeastElement
  <2>3. PICK s \in Bad : Cardinality(s) = n
    OBVIOUS
  <2>4. ASSUME NEW x \in s
        PROVE  s \ {x} \in Good
    <3>1. Cardinality(s \ {x}) = Cardinality(s) - 1
      BY <1>1, FS_RemoveElement
    <3>2. s \ {x} \in SUBSET S /\ Cardinality(s \ {x}) \notin Sizes
      <4>1. s \ {x} \in SUBSET S
        OBVIOUS
      <4>2. n \in Nat /\ Cardinality(s \ {x}) = n - 1
        BY <1>1, <2>3, <3>1
      <4>3. ASSUME Cardinality(s \ {x}) \in Sizes
            PROVE  n <= Cardinality(s \ {x})
        BY <2>2, <4>3, Zenon
      <4> HIDE DEF Sizes
      <4> QED
        BY ONLY <4>1, <4>2, <4>3
    <3>3. s \ {x} \in Bad => Cardinality(s \ {x}) \in Sizes
      OBVIOUS
    <3>4. s \ {x} \notin Good => s \ {x} \in Bad
      BY <3>2
    <3> QED
      BY <3>2, <3>3, <3>4
  <2> QED
    BY <2>4
<1> QED
  BY <1>2

LEMMA ImageFinite ==
  ASSUME NEW S, IsFiniteSet(S), NEW f
  PROVE  /\ IsFiniteSet({f[x] : x \in S})
         /\ Cardinality({f[x] : x \in S}) <= Cardinality(S)
<1> DEFINE T == {f[x] : x \in S}
           g == [x \in S |-> f[x]]
<1>1. g \in Surjection(S, T)
  BY DEF Surjection
<1> HIDE DEF g, T
<1>2. IsFiniteSet(T) /\ Cardinality(T) <= Cardinality(S)
  BY <1>1, FS_Surjection
<1> QED
  BY <1>2 DEF T

\* A rank on a finite set can be had with values below the size of the set.
LEMMA RankWithin ==
  ASSUME NEW S, IsFiniteSet(S), NEW rank \in [S -> Nat]
  PROVE  \E r \in [S -> 0 .. Cardinality(S)] :
           \A x, y \in S : rank[x] < rank[y] => r[x] < r[y]
<1> DEFINE Low(y) == {x \in S : rank[x] < rank[y]}
           r == [y \in S |-> Cardinality(Low(y))]
<1>1. ASSUME NEW y \in S
      PROVE  IsFiniteSet(Low(y)) /\ Cardinality(Low(y)) \in 0 .. Cardinality(S)
  <2>1. Low(y) \subseteq S
    OBVIOUS
  <2> HIDE DEF Low
  <2> QED
    BY <2>1, FS_Subset, FS_CardinalityType
<1>2. ASSUME NEW x \in S, NEW y \in S, rank[x] < rank[y]
      PROVE  r[x] < r[y]
  <2>1. rank[x] \in Nat /\ rank[y] \in Nat /\ \A z \in S : rank[z] \in Nat
    OBVIOUS
  <2>2. Low(x) \subseteq Low(y) /\ x \in Low(y) /\ x \notin Low(x)
    BY <1>2, <2>1
  <2>3. r[x] = Cardinality(Low(x)) /\ r[y] = Cardinality(Low(y))
    OBVIOUS
  <2>4. IsFiniteSet(Low(x)) /\ IsFiniteSet(Low(y))
    BY <1>1
  <2> HIDE DEF Low, r
  <2>5. Cardinality(Low(x)) <= Cardinality(Low(y)) /\ Cardinality(Low(x)) # Cardinality(Low(y))
    BY <2>2, <2>4, FS_Subset
  <2>6. Cardinality(Low(x)) \in Nat /\ Cardinality(Low(y)) \in Nat
    BY <2>4, FS_CardinalityType
  <2> QED
    BY <2>3, <2>5, <2>6
<1>3. r \in [S -> 0 .. Cardinality(S)]
  BY <1>1
<1> HIDE DEF r
<1> QED
  BY <1>2, <1>3

-----------------------------------------------------------------------------
(* Sums over finite sets, as MapThenSumSet computes them: it takes one     *)
(* element after the other, and which one comes first does not matter.     *)

SumOf(f, S) == MapThenSumSet(LAMBDA x : f[x], S)

\* it sums the values of f over each subset of S.
AddUp(f, it, s) ==
  IF s = {} THEN 0 ELSE LET x == CHOOSE x \in s : TRUE IN f[x] + it[s \ {x}]
Adds(f, S, it) == it = [s \in SUBSET S |-> AddUp(f, it, s)]

LEMMA SumByAdding ==
  ASSUME NEW f, NEW S
  PROVE  SumOf(f, S) = (CHOOSE it : Adds(f, S, it))[S]
BY DEF SumOf, MapThenSumSet, MapThenFoldSet, Adds, AddUp

\* There is a function that adds up f over the subsets of S.
LEMMA SumExists ==
  ASSUME NEW f, NEW S, IsFiniteSet(S)
  PROVE  \E it : Adds(f, S, it)
<1> DEFINE Small(n) == {s \in SUBSET S : Cardinality(s) <= n}
           Good == {n \in Nat : \E g : g = [s \in Small(n) |-> AddUp(f, g, s)]}
<1>1. \A s \in SUBSET S : IsFiniteSet(s) /\ Cardinality(s) \in Nat /\ Cardinality(s) <= Cardinality(S)
  BY FS_Subset, FS_CardinalityType
<1>2. 0 \in Good
  <2> DEFINE g == [s \in Small(0) |-> 0]
  <2>1. \A s \in Small(0) : s = {}
    <3>1. \A T : IsFiniteSet(T) => (Cardinality(T) = 0 <=> T = {})
      BY FS_EmptySet
    <3> QED
      BY <1>1, <3>1
  <2>2. \A s \in Small(0) : AddUp(f, g, s) = 0
    BY <2>1 DEF AddUp
  <2>3. g = [s \in Small(0) |-> AddUp(f, g, s)]
    BY <2>2
  <2> QED
    BY <2>3
<1>3. ASSUME NEW n \in Good
      PROVE  n + 1 \in Good
  <2>1. PICK g : g = [s \in Small(n) |-> AddUp(f, g, s)]
    OBVIOUS
  <2> DEFINE h == [s \in Small(n + 1) |-> AddUp(f, g, s)]
  <2>2. ASSUME NEW s \in Small(n + 1)
        PROVE  AddUp(f, h, s) = AddUp(f, g, s)
    <3>1. CASE s = {}
      BY <3>1 DEF AddUp
    <3>2. CASE s # {}
      <4> DEFINE x == CHOOSE x \in s : TRUE
      <4>1. x \in s
        BY <3>2
      <4>2. Cardinality(s \ {x}) = Cardinality(s) - 1
        BY <1>1, <4>1, FS_RemoveElement
      <4>3. s \ {x} \in Small(n) /\ s \ {x} \in Small(n + 1)
        BY <1>1, <4>2
      <4>4. h[s \ {x}] = g[s \ {x}]
        <5>1. g[s \ {x}] = AddUp(f, g, s \ {x})
          BY <2>1, <4>3
        <5>2. h[s \ {x}] = AddUp(f, g, s \ {x})
          BY <4>3
        <5> QED
          BY <5>1, <5>2
      <4> HIDE DEF h
      <4> QED
        BY <3>2, <4>4 DEF AddUp
    <3> QED
      BY <3>1, <3>2
  <2>3. h = [s \in Small(n + 1) |-> AddUp(f, h, s)]
    BY <2>2
  <2>4. n + 1 \in Nat
    OBVIOUS
  <2> HIDE DEF h, Small
  <2> QED
    BY <2>3, <2>4
<1>4. \A n \in Nat : n \in Good
  <2> HIDE DEF Good
  <2>1. ASSUME {n \in Nat : n \notin Good} # {}
        PROVE  FALSE
    <3>1. PICK n \in Nat : n \notin Good /\ \A m \in Nat : m \notin Good => n <= m
      BY <2>1, LeastElement
    <3>2. n # 0 /\ n - 1 \in Nat /\ n - 1 \in Good
      BY <1>2, <3>1
    <3>3. (n - 1) + 1 \in Good
      BY <1>3, <3>2
    <3> QED
      BY <3>1, <3>3
  <2> QED
    BY <2>1
<1>5. Cardinality(S) \in Good /\ Small(Cardinality(S)) = SUBSET S
  BY <1>1, <1>4, FS_CardinalityType
<1>6. PICK g : g = [s \in Small(Cardinality(S)) |-> AddUp(f, g, s)]
  BY <1>5
<1> QED
  BY <1>5, <1>6 DEF Adds

\* Such a function yields integers, and adds one element to the others,
\* whichever it is; it yields the same for each set that it covers.
AnyOrder(f, S, it) ==
  /\ it[{}] = 0
  /\ \A s \in SUBSET S : it[s] \in Int
  /\ \A s \in SUBSET S : \A y \in s : it[s] = f[y] + it[s \ {y}]

LEMMA AddsFacts ==
  ASSUME NEW S, IsFiniteSet(S), NEW f, \A x \in S : f[x] \in Int,
         NEW it, Adds(f, S, it)
  PROVE  AnyOrder(f, S, it)
<1>1. \A s \in SUBSET S : it[s] = AddUp(f, it, s)
  BY DEF Adds
<1>2. it[{}] = 0
  BY <1>1 DEF AddUp
<1>3. ASSUME NEW s \in SUBSET S, s # {}
      PROVE  \E x \in s : it[s] = f[x] + it[s \ {x}]
  BY <1>1, <1>3 DEF AddUp
<1>4. \A s \in SUBSET S : it[s] \in Int
  <2> DEFINE Good == {s \in SUBSET S : it[s] \in Int}
  <2>1. ASSUME NEW s \in SUBSET S, \A x \in s : s \ {x} \in Good
        PROVE  s \in Good
    <3>1. CASE s = {}
      BY <1>2, <3>1
    <3>2. CASE s # {}
      <4>1. PICK x \in s : it[s] = f[x] + it[s \ {x}]
        BY <1>3, <3>2
      <4>2. it[s \ {x}] \in Int /\ f[x] \in Int
        BY <2>1
      <4> QED
        BY <4>1, <4>2
    <3> QED
      BY <3>1, <3>2
  <2> HIDE DEF Good
  <2>2. \A s \in SUBSET S : s \in Good
    BY <2>1, SetInduction
  <2> QED
    BY <2>2 DEF Good
<1>5. \A s \in SUBSET S : \A y \in s : it[s] = f[y] + it[s \ {y}]
  <2> DEFINE Good == {s \in SUBSET S : \A y \in s : it[s] = f[y] + it[s \ {y}]}
  <2>1. ASSUME NEW s \in SUBSET S, \A x \in s : s \ {x} \in Good
        PROVE  s \in Good
    <3> SUFFICES ASSUME NEW y \in s PROVE it[s] = f[y] + it[s \ {y}]
      OBVIOUS
    <3>1. PICK x \in s : it[s] = f[x] + it[s \ {x}]
      BY <1>3
    <3>2. CASE x = y
      BY <3>1, <3>2
    <3>3. CASE x # y
      <4>1. it[s \ {x}] = f[y] + it[(s \ {x}) \ {y}]
        BY <2>1, <3>3
      <4>2. it[s \ {y}] = f[x] + it[(s \ {y}) \ {x}]
        BY <2>1, <3>3
      <4>3. (s \ {x}) \ {y} = (s \ {y}) \ {x}
        OBVIOUS
      <4>4. f[x] \in Int /\ f[y] \in Int /\ it[(s \ {x}) \ {y}] \in Int
        BY <1>4
      <4>5. PICK r \in Int : it[s \ {x}] = f[y] + r /\ it[s \ {y}] = f[x] + r
        BY <4>1, <4>2, <4>3, <4>4
      <4> QED
        BY <3>1, <4>4, <4>5
    <3> QED
      BY <3>2, <3>3
  <2> HIDE DEF Good
  <2>2. \A s \in SUBSET S : s \in Good
    BY <2>1, SetInduction
  <2> QED
    BY <2>2 DEF Good
<1> QED
  BY <1>2, <1>4, <1>5 DEF AnyOrder

LEMMA AddsAgree ==
  ASSUME NEW S, IsFiniteSet(S), NEW T \in SUBSET S, NEW f,
         NEW it, Adds(f, S, it), NEW jt, Adds(f, T, jt)
  PROVE  jt[T] = it[T]
<1> DEFINE Good == {s \in SUBSET T : jt[s] = it[s]}
<1>1. ASSUME NEW s \in SUBSET T, \A x \in s : s \ {x} \in Good
      PROVE  s \in Good
  <2>1. jt[s] = AddUp(f, jt, s) /\ it[s] = AddUp(f, it, s)
    BY DEF Adds
  <2>2. CASE s = {}
    BY <2>1, <2>2 DEF AddUp
  <2>3. CASE s # {}
    <3>1. (CHOOSE x \in s : TRUE) \in s
      BY <2>3
    <3>2. jt[s \ {CHOOSE x \in s : TRUE}] = it[s \ {CHOOSE x \in s : TRUE}]
      BY <1>1, <3>1
    <3> HIDE DEF Good
    <3>3. AddUp(f, jt, s) = AddUp(f, it, s)
      BY <2>3, <3>2 DEF AddUp
    <3> QED
      BY <2>1, <3>3 DEF Good
  <2> QED
    BY <2>2, <2>3
<1> HIDE DEF Good
<1>2. IsFiniteSet(T)
  BY FS_Subset
<1>3. \A s \in SUBSET T : s \in Good
  BY <1>1, <1>2, SetInduction
<1> QED
  BY <1>3 DEF Good

\* The sum over a set is the sum over the rest of it and any one element.
LEMMA SumFacts ==
  ASSUME NEW S, IsFiniteSet(S), NEW f, \A x \in S : f[x] \in Int
  PROVE  /\ SumOf(f, {}) = 0
         /\ \A s \in SUBSET S : SumOf(f, s) \in Int
         /\ \A s \in SUBSET S : \A y \in s : SumOf(f, s) = f[y] + SumOf(f, s \ {y})
<1>1. PICK it : Adds(f, S, it)
  BY SumExists
<1>2. ASSUME NEW s \in SUBSET S
      PROVE  SumOf(f, s) = it[s]
  <2>1. \E jt : Adds(f, s, jt)
    BY FS_Subset, SumExists
  <2>2. Adds(f, s, CHOOSE g : Adds(f, s, g))
    BY <2>1, Zenon
  <2>3. PICK jt : Adds(f, s, jt) /\ jt = CHOOSE g : Adds(f, s, g)
    BY <2>2
  <2>4. jt[s] = it[s]
    BY <1>1, <2>3, AddsAgree
  <2> QED
    BY <2>3, <2>4, SumByAdding
<1>3. AnyOrder(f, S, it)
  BY <1>1, AddsFacts
<1>4. \A s \in SUBSET S : \A y \in s : s \ {y} \in SUBSET S
  OBVIOUS
<1> QED
  BY <1>2, <1>3, <1>4 DEF AnyOrder

\* No summand is negative, nor is the sum.
LEMMA SumBound ==
  ASSUME NEW S, IsFiniteSet(S), NEW f, \A x \in S : f[x] \in Nat
  PROVE  \A s \in SUBSET S : SumOf(f, s) \in Nat
<1> DEFINE Good == {s \in SUBSET S : SumOf(f, s) \in Nat}
<1>1. /\ SumOf(f, {}) = 0
      /\ \A s \in SUBSET S : \A y \in s : SumOf(f, s) = f[y] + SumOf(f, s \ {y})
  BY SumFacts
<1>2. ASSUME NEW s \in SUBSET S, \A x \in s : s \ {x} \in Good
      PROVE  s \in Good
  <2>1. CASE s = {}
    BY <1>1, <2>1
  <2>2. CASE s # {}
    <3>1. PICK x \in s : TRUE
      BY <2>2
    <3>2. SumOf(f, s \ {x}) \in Nat /\ f[x] \in Nat
      BY <1>2
    <3>3. SumOf(f, s) = f[x] + SumOf(f, s \ {x})
      BY <1>1
    <3> QED
      BY <3>2, <3>3
  <2> QED
    BY <2>1, <2>2
<1> HIDE DEF Good
<1>3. \A s \in SUBSET S : s \in Good
  BY <1>2, SetInduction
<1> QED
  BY <1>3 DEF Good

-----------------------------------------------------------------------------
(* Circles of waiting.  Of pairs of a place and the places that somebody   *)
(* there waits for, round after round drops those with a way out; what is  *)
(* left may be blocked for ever (Blocked of module WalkProps).             *)

BlockedAfter(waits, n) ==
  LET B[i \in Nat] ==
        IF i = 0 THEN {w[1] : w \in waits}
        ELSE LET S == B[i - 1] IN {w[1] : w \in {v \in waits : v[1] \in S /\ v[2] \subseteq S}}
  IN B[n]

\* Nothing is blocked if everybody who waits may go to a place of a lower rank,
\* or to one where nobody waits.
LEMMA RanksUnblock ==
  ASSUME NEW waits, NEW n \in Nat, NEW rank \in [{w[1] : w \in waits} -> 0 .. n - 1],
         \A w \in waits : \E x \in w[2] : x \in {v[1] : v \in waits} => rank[x] < rank[w[1]]
  PROVE  BlockedAfter(waits, n) = {}
<1> DEFINE all == {w[1] : w \in waits}
           T == SUBSET all
           Stuck(S) == {w[1] : w \in {v \in waits : v[1] \in S /\ v[2] \subseteq S}}
           step == [S \in T |-> Stuck(S)]
           Body(f) == [i \in Nat |-> IF i = 0 THEN all ELSE Stuck(f[i - 1])]
           B == CHOOSE f : f = Body(f)
<1>1. all \in T /\ step \in [T -> T]
  OBVIOUS
<1>0. /\ rank \in [all -> 0 .. n - 1]
      /\ \A w \in waits : w[1] \in all /\ \E x \in w[2] : x \in all => rank[x] < rank[w[1]]
  OBVIOUS
<1> HIDE DEF T, all, Stuck
<1>2. PICK f \in [Nat -> T] : Iterates(f, all, step)
  <2> HIDE DEF step
  <2> QED
    BY <1>1, IterationExists
<1>3. f = Body(f)
  <2>1. \A i \in Nat : i # 0 => step[f[i - 1]] = Stuck(f[i - 1])
    OBVIOUS
  <2> HIDE DEF step
  <2> QED
    BY <1>2, <2>1 DEF Iterates
<1>4. B = Body(B)
  <2> HIDE DEF Body
  <2> QED
    BY <1>3
<1>5. B[0] = all /\ \A i \in Nat : B[i + 1] = Stuck(B[i])
  <2> HIDE DEF B
  <2>1. \A i \in Nat : i + 1 \in Nat /\ i + 1 # 0 /\ (i + 1) - 1 = i
    OBVIOUS
  <2>2. \A i \in Nat : B[i] = IF i = 0 THEN all ELSE Stuck(B[i - 1])
    BY <1>4
  <2> QED
    BY <2>1, <2>2
<1>6. BlockedAfter(waits, n) = B[n]
  BY DEF BlockedAfter, all, Stuck
<1> HIDE DEF B
\* After i rounds the places that are left have ranks of at least i.
<1> DEFINE Good == {i \in Nat : \A vc \in B[i] : vc \in all /\ rank[vc] >= i}
<1>7. \A vc \in all : rank[vc] \in 0 .. n - 1
  BY <1>0
<1>8. 0 \in Good
  BY <1>5, <1>7
<1>9. ASSUME NEW i \in Nat, i \in Good PROVE i + 1 \in Good
  <2>1. SUFFICES ASSUME NEW vc \in B[i + 1]
                 PROVE  vc \in all /\ rank[vc] >= i + 1
    OBVIOUS
  <2>2. PICK w \in waits : w[1] = vc /\ w[1] \in B[i] /\ w[2] \subseteq B[i]
    BY <1>5 DEF Stuck
  <2>3. PICK x \in w[2] : x \in all => rank[x] < rank[w[1]]
    BY <1>0
  <2>4. x \in all /\ rank[x] >= i /\ vc \in all
    BY <1>9, <2>2
  <2>5. rank[x] \in Nat /\ rank[vc] \in Nat /\ rank[x] < rank[vc]
    BY <1>7, <2>2, <2>3, <2>4
  <2> QED
    BY <2>4, <2>5
<1>10. Nat \subseteq Good
  <2> HIDE DEF Good
  <2> QED
    BY <1>8, <1>9, NatInductionOnSets
<1>11. ASSUME NEW vc \in B[n] PROVE FALSE
  <2>1. vc \in all /\ rank[vc] >= n
    BY <1>10
  <2> QED
    BY <1>7, <2>1
<1> QED
  BY <1>6, <1>11

\* A sequence of sets that starts in T and does not leave it.
LEMMA StaysIn ==
  ASSUME NEW T, NEW f, f[0] \in T, \A i \in Nat : f[i] \in T => f[i + 1] \in T
  PROVE  \A i \in Nat : f[i] \in T
<1> DEFINE Good == {i \in Nat : f[i] \in T}
<1>1. 0 \in Good /\ \A i \in Nat : i \in Good => i + 1 \in Good
  OBVIOUS
<1>2. Nat \subseteq Good
  <2> HIDE DEF Good
  <2> QED
    BY <1>1, NatInductionOnSets
<1> QED
  BY <1>2

-----------------------------------------------------------------------------
(* Sequences.                                                              *)

LEMMA RangeJoined ==
  ASSUME NEW S, NEW r \in Seq(S), NEW t \in Seq(S)
  PROVE  Range(r \o t) = Range(r) \cup Range(t)
<1>1. /\ r \o t \in Seq(S) /\ Len(r \o t) = Len(r) + Len(t)
      /\ \A i \in 1 .. Len(r) + Len(t) :
           (r \o t)[i] = IF i <= Len(r) THEN r[i] ELSE t[i - Len(r)]
  BY ConcatProperties
<1>2. /\ Len(r) \in Nat /\ DOMAIN r = 1 .. Len(r)
      /\ Len(t) \in Nat /\ DOMAIN t = 1 .. Len(t)
      /\ DOMAIN (r \o t) = 1 .. Len(r) + Len(t)
  BY <1>1, LenProperties
<1>3. ASSUME NEW x \in Range(r) PROVE x \in Range(r \o t)
  <2>1. PICK i \in 1 .. Len(r) : x = r[i]
    BY <1>2, <1>3 DEF Range
  <2>2. i \in 1 .. Len(r) + Len(t) /\ (r \o t)[i] = r[i]
    BY <1>1, <1>2
  <2> QED
    BY <1>2, <2>1, <2>2 DEF Range
<1>4. ASSUME NEW x \in Range(t) PROVE x \in Range(r \o t)
  <2>1. PICK i \in 1 .. Len(t) : x = t[i]
    BY <1>2, <1>4 DEF Range
  <2>2. Len(r) + i \in 1 .. Len(r) + Len(t) /\ (r \o t)[Len(r) + i] = t[i]
    BY <1>1, <1>2
  <2> QED
    BY <1>2, <2>1, <2>2 DEF Range
<1>5. ASSUME NEW x \in Range(r \o t) PROVE x \in Range(r) \cup Range(t)
  <2>1. PICK i \in 1 .. Len(r) + Len(t) : x = (r \o t)[i]
    BY <1>2, <1>5 DEF Range
  <2>2. CASE i <= Len(r)
    BY <1>1, <1>2, <2>1, <2>2 DEF Range
  <2>3. CASE ~(i <= Len(r))
    <3>1. i - Len(r) \in 1 .. Len(t) /\ x = t[i - Len(r)]
      BY <1>1, <1>2, <2>1, <2>3
    <3> QED
      BY <1>2, <3>1 DEF Range
  <2> QED
    BY <2>2, <2>3
<1> QED
  BY <1>3, <1>4, <1>5
=============================================================================
