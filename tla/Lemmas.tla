---------------------------------- MODULE Lemmas ----------------------------------
(***************************************************************************)
(* What the proofs need to know of the operators of the library, whatever  *)
(* they are about: induction, the greatest and the least of a set of       *)
(* numbers, their ranks, sums over a set, and sequences made of sequences. *)
(***************************************************************************)
EXTENDS Integers, SequencesExt, FiniteSetTheorems, WellFoundedInduction, TLAPS

-----------------------------------------------------------------------------
(***************************************************************************)
(* Induction.  The theorem of the library is about an operator, and cannot *)
(* be used; this one is about a set.                                       *)
(***************************************************************************)
\* Induction over the numbers, for a property that is given as a set.
LEMMA NatSetInduction ==
  ASSUME NEW S, 0 \in S, \A n \in Nat : n \in S => n + 1 \in S
  PROVE  Nat \subseteq S
<1> DEFINE T == Nat \ S
<1>1. SUFFICES ASSUME T # {} PROVE FALSE
  OBVIOUS
<1>2. PICK x \in T : \A y \in T : ~ (<<y, x>> \in OpToRel(<, Nat))
  <2> HIDE DEF T
  <2>1. T \subseteq Nat
    BY DEF T
  <2> QED
    BY <1>1, <2>1, WFMin, NatLessThanWellFounded
<1>3. \A y \in T : ~ (y < x)
  BY <1>2 DEF OpToRel
<1> QED
  <2>1. x \in Nat /\ x # 0
    OBVIOUS
  <2>2. x - 1 \in Nat /\ x - 1 < x /\ (x - 1) + 1 = x
    BY <2>1
  <2> QED
    BY <1>3, <2>2

-----------------------------------------------------------------------------
(***************************************************************************)
(* Sets of numbers.                                                        *)
(***************************************************************************)
\* A set of numbers up to n has a greatest, if it has any.
LEMMA MaxExists ==
  ASSUME NEW n \in Nat, NEW S \in SUBSET (0 .. n), S # {}
  PROVE  Max(S) \in S /\ \A y \in S : Max(S) >= y
<1> DEFINE T == {n - y : y \in S}
<1>1. T \subseteq Nat /\ T # {}
  <2>1. \A y \in S : n - y \in Nat
    OBVIOUS
  <2>2. PICK y \in S : TRUE
    OBVIOUS
  <2> QED
    BY <2>1, <2>2
<1>2. PICK x \in T : \A y \in T : ~ (<<y, x>> \in OpToRel(<, Nat))
  <2> HIDE DEF T
  <2> QED
    BY <1>1, WFMin, NatLessThanWellFounded
<1>3. \A y \in T : ~ (y < x)
  BY <1>1, <1>2 DEF OpToRel
<1>4. PICK m \in S : x = n - m
  BY <1>2
<1>5. \A y \in S : m >= y
  <2> TAKE y \in S
  <2>1. n - y \in T /\ n - y \in Nat /\ y \in Nat /\ m \in Nat
    OBVIOUS
  <2>2. ~ (n - y < n - m)
    BY <1>3, <1>4, <2>1
  <2> QED
    BY <2>1, <2>2
<1> QED
  BY <1>4, <1>5 DEF Max

\* What is greater than all others is the greatest.
LEMMA MaxIs ==
  ASSUME NEW S \in SUBSET Nat, NEW m \in S, \A y \in S : m >= y
  PROVE  Max(S) = m
<1>1. \A x \in S : (\A y \in S : x >= y) => x = m
  <2> SUFFICES ASSUME NEW x \in S, \A y \in S : x >= y PROVE x = m
    OBVIOUS
  <2>1. x >= m /\ m >= x /\ x \in Nat /\ m \in Nat
    OBVIOUS
  <2> QED
    BY <2>1
<1> QED
  BY <1>1 DEF Max

\* A set of numbers has a least, if it has any.
LEMMA MinExists ==
  ASSUME NEW S \in SUBSET Nat, S # {}
  PROVE  Min(S) \in S /\ \A y \in S : Min(S) <= y
<1>1. PICK x \in S : \A y \in S : ~ (<<y, x>> \in OpToRel(<, Nat))
  <2>1. S \subseteq Nat
    OBVIOUS
  <2> QED
    BY <2>1, WFMin, NatLessThanWellFounded
<1>2. \A y \in S : ~ (y < x)
  BY <1>1 DEF OpToRel
<1>3. \A y \in S : x <= y
  BY <1>2
<1>4. \A z \in S : (\A y \in S : z <= y) => z = x
  BY <1>3
<1> QED
  BY <1>3, <1>4 DEF Min

\* In a finite set of numbers, each has a rank of its own.
LEMMA Ranks ==
  ASSUME NEW S \in SUBSET Nat, IsFiniteSet(S), NEW n \in S
  PROVE  /\ Cardinality({m \in S : m <= n}) \in 1 .. Cardinality(S)
         /\ \A x \in S :
              Cardinality({m \in S : m <= x}) = Cardinality({m \in S : m <= n}) => x = n
<1> DEFINE Upto(x) == {m \in S : m <= x}
<1>1. \A x \in S : IsFiniteSet(Upto(x)) /\ Cardinality(Upto(x)) \in Nat
  <2> SUFFICES ASSUME NEW x \in S PROVE IsFiniteSet(Upto(x)) /\ Cardinality(Upto(x)) \in Nat
    OBVIOUS
  <2>1. Upto(x) \in SUBSET S
    OBVIOUS
  <2> HIDE DEF Upto
  <2>2. IsFiniteSet(Upto(x))
    BY <2>1, FS_Subset
  <2> QED
    BY <2>2, FS_CardinalityType
<1>2. Cardinality(Upto(n)) # 0
  <2>1. Upto(n) # {}
    OBVIOUS
  <2> HIDE DEF Upto
  <2> QED
    BY <1>1, <2>1, FS_EmptySet
<1>3. Cardinality(Upto(n)) <= Cardinality(S) /\ Cardinality(S) \in Nat
  <2>1. Upto(n) \in SUBSET S
    OBVIOUS
  <2> HIDE DEF Upto
  <2> QED
    BY <2>1, FS_Subset, FS_CardinalityType
<1>4. ASSUME NEW x \in S, NEW y \in S, x < y PROVE Cardinality(Upto(x)) # Cardinality(Upto(y))
  <2>1. Upto(x) \in SUBSET Upto(y) /\ y \in Upto(y) /\ y \notin Upto(x)
    <3>1. x \in Nat /\ y \in Nat /\ x <= y /\ ~ (y <= x)
      BY <1>4
    <3>2. \A m \in S : m <= x => m <= y
      BY <3>1
    <3>3. y <= y
      BY <3>1
    <3> QED
      BY <3>1, <3>2, <3>3
  <2> HIDE DEF Upto
  <2> QED
    BY <1>1, <2>1, FS_Subset
<1>5. ASSUME NEW x \in S, Cardinality(Upto(x)) = Cardinality(Upto(n)) PROVE x = n
  <2>1. x \in Nat /\ n \in Nat
    OBVIOUS
  <2> HIDE DEF Upto
  <2> QED
    BY <1>4, <1>5, <2>1
<1> HIDE DEF Upto
<1>6. Cardinality(Upto(n)) \in 1 .. Cardinality(S)
  BY <1>1, <1>2, <1>3
<1> QED
  BY <1>5, <1>6 DEF Upto

\* In a finite set of numbers, each rank is that of a number.
LEMMA RankOnto ==
  ASSUME NEW S \in SUBSET Nat, IsFiniteSet(S), NEW k \in 1 .. Cardinality(S)
  PROVE  \E n \in S : Cardinality({m \in S : m <= n}) = k
<1> DEFINE rank(n) == Cardinality({m \in S : m <= n})
           T == 1 .. Cardinality(S)
           f == [n \in S |-> rank(n)]
<1>1. Cardinality(S) \in Nat
  BY FS_CardinalityType
<1>2. IsFiniteSet(T) /\ Cardinality(T) = Cardinality(S)
  <2>1. 1 \in Int /\ Cardinality(S) \in Int
    BY <1>1
  <2>2. IsFiniteSet(T) /\ Cardinality(T) = IF 1 > Cardinality(S) THEN 0 ELSE Cardinality(S) - 1 + 1
    BY <2>1, FS_Interval, Zenon
  <2> HIDE DEF T
  <2> QED
    BY <1>1, <2>2
<1>3. \A n \in S : rank(n) \in T
  BY Ranks
<1>4. \A n \in S : \A x \in S : rank(x) = rank(n) => x = n
  BY Ranks
<1> HIDE DEF rank, T
<1>5. f \in Injection(S, T)
  BY <1>3, <1>4 DEF Injection, IsInjective
<1> HIDE DEF f
<1>6. f \in Surjection(S, T)
  BY <1>2, <1>5, FS_Injection
<1>7. k \in T
  BY DEF T
<1>8. \E n \in S : f[n] = k
  BY <1>6, <1>7 DEF Surjection
<1> QED
  BY <1>8 DEF f, rank

-----------------------------------------------------------------------------
(***************************************************************************)
(* Sums.  MapThenSumSet is recursive over the subsets of a set, and picks  *)
(* the element it counts first.                                            *)
(***************************************************************************)
\* The sum of the values of F over S.
SumOver(F, S) == MapThenSumSet(LAMBDA x : F[x], S)

\* What the sum over s is, if f has the sums over smaller sets.
NextSum(f, F, s) == IF s = {} THEN 0 ELSE LET x == CHOOSE x \in s : TRUE IN F[x] + f[s \ {x}]

\* f has the sums over the subsets of S.
IsSum(f, F, S) == f = [s \in SUBSET S |-> NextSum(f, F, s)]

Layer(S, n) == {s \in SUBSET S : Cardinality(s) <= n}

IsLayer(f, F, S, n) == f = [s \in Layer(S, n) |-> NextSum(f, F, s)]

\* A subset without one of its elements is a smaller one.
LEMMA OneLess ==
  ASSUME NEW S, IsFiniteSet(S), NEW s \in SUBSET S, NEW x \in s
  PROVE  /\ s \ {x} \in SUBSET S
         /\ Cardinality(s) \in Nat /\ Cardinality(s) # 0
         /\ Cardinality(s \ {x}) = Cardinality(s) - 1
<1>1. IsFiniteSet(s)
  BY FS_Subset
<1>2. Cardinality(s) \in Nat /\ Cardinality(s) # 0
  BY <1>1, FS_CardinalityType, FS_EmptySet
<1>3. Cardinality(s \ {x}) = Cardinality(s) - 1
  BY <1>1, FS_RemoveElement
<1> QED
  BY <1>2, <1>3

\* As OneLess, for a bound on the size.
LEMMA Smaller ==
  ASSUME NEW S, IsFiniteSet(S), NEW s \in SUBSET S, NEW x \in s,
         NEW n \in Nat, Cardinality(s) <= n + 1
  PROVE  s \ {x} \in SUBSET S /\ Cardinality(s \ {x}) <= n
<1> DEFINE k == Cardinality(s)
           l == Cardinality(s \ {x})
<1>1. k \in Nat /\ l = k - 1 /\ k <= n + 1
  BY OneLess
<1> HIDE DEF k, l
<1>2. l <= n
  BY <1>1
<1> QED
  BY <1>2 DEF l

\* A subset of no elements is empty.
LEMMA NoneLeft ==
  ASSUME NEW S, IsFiniteSet(S), NEW s \in SUBSET S, Cardinality(s) = 0
  PROVE  s = {}
<1>1. IsFiniteSet(s)
  BY FS_Subset
<1> QED
  BY <1>1, FS_EmptySet

\* There are such sums: the recursive definition is sound.
LEMMA SumExists ==
  ASSUME NEW F, NEW S, IsFiniteSet(S)
  PROVE  \E f : IsSum(f, F, S)
<1> DEFINE Good == {n \in Nat : \E f : IsLayer(f, F, S, n)}
<1>1. 0 \in Good
  <2> DEFINE f == [s \in Layer(S, 0) |-> 0]
  <2>1. \A s \in Layer(S, 0) : s = {}
    <3> SUFFICES ASSUME NEW s \in SUBSET S, Cardinality(s) <= 0 PROVE s = {}
      BY DEF Layer
    <3>1. IsFiniteSet(s) /\ Cardinality(s) \in Nat
      BY FS_Subset, FS_CardinalityType
    <3>2. Cardinality(s) = 0
      BY <3>1
    <3> QED
      BY <3>1, <3>2, FS_EmptySet
  <2>2. IsLayer(f, F, S, 0)
    BY <2>1 DEF IsLayer, NextSum
  <2> QED
    BY <2>2
<1>2. \A n \in Nat : n \in Good => n + 1 \in Good
  <2> SUFFICES ASSUME NEW n \in Nat, n \in Good PROVE n + 1 \in Good
    OBVIOUS
  <2>1. PICK f : IsLayer(f, F, S, n)
    OBVIOUS
  <2> DEFINE g == [s \in Layer(S, n + 1) |-> IF s \in Layer(S, n) THEN f[s] ELSE NextSum(f, F, s)]
  <2>2. ASSUME NEW s \in Layer(S, n + 1) PROVE g[s] = NextSum(g, F, s)
    <3>1. g[s] = NextSum(f, F, s)
      BY <2>1 DEF IsLayer
    <3>2. CASE s = {}
      BY <3>1, <3>2 DEF NextSum
    <3>3. CASE s # {}
      <4> DEFINE x == CHOOSE x \in s : TRUE
      <4>1. x \in s /\ s \in SUBSET S /\ Cardinality(s) <= n + 1
        BY <3>3 DEF Layer
      <4> HIDE DEF x
      <4>2. s \ {x} \in SUBSET S /\ Cardinality(s) \in Nat /\ Cardinality(s \ {x}) = Cardinality(s) - 1
        BY <4>1, OneLess
      <4> DEFINE k == Cardinality(s)
                 l == Cardinality(s \ {x})
      <4>3. k \in Nat /\ l = k - 1 /\ k <= n + 1
        BY <4>1, <4>2
      <4> HIDE DEF k, l
      <4>4. l <= n /\ l <= n + 1
        BY <4>3
      <4>5. s \ {x} \in Layer(S, n) /\ s \ {x} \in Layer(S, n + 1)
        BY <4>2, <4>4 DEF Layer, l
      <4>6. g[s \ {x}] = f[s \ {x}]
        BY <4>5
      <4> HIDE DEF g
      <4>7. NextSum(f, F, s) = F[x] + f[s \ {x}] /\ NextSum(g, F, s) = F[x] + g[s \ {x}]
        BY <3>3 DEF NextSum, x
      <4> QED
        BY <3>1, <4>6, <4>7
    <3> QED
      BY <3>2, <3>3
  <2>3. g = [s \in Layer(S, n + 1) |-> g[s]]
    OBVIOUS
  <2>4. IsLayer(g, F, S, n + 1)
    <3> HIDE DEF g
    <3> QED
      BY <2>2, <2>3 DEF IsLayer
  <2> QED
    BY <2>4
<1>3. Nat \subseteq Good
  <2> HIDE DEF Good
  <2> QED
    BY <1>1, <1>2, NatSetInduction
<1>4. Cardinality(S) \in Nat
  BY FS_CardinalityType
<1>5. PICK f : IsLayer(f, F, S, Cardinality(S))
  BY <1>3, <1>4
<1>6. Layer(S, Cardinality(S)) = SUBSET S
  BY FS_Subset DEF Layer
<1> QED
  BY <1>5, <1>6 DEF IsLayer, IsSum

\* SumOver is the last of these sums.
LEMMA SumOf ==
  ASSUME NEW F, NEW S, IsFiniteSet(S)
  PROVE  \E f : IsSum(f, F, S) /\ SumOver(F, S) = f[S]
<1> DEFINE f == CHOOSE g : IsSum(g, F, S)
<1>1. IsSum(f, F, S)
  BY SumExists
<1>2. SumOver(F, S) = f[S]
  BY DEF SumOver, MapThenSumSet, MapThenFoldSet, IsSum, NextSum
<1> QED
  BY <1>1, <1>2

\* The sum over a set does not depend on the larger set it is computed for.
LEMMA SumAgrees ==
  ASSUME NEW F, NEW T, IsFiniteSet(T), NEW S \in SUBSET T,
         NEW f, IsSum(f, F, S), NEW g, IsSum(g, F, T)
  PROVE  f[S] = g[S]
<1> DEFINE Good == {n \in Nat : \A s \in SUBSET S : Cardinality(s) = n => f[s] = g[s]}
<1>1. IsFiniteSet(S)
  BY FS_Subset
<1>2. 0 \in Good
  <2> SUFFICES ASSUME NEW s \in SUBSET S, Cardinality(s) = 0 PROVE f[s] = g[s]
    OBVIOUS
  <2>1. s = {}
    BY <1>1, NoneLeft
  <2> QED
    BY <2>1 DEF IsSum, NextSum
<1>3. ASSUME NEW n \in Nat, n \in Good, NEW s \in SUBSET S, Cardinality(s) = n + 1
      PROVE  f[s] = g[s]
  <2>1. s # {}
    BY <1>3, FS_EmptySet
  <2> DEFINE x == CHOOSE x \in s : TRUE
  <2>2. x \in s
    BY <2>1
  <2>3. f[s] = F[x] + f[s \ {x}] /\ g[s] = F[x] + g[s \ {x}]
    BY <2>1 DEF IsSum, NextSum
  <2> HIDE DEF x
  <2>4. s \ {x} \in SUBSET S /\ Cardinality(s \ {x}) = n
    BY <1>1, <1>3, <2>2, OneLess
  <2>5. f[s \ {x}] = g[s \ {x}]
    BY <1>3, <2>4
  <2> QED
    BY <2>3, <2>5
<1>4. Nat \subseteq Good
  <2>1. \A n \in Nat : n \in Good => n + 1 \in Good
    <3> SUFFICES ASSUME NEW n \in Nat, n \in Good PROVE n + 1 \in Good
      OBVIOUS
    <3>1. \A s \in SUBSET S : Cardinality(s) = n + 1 => f[s] = g[s]
      BY <1>3
    <3> QED
      BY <3>1
  <2> HIDE DEF Good
  <2> QED
    BY <1>2, <2>1, NatSetInduction
<1> QED
  BY <1>1, <1>4, FS_CardinalityType

\* It does not matter which element is counted first.
LEMMA SumRemove ==
  ASSUME NEW D, IsFiniteSet(D), NEW F \in [D -> Nat], NEW f, IsSum(f, F, D)
  PROVE  \A s \in SUBSET D : f[s] \in Nat /\ \A x \in s : f[s] = F[x] + f[s \ {x}]
<1> DEFINE Counted(s) == f[s] \in Nat /\ \A x \in s : f[s] = F[x] + f[s \ {x}]
           Good == {n \in Nat : \A s \in SUBSET D : Cardinality(s) <= n => Counted(s)}
<1>1. 0 \in Good
  <2> SUFFICES ASSUME NEW s \in SUBSET D, Cardinality(s) <= 0 PROVE Counted(s)
    OBVIOUS
  <2>0. Cardinality(s) \in Nat
    BY FS_Subset, FS_CardinalityType
  <2>1. s = {}
    BY <2>0, NoneLeft
  <2> QED
    BY <2>1 DEF IsSum, NextSum
<1>2. ASSUME NEW n \in Nat, n \in Good, NEW s \in SUBSET D, Cardinality(s) <= n + 1, s # {}
      PROVE  Counted(s)
  <2>1. s # {}
    BY <1>2
  <2> DEFINE c == CHOOSE x \in s : TRUE
  <2>2. c \in s
    BY <2>1
  <2>3. f[s] = F[c] + f[s \ {c}]
    BY <2>1 DEF IsSum, NextSum
  <2> HIDE DEF c
  <2>4. \A x \in s : s \ {x} \in SUBSET D /\ Cardinality(s \ {x}) <= n /\ F[x] \in Nat
    BY <1>2, Smaller
  <2>5. \A x \in s : f[s \ {x}] \in Nat /\ \A y \in s \ {x} : f[s \ {x}] = F[y] + f[(s \ {x}) \ {y}]
    BY <1>2, <2>4
  <2>6. ASSUME NEW x \in s PROVE f[s] = F[x] + f[s \ {x}]
    <3>1. CASE x = c
      BY <2>3, <3>1
    <3>2. CASE x # c
      <4> DEFINE r == f[(s \ {c}) \ {x}]
      <4>1. (s \ {x}) \ {c} = (s \ {c}) \ {x}
        OBVIOUS
      <4>2. f[s \ {c}] = F[x] + r /\ f[s \ {x}] = F[c] + r
        BY <2>2, <2>5, <3>2, <4>1
      <4>3. r \in Nat
        <5>1. s \ {c} \in SUBSET D /\ x \in s \ {c} /\ Cardinality(s \ {c}) <= n + 1
          BY <1>2, <2>2, <2>4, <3>2, Smaller, OneLess
        <5>2. (s \ {c}) \ {x} \in SUBSET D /\ Cardinality((s \ {c}) \ {x}) <= n
          BY <5>1, <1>2, Smaller
        <5> QED
          BY <5>2, <1>2
      <4> HIDE DEF r
      <4>4. F[x] \in Nat /\ F[c] \in Nat
        BY <2>2, <2>4
      <4> QED
        BY <2>3, <4>2, <4>3, <4>4
    <3> QED
      BY <3>1, <3>2
  <2>7. f[s] \in Nat
    <3> DEFINE a == F[c]
               b == f[s \ {c}]
    <3>1. a \in Nat /\ b \in Nat /\ f[s] = a + b
      BY <2>2, <2>3, <2>4, <2>5
    <3> HIDE DEF a, b
    <3> QED
      BY <3>1
  <2> QED
    BY <2>6, <2>7
<1>3. Nat \subseteq Good
  <2>1. \A n \in Nat : n \in Good => n + 1 \in Good
    <3> SUFFICES ASSUME NEW n \in Nat, n \in Good PROVE n + 1 \in Good
      OBVIOUS
    <3>1. ASSUME NEW s \in SUBSET D, Cardinality(s) <= n + 1 PROVE Counted(s)
      <4>1. CASE s = {}
        <5>1. Cardinality(s) = 0
          BY <4>1, FS_EmptySet
        <5> QED
          BY <1>1, <5>1
      <4> QED
        BY <3>1, <1>2, <4>1
    <3> QED
      BY <3>1
  <2> HIDE DEF Good
  <2> QED
    BY <1>1, <2>1, NatSetInduction
<1>4. ASSUME NEW s \in SUBSET D PROVE Counted(s)
  <2>1. Cardinality(s) \in Nat /\ Cardinality(s) <= Cardinality(s)
    BY FS_Subset, FS_CardinalityType
  <2>2. Cardinality(s) \in Good
    <3> HIDE DEF Good
    <3> QED
      BY <1>3, <2>1
  <2> QED
    BY <2>1, <2>2
<1> QED
  BY <1>4

\* A sum is one of its terms and the sum of the others.
LEMMA SumNext ==
  ASSUME NEW D, IsFiniteSet(D), NEW F \in [D -> Nat]
  PROVE  \A T \in SUBSET D :
           SumOver(F, T) \in Nat /\ \A x \in T : SumOver(F, T) = F[x] + SumOver(F, T \ {x})
<1>1. PICK f : IsSum(f, F, D)
  BY SumExists
<1>2. \A s \in SUBSET D : f[s] \in Nat /\ \A x \in s : f[s] = F[x] + f[s \ {x}]
  BY <1>1, SumRemove
<1>3. ASSUME NEW s \in SUBSET D PROVE SumOver(F, s) = f[s]
  <2>1. IsFiniteSet(s)
    BY FS_Subset
  <2> QED
    BY <1>1, <2>1, SumOf, SumAgrees
<1>4. \A s \in SUBSET D : \A x \in s : s \ {x} \in SUBSET D
  OBVIOUS
<1> SUFFICES ASSUME NEW T \in SUBSET D
             PROVE  SumOver(F, T) \in Nat /\ \A x \in T : SumOver(F, T) = F[x] + SumOver(F, T \ {x})
  OBVIOUS
<1> QED
  BY <1>2, <1>3, <1>4

\* More elements make the sum no smaller.
LEMMA SumGrows ==
  ASSUME NEW D, IsFiniteSet(D), NEW F \in [D -> Nat], NEW S \in SUBSET D, NEW T \in SUBSET D, S \subseteq T
  PROVE  /\ SumOver(F, S) \in Nat
         /\ SumOver(F, T) \in Nat
         /\ SumOver(F, S) <= SumOver(F, T)
<1>1. IsFiniteSet(S) /\ IsFiniteSet(T)
  BY FS_Subset
<1>2. PICK f : IsSum(f, F, D)
  BY SumExists
<1>3. /\ SumOver(F, S) = f[S]
      /\ SumOver(F, T) = f[T]
  BY <1>1, <1>2, SumOf, SumAgrees
<1>4. \A s \in SUBSET D : f[s] \in Nat /\ \A x \in s : f[s] = F[x] + f[s \ {x}]
  BY <1>2, SumRemove
<1> DEFINE Good == {n \in Nat : \A s \in SUBSET D : S \subseteq s /\ Cardinality(s) = n => f[S] <= f[s]}
<1>5. 0 \in Good
  <2> SUFFICES ASSUME NEW s \in SUBSET D, S \subseteq s, Cardinality(s) = 0 PROVE f[S] <= f[s]
    OBVIOUS
  <2>1. s = {} /\ S = {}
    BY NoneLeft
  <2> QED
    BY <1>4, <2>1
<1>6. ASSUME NEW n \in Nat, n \in Good, NEW s \in SUBSET D, S \subseteq s, Cardinality(s) = n + 1
      PROVE  f[S] <= f[s]
  <2>1. CASE S = s
    BY <1>4, <2>1
  <2>2. CASE S # s
    <3>1. PICK x \in s : x \notin S
      BY <1>6, <2>2
    <3>2. s \ {x} \in SUBSET D /\ Cardinality(s \ {x}) = n /\ S \subseteq s \ {x}
      BY <1>6, <3>1, OneLess
    <3>3. f[S] <= f[s \ {x}]
      BY <1>6, <3>2
    <3>4. f[S] \in Nat /\ f[s \ {x}] \in Nat /\ F[x] \in Nat /\ f[s] = F[x] + f[s \ {x}]
      BY <1>4, <3>2
    <3> QED
      BY <3>3, <3>4
  <2> QED
    BY <2>1, <2>2
<1>7. Nat \subseteq Good
  <2>1. \A n \in Nat : n \in Good => n + 1 \in Good
    BY <1>6
  <2> HIDE DEF Good
  <2> QED
    BY <1>5, <2>1, NatSetInduction
<1>8. f[S] <= f[T]
  BY <1>1, <1>7, FS_CardinalityType
<1> QED
  BY <1>3, <1>4, <1>8

\* What is no element of S does not count.
LEMMA SumSame ==
  ASSUME NEW S, IsFiniteSet(S), NEW F, NEW G, \A x \in S : F[x] = G[x]
  PROVE  SumOver(F, S) = SumOver(G, S)
<1>1. PICK f : IsSum(f, F, S) /\ SumOver(F, S) = f[S]
  BY SumOf
<1>2. PICK g : IsSum(g, G, S) /\ SumOver(G, S) = g[S]
  BY SumOf
<1>3. ASSUME NEW s \in SUBSET S PROVE NextSum(g, F, s) = NextSum(g, G, s)
  <2>1. CASE s = {}
    BY <2>1 DEF NextSum
  <2>2. CASE s # {}
    <3> DEFINE x == CHOOSE x \in s : TRUE
    <3>1. x \in S
      BY <2>2
    <3>2. F[x] = G[x]
      BY <3>1
    <3> QED
      BY <2>2, <3>2 DEF NextSum
  <2> QED
    BY <2>1, <2>2
<1>4. IsSum(g, F, S)
  BY <1>2, <1>3 DEF IsSum
<1>5. S \in SUBSET S
  OBVIOUS
<1>6. f[S] = g[S]
  BY <1>1, <1>4, <1>5, SumAgrees
<1> QED
  BY <1>1, <1>2, <1>6

\* The sum of nothing.
LEMMA SumNone ==
  ASSUME NEW F
  PROVE  SumOver(F, {}) = 0
<1>1. IsFiniteSet({})
  BY FS_EmptySet
<1>2. PICK f : IsSum(f, F, {}) /\ SumOver(F, {}) = f[{}]
  BY <1>1, SumOf
<1> QED
  BY <1>2 DEF IsSum, NextSum

-----------------------------------------------------------------------------
(***************************************************************************)
(* Sequences, and sequences made of sequences.  FlattenSeq is recursive    *)
(* over the number of them.                                                *)
(***************************************************************************)
\* A sequence is what comes before its last element, and that element.
LEMMA AllButLast ==
  ASSUME NEW D, NEW n \in Nat, NEW u \in Seq(D), Len(u) = n + 1
  PROVE  /\ SubSeq(u, 1, n) \in Seq(D) /\ Len(SubSeq(u, 1, n)) = n
         /\ u[n + 1] \in D
         /\ u = Append(SubSeq(u, 1, n), u[n + 1])
OBVIOUS

\* Appending to a concatenation is appending to its second part.
LEMMA AppendLast ==
  ASSUME NEW D, NEW s \in Seq(D), NEW v \in Seq(D), NEW e \in D
  PROVE  s \o Append(v, e) = Append(s \o v, e) /\ s \o v \in Seq(D)
OBVIOUS

\* Two sequences in a row are as long as both.
LEMMA Longer ==
  ASSUME NEW D, NEW p \in Seq(D), NEW q \in Seq(D)
  PROVE  p \o q \in Seq(D) /\ Len(p \o q) = Len(p) + Len(q)
OBVIOUS

\* What is in them.
LEMMA Concatenated ==
  ASSUME NEW D, NEW p \in Seq(D), NEW q \in Seq(D)
  PROVE  \A n \in 1 .. Len(p) + Len(q) : (p \o q)[n] = IF n <= Len(p) THEN p[n] ELSE q[n - Len(p)]
OBVIOUS

\* A sequence with one element more, as a function.
LEMMA Appended ==
  ASSUME NEW D, NEW s \in Seq(D), NEW e \in D
  PROVE  Append(s, e) = [k \in 1 .. Len(s) + 1 |-> IF k <= Len(s) THEN s[k] ELSE e]
<1>1. Len(s) \in Nat
  OBVIOUS
<1> DEFINE a == Append(s, e)
           f == [k \in 1 .. Len(s) + 1 |-> IF k <= Len(s) THEN s[k] ELSE e]
<1>2. a \in Seq(D) /\ Len(a) = Len(s) + 1 /\ \A k \in 1 .. Len(s) + 1 : a[k] = f[k]
  BY <1>1
<1>3. DOMAIN f = 1 .. Len(s) + 1 /\ f = [k \in 1 .. Len(s) + 1 |-> f[k]]
  OBVIOUS
<1> HIDE DEF a, f
<1>4. a = [k \in 1 .. Len(s) + 1 |-> a[k]]
  BY <1>2
<1>5. a = f
  BY <1>2, <1>3, <1>4
<1> QED
  BY <1>5 DEF a, f

\* Its parts: what it makes of the first elements.
IsFlat(f, s, k) ==
  f = [i \in 1 .. k |-> IF i = 1 THEN s[i] ELSE f[i - 1] \o s[i]]

\* There are such parts: the recursive definition of FlattenSeq is sound.
LEMMA FlatExists ==
  ASSUME NEW s, NEW k \in Nat
  PROVE  \E f : IsFlat(f, s, k)
<1> DEFINE Good == {n \in Nat : \E f : IsFlat(f, s, n)}
<1>1. 0 \in Good
  <2> DEFINE f == [i \in 1 .. 0 |-> << >>]
  <2>1. IsFlat(f, s, 0)
    BY DEF IsFlat
  <2> QED
    BY <2>1
<1>2. \A n \in Nat : n \in Good => n + 1 \in Good
  <2> SUFFICES ASSUME NEW n \in Nat, n \in Good PROVE n + 1 \in Good
    OBVIOUS
  <2>1. PICK f : IsFlat(f, s, n)
    OBVIOUS
  <2> DEFINE part(h, i) == IF i = 1 THEN s[i] ELSE h[i - 1] \o s[i]
             g == [i \in 1 .. n + 1 |-> IF i <= n THEN f[i] ELSE part(f, i)]
             h == [i \in 1 .. n + 1 |-> part(g, i)]
  <2>2. \A i \in 1 .. n + 1 : g[i] = h[i]
    <3> SUFFICES ASSUME NEW i \in 1 .. n + 1 PROVE g[i] = part(g, i)
      OBVIOUS
    <3>1. CASE i = 1
      BY <2>1, <3>1 DEF IsFlat
    <3>2. CASE i # 1
      <4>1. i - 1 \in 1 .. n + 1 /\ i - 1 <= n
        BY <3>2
      <4>2. g[i - 1] = f[i - 1]
        BY <4>1
      <4>3. CASE i <= n
        <5>1. i \in 1 .. n
          BY <4>3
        <5>2. f[i] = part(f, i)
          BY <2>1, <5>1 DEF IsFlat
        <5> QED
          BY <3>2, <4>2, <4>3, <5>2
      <4> QED
        BY <3>2, <4>2, <4>3
    <3> QED
      BY <3>1, <3>2
  <2>3. g = h
    BY <2>2
  <2>4. IsFlat(g, s, n + 1)
    BY <2>3 DEF IsFlat
  <2> QED
    BY <2>4
<1>3. Nat \subseteq Good
  <2> HIDE DEF Good
  <2> QED
    BY <1>1, <1>2, NatSetInduction
<1> QED
  BY <1>3

\* FlattenSeq is the last of its parts.
LEMMA FlatParts ==
  ASSUME NEW s, NEW k \in Nat \ {0}, Len(s) = k
  PROVE  \E f : IsFlat(f, s, k) /\ FlattenSeq(s) = f[k]
<1> DEFINE f == CHOOSE g : IsFlat(g, s, k)
<1>1. IsFlat(f, s, k)
  BY FlatExists
<1>2. FlattenSeq(s) = f[k]
  BY DEF FlattenSeq, IsFlat
<1> QED
  BY <1>1, <1>2

\* A part depends on the elements before it only.
LEMMA FlatAgree ==
  ASSUME NEW s, NEW t, NEW m \in Nat \ {0}, NEW k \in Nat, m <= k,
         NEW f, IsFlat(f, s, m), NEW g, IsFlat(g, t, k),
         \A n \in 1 .. m : s[n] = t[n]
  PROVE  f[m] = g[m]
<1> DEFINE Good == {n \in Nat : n + 1 <= m => f[n + 1] = g[n + 1]}
<1>1. 0 \in Good
  <2>1. 0 + 1 = 1 /\ 1 \in 1 .. m /\ 1 \in 1 .. k
    OBVIOUS
  <2>2. f[1] = s[1] /\ g[1] = t[1]
    BY <2>1 DEF IsFlat
  <2> QED
    BY <2>1, <2>2
<1>2. \A n \in Nat : n \in Good => n + 1 \in Good
  <2> SUFFICES ASSUME NEW n \in Nat, n \in Good, n + 1 + 1 <= m PROVE f[n + 1 + 1] = g[n + 1 + 1]
    OBVIOUS
  <2>1. n + 1 + 1 \in 1 .. m /\ n + 1 + 1 \in 1 .. k /\ n + 1 + 1 # 1 /\ (n + 1 + 1) - 1 = n + 1 /\ n + 1 <= m
    OBVIOUS
  <2>2. f[n + 1] = g[n + 1]
    BY <2>1
  <2> DEFINE j == n + 1 + 1
  <2>3. j \in 1 .. m /\ j \in 1 .. k /\ j # 1 /\ j - 1 = n + 1
    BY <2>1
  <2> HIDE DEF j
  <2>4. f[j] = f[j - 1] \o s[j] /\ g[j] = g[j - 1] \o t[j]
    BY <2>3 DEF IsFlat
  <2>5. s[j] = t[j]
    BY <2>3
  <2>6. f[j] = g[j]
    BY <2>2, <2>3, <2>4, <2>5
  <2> QED
    BY <2>6 DEF j
<1>3. Nat \subseteq Good
  <2> HIDE DEF Good
  <2> QED
    BY <1>1, <1>2, NatSetInduction
<1>4. m - 1 \in Nat /\ (m - 1) + 1 = m
  OBVIOUS
<1>5. m - 1 \in Good
  BY <1>3, <1>4
<1> QED
  BY <1>4, <1>5

\* Nothing is made of nothing.
LEMMA FlatEmpty == FlattenSeq(<< >>) = << >>
BY DEF FlattenSeq

\* Sequences of D make a sequence of D.
LEMMA FlatType ==
  ASSUME NEW D, NEW s \in Seq(Seq(D))
  PROVE  FlattenSeq(s) \in Seq(D)
<1> DEFINE k == Len(s)
<1>1. k \in Nat /\ \A n \in 1 .. k : s[n] \in Seq(D)
  OBVIOUS
<1>2. CASE k = 0
  <2>1. s = << >>
    BY <1>2
  <2>2. << >> \in Seq(D)
    OBVIOUS
  <2>3. FlattenSeq(s) = << >>
    BY <2>1, FlatEmpty, Zenon
  <2> QED
    BY <2>2, <2>3, Zenon
<1>3. CASE k # 0
  <2> HIDE DEF k
  <2>1. PICK f : IsFlat(f, s, k) /\ FlattenSeq(s) = f[k]
    BY <1>1, <1>3, FlatParts DEF k
  <2> DEFINE Good == {n \in Nat : n + 1 <= k => f[n + 1] \in Seq(D)}
  <2>2. 0 \in Good
    <3>1. 0 + 1 = 1 /\ 1 \in 1 .. k
      BY <1>1, <1>3
    <3>2. f[1] = s[1]
      BY <2>1, <3>1 DEF IsFlat
    <3> QED
      BY <1>1, <3>1, <3>2
  <2>3. \A n \in Nat : n \in Good => n + 1 \in Good
    <3> SUFFICES ASSUME NEW n \in Nat, n \in Good, n + 1 + 1 <= k PROVE f[n + 1 + 1] \in Seq(D)
      OBVIOUS
    <3>1. n + 1 + 1 \in 1 .. k /\ n + 1 + 1 # 1 /\ (n + 1 + 1) - 1 = n + 1 /\ n + 1 <= k
      BY <1>1
    <3>2. f[n + 1] \in Seq(D)
      BY <3>1
    <3>3. f[n + 1 + 1] = f[n + 1] \o s[n + 1 + 1]
      BY <2>1, <3>1 DEF IsFlat
    <3>4. s[n + 1 + 1] \in Seq(D)
      BY <1>1, <3>1
    <3> QED
      BY <3>2, <3>3, <3>4
  <2>4. Nat \subseteq Good
    <3> HIDE DEF Good
    <3> QED
      BY <2>2, <2>3, NatSetInduction
  <2>5. k - 1 \in Nat /\ (k - 1) + 1 = k
    BY <1>1, <1>3
  <2>6. k - 1 \in Good
    BY <2>4, <2>5
  <2> QED
    BY <2>1, <2>5, <2>6
<1> QED
  BY <1>2, <1>3

\* One more sequence at the end comes at the end.
LEMMA FlatAppend ==
  ASSUME NEW D, NEW s \in Seq(Seq(D)), NEW e \in Seq(D)
  PROVE  FlattenSeq(Append(s, e)) = FlattenSeq(s) \o e
<1> DEFINE t == Append(s, e)
           k == Len(s)
           m == Len(t)
<1>1. /\ k \in Nat /\ m \in Nat \ {0} /\ m = k + 1 /\ t[m] = e
      /\ \A n \in 1 .. k : s[n] = t[n]
  OBVIOUS
<1>2. CASE k = 0
  <2>1. FlattenSeq(s) = << >> /\ << >> \o e = e
    BY <1>2, FlatEmpty
  <2> HIDE DEF t, k, m
  <2>2. PICK g : IsFlat(g, t, m) /\ FlattenSeq(t) = g[m]
    BY <1>1, FlatParts DEF m
  <2>3. m = 1 /\ 1 \in 1 .. m
    BY <1>1, <1>2
  <2>4. g[1] = t[1]
    BY <2>2, <2>3 DEF IsFlat
  <2> QED
    BY <1>1, <2>1, <2>2, <2>3, <2>4 DEF t
<1>3. CASE k # 0
  <2> HIDE DEF t, k, m
  <2>1. PICK f : IsFlat(f, s, k) /\ FlattenSeq(s) = f[k]
    BY <1>1, <1>3, FlatParts DEF k
  <2>2. PICK g : IsFlat(g, t, m) /\ FlattenSeq(t) = g[m]
    BY <1>1, FlatParts DEF m
  <2>3. f[k] = g[k]
    <3>1. k \in Nat \ {0} /\ m \in Nat /\ k <= m
      BY <1>1, <1>3
    <3> QED
      BY <1>1, <2>1, <2>2, <3>1, FlatAgree
  <2>4. m \in 1 .. m /\ m # 1 /\ m - 1 = k
    BY <1>1, <1>3
  <2>5. g[m] = g[k] \o t[m]
    BY <2>2, <2>4 DEF IsFlat
  <2>6. FlattenSeq(t) = FlattenSeq(s) \o e
    BY <1>1, <2>1, <2>2, <2>3, <2>5
  <2> QED
    BY <2>6 DEF t
<1> QED
  BY <1>2, <1>3

\* The first sequences come first, then the others.
LEMMA FlatConcat ==
  ASSUME NEW D, NEW s \in Seq(Seq(D)), NEW t \in Seq(Seq(D))
  PROVE  FlattenSeq(s \o t) = FlattenSeq(s) \o FlattenSeq(t)
<1> DEFINE Fine(u) == FlattenSeq(s \o u) = FlattenSeq(s) \o FlattenSeq(u)
           All == Seq(Seq(D))
           Good == {n \in Nat : \A u \in All : Len(u) = n => Fine(u)}
<1>0. FlattenSeq(s) \in Seq(D)
  BY FlatType
<1>1. 0 \in Good
  <2> SUFFICES ASSUME NEW u \in Seq(Seq(D)), Len(u) = 0
               PROVE  FlattenSeq(s \o u) = FlattenSeq(s) \o FlattenSeq(u)
    OBVIOUS
  <2>1. u = << >> /\ s \o u = s
    OBVIOUS
  <2>2. FlattenSeq(s) \o << >> = FlattenSeq(s)
    BY <1>0
  <2> QED
    BY <2>1, <2>2, FlatEmpty
<1>2. ASSUME NEW n \in Nat, \A u \in All : Len(u) = n => Fine(u), NEW u \in All, Len(u) = n + 1
      PROVE  Fine(u)
  <2> DEFINE v == SubSeq(u, 1, n)
             e == u[n + 1]
  <2>1. v \in Seq(Seq(D)) /\ Len(v) = n /\ e \in Seq(D) /\ u = Append(v, e)
    <3> DEFINE E == Seq(D)
    <3>1. u \in Seq(E) /\ Len(u) = n + 1
      BY <1>2, Zenon
    <3> HIDE DEF E
    <3>2. v \in Seq(E) /\ Len(v) = n /\ e \in E /\ u = Append(v, e)
      BY <3>1, AllButLast
    <3> QED
      BY <3>2 DEF E
  <2>2. FlattenSeq(s \o v) = FlattenSeq(s) \o FlattenSeq(v)
    BY <1>2, <2>1
  <2> HIDE DEF v, e
  <2>3. s \o u = Append(s \o v, e) /\ s \o v \in Seq(Seq(D))
    <3> DEFINE E == Seq(D)
    <3>1. s \in Seq(E) /\ v \in Seq(E) /\ e \in E
      BY <2>1
    <3> HIDE DEF E
    <3>2. s \o Append(v, e) = Append(s \o v, e) /\ s \o v \in Seq(E)
      BY <3>1, AppendLast
    <3> QED
      BY <2>1, <3>2 DEF E
  <2>4. FlattenSeq(s \o u) = FlattenSeq(s \o v) \o e
    BY <2>1, <2>3, FlatAppend
  <2>5. FlattenSeq(u) = FlattenSeq(v) \o e /\ FlattenSeq(v) \in Seq(D)
    BY <2>1, FlatAppend, FlatType
  <2> DEFINE a == FlattenSeq(s)
             b == FlattenSeq(v)
  <2>6. a \in Seq(D) /\ b \in Seq(D) /\ e \in Seq(D)
    BY <1>0, <2>1, <2>5
  <2>7. FlattenSeq(s \o u) = (a \o b) \o e /\ FlattenSeq(u) = b \o e
    BY <2>2, <2>4, <2>5
  <2> HIDE DEF a, b
  <2>8. (a \o b) \o e = a \o (b \o e)
    BY ONLY <2>6, SMTT(30)
  <2> QED
    BY <2>7, <2>8 DEF a
<1>3. Nat \subseteq Good
  <2> HIDE DEF All, Fine
  <2>1. 0 \in Good /\ \A n \in Nat : n \in Good => n + 1 \in Good
    BY <1>1, <1>2
  <2> HIDE DEF Good
  <2> QED
    BY <2>1, NatSetInduction
<1>4. Len(t) \in Nat /\ t \in All
  OBVIOUS
<1>5. Fine(t)
  <2> HIDE DEF All, Fine
  <2> QED
    BY <1>3, <1>4
<1> QED
  BY <1>5

\* How much the first n sequences make.
Before(t, n) == Len(FlattenSeq(SubSeq(t, 1, n)))

\* Each sequence comes after those before it.
LEMMA BeforeNext ==
  ASSUME NEW D, NEW t \in Seq(Seq(D)), NEW n \in Nat, n + 1 <= Len(t)
  PROVE  /\ Before(t, n) \in Nat /\ t[n + 1] \in Seq(D)
         /\ FlattenSeq(SubSeq(t, 1, n)) \in Seq(D)
         /\ FlattenSeq(SubSeq(t, 1, n + 1)) = FlattenSeq(SubSeq(t, 1, n)) \o t[n + 1]
         /\ Before(t, n + 1) = Before(t, n) + Len(t[n + 1])
<1> DEFINE E == Seq(D)
           m == n + 1
           u == SubSeq(t, 1, n)
           e == t[m]
<1>1. m \in 1 .. Len(t) /\ n \in Nat /\ t \in Seq(E)
  OBVIOUS
<1> HIDE DEF E
<1>2. u \in Seq(E) /\ e \in E /\ SubSeq(t, 1, m) = Append(u, e)
  BY <1>1
<1>3. u \in Seq(Seq(D)) /\ e \in Seq(D)
  BY <1>2 DEF E
<1> HIDE DEF u, e
<1>4. FlattenSeq(SubSeq(t, 1, m)) = FlattenSeq(u) \o e /\ FlattenSeq(u) \in Seq(D)
  BY <1>2, <1>3, FlatAppend, FlatType
<1> DEFINE f == FlattenSeq(u)
<1>5. f \in Seq(D) /\ Len(f) \in Nat
  BY <1>4
<1> HIDE DEF f
<1>6. Len(f \o e) = Len(f) + Len(e)
  BY <1>3, <1>5, Longer
<1> QED
  BY <1>3, <1>4, <1>5, <1>6 DEF Before, f, u, e

\* Where the elements of the sequences are, and that nothing else is there.
LEMMA FlatPlaces ==
  ASSUME NEW D, NEW t \in Seq(Seq(D))
  PROVE  /\ Before(t, 0) = 0 /\ Before(t, Len(t)) = Len(FlattenSeq(t))
         /\ \A n \in 1 .. Len(t) : \A k \in 1 .. Len(t[n]) :
              /\ Before(t, n - 1) + k \in 1 .. Len(FlattenSeq(t))
              /\ FlattenSeq(t)[Before(t, n - 1) + k] = t[n][k]
         /\ \A j \in 1 .. Len(FlattenSeq(t)) :
              \E n \in 1 .. Len(t) : \E k \in 1 .. Len(t[n]) : j = Before(t, n - 1) + k
<1> DEFINE l == Len(t)
           Holds(f, i) ==
             /\ \A n \in 1 .. i : \A k \in 1 .. Len(t[n]) :
                  Before(t, n - 1) + k \in 1 .. Len(f) /\ f[Before(t, n - 1) + k] = t[n][k]
             /\ \A j \in 1 .. Len(f) : \E n \in 1 .. i : \E k \in 1 .. Len(t[n]) : j = Before(t, n - 1) + k
           Good == {i \in Nat : i <= l => Holds(FlattenSeq(SubSeq(t, 1, i)), i)}
<1>0. l \in Nat /\ SubSeq(t, 1, 0) = << >> /\ SubSeq(t, 1, l) = t
  <2> DEFINE E == Seq(D)
  <2>1. t \in Seq(E)
    OBVIOUS
  <2> HIDE DEF E
  <2> QED
    BY <2>1
<1>1. Before(t, 0) = 0 /\ Before(t, l) = Len(FlattenSeq(t)) /\ FlattenSeq(SubSeq(t, 1, 0)) = << >>
  <2>1. FlattenSeq(SubSeq(t, 1, 0)) = FlattenSeq(<< >>)
    BY <1>0, Zenon
  <2>2. FlattenSeq(SubSeq(t, 1, 0)) = << >>
    BY <2>1, FlatEmpty, Zenon
  <2>3. Before(t, 0) = Len(<< >>)
    BY <2>2, Zenon DEF Before
  <2>4. Before(t, l) = Len(FlattenSeq(t))
    BY <1>0, Zenon DEF Before
  <2>5. Len(<< >>) = 0
    OBVIOUS
  <2> QED
    BY <2>2, <2>3, <2>4, <2>5
<1>2. 0 \in Good
  <2>1. Len(<< >>) = 0 /\ \A n : ~ (n \in 1 .. 0)
    OBVIOUS
  <2>2. Holds(<< >>, 0)
    BY <2>1
  <2> HIDE DEF Holds
  <2> QED
    BY <1>1, <2>2
<1>3. ASSUME NEW i \in Nat, i + 1 <= l, Holds(FlattenSeq(SubSeq(t, 1, i)), i)
      PROVE  Holds(FlattenSeq(SubSeq(t, 1, i + 1)), i + 1)
  <2> DEFINE f == FlattenSeq(SubSeq(t, 1, i))
             g == FlattenSeq(SubSeq(t, 1, i + 1))
             e == t[i + 1]
  <2>1. f \in Seq(D) /\ e \in Seq(D) /\ g = f \o e /\ Before(t, i) = Len(f)
    BY <1>3, BeforeNext DEF Before
  <2>2. Holds(f, i)
    BY <1>3
  <2> HIDE DEF f, g
  <2>3. Len(f) \in Nat /\ Len(e) \in Nat
    BY <2>1
  <2>4. /\ Len(g) = Len(f) + Len(e)
        /\ \A n \in 1 .. Len(f) + Len(e) : g[n] = IF n <= Len(f) THEN f[n] ELSE e[n - Len(f)]
    BY <2>1, Longer, Concatenated
  <2>5. ASSUME NEW n \in 1 .. i + 1, NEW k \in 1 .. Len(t[n])
        PROVE  Before(t, n - 1) + k \in 1 .. Len(g) /\ g[Before(t, n - 1) + k] = t[n][k]
    <3>1. CASE n \in 1 .. i
      <4> DEFINE j == Before(t, n - 1) + k
      <4>1. j \in 1 .. Len(f) /\ f[j] = t[n][k]
        BY <2>2, <3>1
      <4> HIDE DEF j
      <4>2. j \in 1 .. Len(f) + Len(e) /\ j <= Len(f)
        BY <2>3, <4>1
      <4>3. g[j] = t[n][k] /\ j \in 1 .. Len(g)
        BY <2>4, <4>1, <4>2
      <4> QED
        BY <4>3 DEF j
    <3>2. CASE n = i + 1
      <4>1. n - 1 = i /\ t[n] = e /\ k \in 1 .. Len(e) /\ Before(t, n - 1) = Len(f)
        BY <2>1, <3>2
      <4> DEFINE j == Len(f) + k
      <4>2. j \in 1 .. Len(f) + Len(e) /\ ~ (j <= Len(f)) /\ j - Len(f) = k
        BY <2>3, <4>1
      <4> HIDE DEF j, e
      <4>3. g[j] = e[k] /\ j \in 1 .. Len(g)
        BY <2>4, <4>2
      <4> QED
        BY <4>1, <4>3 DEF j
    <3> QED
      BY <3>1, <3>2
  <2>6. ASSUME NEW j \in 1 .. Len(g)
        PROVE  \E n \in 1 .. i + 1 : \E k \in 1 .. Len(t[n]) : j = Before(t, n - 1) + k
    <3>1. CASE j <= Len(f)
      <4>1. j \in 1 .. Len(f)
        BY <2>3, <3>1
      <4>2. PICK n \in 1 .. i : \E k \in 1 .. Len(t[n]) : j = Before(t, n - 1) + k
        BY <2>2, <4>1
      <4>3. n \in 1 .. i + 1
        OBVIOUS
      <4> QED
        BY <4>2, <4>3
    <3>2. CASE ~ (j <= Len(f))
      <4> DEFINE k == j - Len(f)
                 n == i + 1
      <4>1. k \in 1 .. Len(e) /\ j = Len(f) + k
        BY <2>3, <2>4, <3>2
      <4>2. n \in 1 .. i + 1 /\ n - 1 = i /\ t[n] = e /\ Before(t, n - 1) = Len(f)
        BY <2>1
      <4> HIDE DEF k, n, e
      <4> QED
        BY <4>1, <4>2
    <3> QED
      BY <3>1, <3>2
  <2>7. Holds(g, i + 1)
    BY <2>5, <2>6
  <2> HIDE DEF Holds
  <2> QED
    BY <2>7 DEF g
<1>4. Nat \subseteq Good
  <2> HIDE DEF Holds
  <2>1. \A i \in Nat : i \in Good => i + 1 \in Good
    <3> SUFFICES ASSUME NEW i \in Nat, i \in Good, i + 1 <= l
                 PROVE  Holds(FlattenSeq(SubSeq(t, 1, i + 1)), i + 1)
      OBVIOUS
    <3>1. i <= l
      BY <1>0
    <3> QED
      BY <1>3, <3>1
  <2> HIDE DEF Good
  <2> QED
    BY <1>2, <2>1, NatSetInduction
<1>5. Holds(FlattenSeq(t), l)
  <2> HIDE DEF Holds
  <2>1. l \in Good /\ l <= l
    BY <1>0, <1>4
  <2>2. Holds(FlattenSeq(SubSeq(t, 1, l)), l)
    BY <2>1
  <2> QED
    BY <1>0, <2>2
<1> QED
  BY <1>1, <1>5

\* The first sequence comes first.
LEMMA FlatCons ==
  ASSUME NEW D, NEW e \in Seq(D), NEW t \in Seq(Seq(D))
  PROVE  FlattenSeq(<<e>> \o t) = e \o FlattenSeq(t)
<1>1. <<e>> \in Seq(Seq(D)) /\ << >> \in Seq(Seq(D)) /\ <<e>> = Append(<< >>, e)
  OBVIOUS
<1>2. FlattenSeq(<<e>>) = << >> \o e
  BY <1>1, FlatAppend, FlatEmpty
<1>3. << >> \o e = e
  OBVIOUS
<1> QED
  BY <1>1, <1>2, <1>3, FlatConcat

\* Empty sequences make an empty one.
LEMMA FlatNone ==
  ASSUME NEW s, Len(s) \in Nat, DOMAIN s = 1 .. Len(s), s = [n \in DOMAIN s |-> s[n]],
         \A n \in DOMAIN s : s[n] = << >>
  PROVE  FlattenSeq(s) = << >>
<1>1. s \in Seq(Seq({}))
  <2>1. << >> \in Seq({})
    OBVIOUS
  <2> DEFINE E == Seq({})
  <2>2. \A n \in 1 .. Len(s) : s[n] \in E
    BY <2>1
  <2> HIDE DEF E
  <2>3. s \in Seq(E)
    BY <2>2
  <2> QED
    BY <2>3 DEF E
<1>2. FlattenSeq(s) \in Seq({})
  BY <1>1, FlatType
<1>3. \A t \in Seq({}) : t = << >>
  OBVIOUS
<1> QED
  BY <1>2, <1>3

\* Four sequences in a row.
LEMMA FlatFour ==
  ASSUME NEW D, NEW a \in Seq(D), NEW b \in Seq(D), NEW c \in Seq(D), NEW d \in Seq(D)
  PROVE  /\ FlattenSeq(<<a, b, c, d>>) \in Seq(D)
         /\ Len(FlattenSeq(<<a, b, c, d>>)) = Len(a) + Len(b) + Len(c) + Len(d)
<1>1. << >> \in Seq(Seq(D)) /\ <<a>> = Append(<< >>, a)
  OBVIOUS
<1>2. FlattenSeq(<<a>>) = << >> \o a
  BY <1>1, FlatAppend, FlatEmpty
<1>3. << >> \o a = a
  OBVIOUS
<1> DEFINE X == Seq(D)
<1>4. a \in X /\ b \in X /\ c \in X /\ d \in X
  OBVIOUS
<1> HIDE DEF X
<1>5. /\ <<a>> \in Seq(X) /\ <<a, b>> = Append(<<a>>, b) /\ <<a, b>> \in Seq(X)
      /\ <<a, b, c>> = Append(<<a, b>>, c) /\ <<a, b, c>> \in Seq(X)
      /\ <<a, b, c, d>> = Append(<<a, b, c>>, d)
  BY <1>4
<1>6. FlattenSeq(<<a, b>>) = a \o b
  BY <1>2, <1>3, <1>5, FlatAppend DEF X
<1>7. FlattenSeq(<<a, b, c>>) = (a \o b) \o c
  BY <1>5, <1>6, FlatAppend DEF X
<1>8. FlattenSeq(<<a, b, c, d>>) = ((a \o b) \o c) \o d
  BY <1>5, <1>7, FlatAppend DEF X
<1>9. a \o b \in Seq(D) /\ Len(a \o b) = Len(a) + Len(b)
  BY Longer
<1> DEFINE p == a \o b
<1>10. p \in Seq(D) /\ Len(p) = Len(a) + Len(b)
  BY <1>9
<1> HIDE DEF p
<1> DEFINE q == p \o c
<1>11. q \in Seq(D) /\ Len(q) = Len(p) + Len(c)
  BY <1>10, Longer
<1> HIDE DEF q
<1>12. q \o d \in Seq(D) /\ Len(q \o d) = Len(q) + Len(d)
  BY <1>11, Longer
<1> QED
  BY <1>8, <1>10, <1>11, <1>12 DEF p, q
=============================================================================
